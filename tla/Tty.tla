-------------------------------- MODULE Tty --------------------------------
(* What a terminal promises: finished input in a queue, the line being     *)
(* typed apart from it, and readers that take at most a line at a time.    *)
EXTENDS Naturals, Sequences

CONSTANTS Proc, BUF, Char

VARIABLES queue, edit, got

Type(c) ==
  /\ Len(queue) + Len(edit) < BUF
  /\ IF c \in {"nl", "eof"} \/ Len(queue) + Len(edit) + 1 = BUF
     THEN queue' = queue \o edit \o <<c>> /\ edit' = <<>>
     ELSE edit' = Append(edit, c) /\ UNCHANGED queue
  /\ UNCHANGED got

Erase ==
  /\ edit # <<>>
  /\ edit' \in {<<>>, SubSeq(edit, 1, Len(edit) - 1)}
  /\ UNCHANGED <<queue, got>>

Start(p) == got' = [got EXCEPT ![p] = <<>>] /\ UNCHANGED <<queue, edit>>

LineDone(s) == s # <<>> /\ s[Len(s)] = "nl"

Take(p) ==
  /\ queue # <<>> /\ Head(queue) # "eof" /\ ~LineDone(got[p])
  /\ got' = [got EXCEPT ![p] = Append(@, Head(queue))]
  /\ queue' = Tail(queue) /\ UNCHANGED edit

Eof(p) ==
  /\ queue # <<>> /\ Head(queue) = "eof" /\ got[p] = <<>>
  /\ queue' = Tail(queue) /\ UNCHANGED <<edit, got>>

Init == queue = <<>> /\ edit = <<>> /\ got = [p \in Proc |-> <<>>]
Next == \/ \E c \in Char : Type(c)
        \/ Erase
        \/ \E p \in Proc : Start(p) \/ Take(p) \/ Eof(p)
Spec == Init /\ [][Next]_<<queue, edit, got>>
=============================================================================
