------------------------------ MODULE ByteFile ------------------------------
(* What files promise: a file is a sequence of bytes, an open file is a    *)
(* place in it, and a write replaces or appends bytes there in one piece.  *)
EXTENDS Naturals, Sequences

CONSTANTS Inode, Fobj, inodeOf, Byte

VARIABLES content, off

Patch(s, o, n, v) ==
  [k \in 1..(IF o + n > Len(s) THEN o + n ELSE Len(s)) |->
     IF k > o /\ k <= o + n THEN v ELSE s[k]]

(* A read or a write moves one open file's place on by some n > 0 bytes.    *)
Moves(f) == off' = [off EXCEPT ![f] = off'[f]] /\ off'[f] > off[f]

Write(f, v) ==
  /\ Moves(f) /\ off[f] <= Len(content[inodeOf[f]])
  /\ content' = [content EXCEPT ![inodeOf[f]] =
                                   Patch(@, off[f], off'[f] - off[f], v)]

Read(f) ==
  /\ Moves(f) /\ off'[f] <= Len(content[inodeOf[f]])
  /\ UNCHANGED content

Open(f) == off' = [off EXCEPT ![f] = 0] /\ UNCHANGED content
Truncate(i) == content' = [content EXCEPT ![i] = <<>>] /\ UNCHANGED off

Init == content = [i \in Inode |-> <<>>] /\ off = [f \in Fobj |-> 0]
Next == \/ \E f \in Fobj : Open(f) \/ Read(f) \/ \E v \in Byte : Write(f, v)
        \/ \E i \in Inode : Truncate(i)
Spec == Init /\ [][Next]_<<content, off>>
=============================================================================
