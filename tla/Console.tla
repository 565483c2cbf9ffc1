------------------------------ MODULE Console ------------------------------
(***************************************************************************)
(* Terminal input (console.c): the ring that consoleintr() fills and edits *)
(* and consoleread() empties, with readers that sleep and are killed.      *)
(*                                                                         *)
(* holder is the process that has input.lock; consoleintr() takes and      *)
(* gives it back in one step, per key.  Keys that change nothing (shift    *)
(* keys, the process listing) and the echo on the screen are left out.     *)
(***************************************************************************)
EXTENDS Naturals, Sequences

CONSTANTS
  Proc, NoProc,
  BUF,      \* INPUT_BUF
  W,        \* one more than the largest uint
  Counts    \* byte counts that processes ask for

ASSUME ConsoleAssumption ==
  /\ BUF \in Nat \ {0} /\ W \in Nat /\ W > BUF /\ W % BUF = 0
  /\ Counts \subseteq Nat
  /\ NoProc \notin Proc

Char == {"x", "nl", "eof"}
Key == Char \cup {"cr", "bs", "killline"}

VARIABLES
  buf, r, w, e,   \* input
  holder,         \* input.lock
  pc,             \* where each process is in consoleread()
  n, target,      \* what it has yet to read, what it asked for
  got,            \* what it has stored in dst
  killed          \* processes with proc->killed set

ring == <<buf, r, w, e>>
vars == <<ring, holder, pc, n, target, got, killed>>

(* uint arithmetic, for 0 <= k < W.                                        *)
Plus(a, k) == IF a + k >= W THEN a + k - W ELSE a + k
Minus(a, k) == IF a >= k THEN a - k ELSE a + W - k
At(i) == buf[i % BUF]

-----------------------------------------------------------------------------
(* consoleintr() with one key; the case of the code's switch it takes.     *)
WakeAll == [p \in Proc |-> IF pc[p] = "asleep" THEN "woken" ELSE pc[p]]

(* Killing the line stops at a newline: k characters go.                   *)
NoNewline(k) == \A j \in 1..k : At(Minus(e, j)) # "nl"
KillLine ==
  /\ \E k \in 0..Minus(e, w) :
       /\ NoNewline(k) /\ (k = Minus(e, w) \/ ~NoNewline(k + 1))
       /\ e' = Minus(e, k)
  /\ UNCHANGED <<buf, r, w, pc>>

Backspace ==
  /\ e' = IF e # w THEN Minus(e, 1) ELSE e
  /\ UNCHANGED <<buf, r, w, pc>>

(* Mutant: a full buffer without a newline is not handed to readers. *)
EndsLineOnly(c, e1) == c \in {"nl", "eof"}
EndsLine(c, e1) == c \in {"nl", "eof"} \/ e1 = Plus(r, BUF)

Store(c) ==
  IF Minus(e, r) < BUF
  THEN /\ buf' = [buf EXCEPT ![e % BUF] = c]
       /\ e' = Plus(e, 1)
       /\ IF EndsLine(c, Plus(e, 1))
          THEN w' = Plus(e, 1) /\ pc' = WakeAll
          ELSE UNCHANGED <<w, pc>>
       /\ UNCHANGED r
  ELSE UNCHANGED <<ring, pc>>

consoleintr(c) ==
  /\ holder = NoProc
  /\ \/ c = "killline" /\ KillLine
     \/ c = "bs" /\ Backspace
     \/ c = "cr" /\ Store("nl")
     \/ c \in Char /\ Store(c)
  /\ UNCHANGED <<holder, n, target, got, killed>>

-----------------------------------------------------------------------------
(* consoleread().                                                          *)
ReadCall(p, k) ==
  /\ pc[p] = "user" /\ p \notin killed /\ holder = NoProc
  /\ holder' = p /\ pc' = [pc EXCEPT ![p] = "loop"]
  /\ n' = [n EXCEPT ![p] = k] /\ target' = [target EXCEPT ![p] = k]
  /\ got' = [got EXCEPT ![p] = <<>>]
  /\ UNCHANGED <<ring, killed>>

Return(p) == holder' = NoProc /\ pc' = [pc EXCEPT ![p] = "user"]

(* The end of the count, or a kill that is noticed before sleeping.        *)
ReadEnds(p) ==
  /\ holder = p /\ pc[p] = "loop"
  /\ n[p] = 0 \/ (r = w /\ p \in killed)
  /\ Return(p)
  /\ UNCHANGED <<ring, n, target, got, killed>>

(* Nothing to read and no kill seen; then sleep(), which gives input.lock  *)
(* up, and a kill that comes in between finds nobody asleep.               *)
ReadEmpty(p) ==
  /\ holder = p /\ pc[p] = "loop" /\ n[p] > 0 /\ r = w /\ p \notin killed
  /\ pc' = [pc EXCEPT ![p] = "tosleep"]
  /\ UNCHANGED <<ring, holder, n, target, got, killed>>

Sleep(p) ==
  /\ pc[p] = "tosleep"
  /\ pc' = [pc EXCEPT ![p] = "asleep"] /\ holder' = NoProc
  /\ UNCHANGED <<ring, n, target, got, killed>>

Resume(p) ==
  /\ pc[p] = "woken" /\ holder = NoProc
  /\ pc' = [pc EXCEPT ![p] = "loop"] /\ holder' = p
  /\ UNCHANGED <<ring, n, target, got, killed>>

(* One character.  An end of file after others stays for the next call.    *)
(* Mutant: it is always consumed. *)
EofStaysNever(p) == FALSE
EofStays(p) == n[p] < target[p]

ReadChar(p) ==
  LET c == At(r) IN
  /\ holder = p /\ pc[p] = "loop" /\ n[p] > 0 /\ r # w
  /\ r' = IF c = "eof" /\ EofStays(p) THEN r ELSE Plus(r, 1)
  /\ IF c = "eof" THEN UNCHANGED <<n, got>>
     ELSE /\ got' = [got EXCEPT ![p] = Append(@, c)]
          /\ n' = [n EXCEPT ![p] = @ - 1]
  /\ IF c \in {"eof", "nl"} THEN Return(p) ELSE UNCHANGED <<holder, pc>>
  /\ UNCHANGED <<buf, w, e, target, killed>>

(* kill(), by anyone.                                                      *)
Kill(p) ==
  /\ p \notin killed
  /\ killed' = killed \cup {p}
  /\ pc' = [pc EXCEPT ![p] = IF @ = "asleep" THEN "woken" ELSE @]
  /\ UNCHANGED <<ring, holder, n, target, got>>

Init ==
  /\ buf = [i \in 0..(BUF - 1) |-> "x"] /\ r = 0 /\ w = 0 /\ e = 0
  /\ holder = NoProc /\ killed = {}
  /\ pc = [p \in Proc |-> "user"]
  /\ n = [p \in Proc |-> 0] /\ target = [p \in Proc |-> 0]
  /\ got = [p \in Proc |-> <<>>]

Next ==
  \/ \E c \in Key : consoleintr(c)
  \/ \E p \in Proc, k \in Counts : ReadCall(p, k)
  \/ \E p \in Proc : \/ ReadEnds(p) \/ ReadEmpty(p) \/ Sleep(p)
                     \/ Resume(p) \/ ReadChar(p) \/ Kill(p)

Spec == Init /\ [][Next]_vars

-----------------------------------------------------------------------------
PCs == {"user", "loop", "tosleep", "asleep", "woken"}

TypeOK ==
  /\ buf \in [0..(BUF - 1) -> Char]
  /\ r \in 0..(W - 1) /\ w \in 0..(W - 1) /\ e \in 0..(W - 1)
  /\ holder \in Proc \cup {NoProc} /\ killed \subseteq Proc
  /\ pc \in [Proc -> PCs]
  /\ n \in [Proc -> Nat] /\ target \in [Proc -> Nat]

(* The indices keep their order however the counters wrap.                 *)
RingOrder == Minus(w, r) <= Minus(e, r) /\ Minus(e, r) <= BUF

(* Input cannot get stuck: a full buffer has been handed to the readers,   *)
(* who alone can make room in it, and nobody sleeps while there is input   *)
(* to read, although the key that made it ready may come at any moment     *)
(* around the reader's test and sleep.                                     *)
InputNeverStuck ==
  /\ RingOrder
  /\ Minus(e, r) = BUF => w = e
  /\ \A p \in Proc : pc[p] = "asleep" => r = w

IInv ==
  /\ TypeOK
  /\ InputNeverStuck
  /\ \A p \in Proc : pc[p] \in {"loop", "tosleep"} <=> holder = p
  /\ \A p \in Proc : pc[p] = "tosleep" => r = w

(* To its readers the ring is a line discipline: keys edit the last line   *)
(* only, a finished line is never changed, lost or overwritten, characters *)
(* are delivered once and in order, and an end of file is delivered as a   *)
(* read of nothing.                                                        *)
Window(a, b) == [k \in 1..Minus(b, a) |-> At(Plus(a, k - 1))]
T == INSTANCE Tty WITH queue <- Window(r, w), edit <- Window(w, e)
ImplementsTty == T!Spec
=============================================================================
