--------------------------- MODULE ConsoleProofs ---------------------------
(***************************************************************************)
(* Terminal input cannot get stuck, and the console's ring implements the  *)
(* line discipline of Tty, for every number of readers, buffer size and    *)
(* counter width.                                                          *)
(***************************************************************************)
EXTENDS Console, SequenceTheorems, TLAPS

Idx == 0..(W - 1)

(* A distance between two indices of the ring is a number.                 *)
LEMMA MinusNat ==
  ASSUME NEW a \in Idx, NEW b \in Idx
  PROVE  Minus(a, b) \in Nat
BY ConsoleAssumption DEF Idx, Minus

(* One key stored at a free place moves the edit index on by one.          *)
LEMMA PlusOne ==
  ASSUME NEW a \in Idx, NEW b \in Idx, Minus(a, b) < BUF
  PROVE  Plus(a, 1) \in Idx /\ Minus(Plus(a, 1), b) = Minus(a, b) + 1
BY ConsoleAssumption DEF Idx, Plus, Minus

(* Erased characters move the edit index back, not past the write index.   *)
LEMMA EraseBack ==
  ASSUME NEW a \in Idx, NEW b \in Idx, NEW c \in Idx, NEW k \in 0..Minus(a, b),
         Minus(b, c) <= Minus(a, c), Minus(a, c) <= BUF
  PROVE  /\ Minus(a, k) \in Idx
         /\ Minus(b, c) <= Minus(Minus(a, k), c)
         /\ Minus(Minus(a, k), c) <= Minus(a, c)
         /\ Minus(Minus(a, k), c) = Minus(a, c) => k = 0
         /\ k = 0 => Minus(a, k) = a
BY ConsoleAssumption DEF Idx, Minus

(* A character read moves the read index on, not past the write index.     *)
LEMMA ReadOn ==
  ASSUME NEW a \in Idx, NEW b \in Idx, NEW c \in Idx, b # c,
         Minus(b, c) <= Minus(a, c), Minus(a, c) <= BUF
  PROVE  /\ Plus(c, 1) \in Idx
         /\ Minus(b, Plus(c, 1)) <= Minus(a, Plus(c, 1))
         /\ Minus(a, Plus(c, 1)) < BUF
BY ConsoleAssumption DEF Idx, Plus, Minus

(* e = r + BUF, as consoleintr() tests it, is a full buffer.               *)
LEMMA FullTest ==
  ASSUME NEW a \in Idx, NEW b \in Idx, Minus(a, b) = BUF
  PROVE  a = Plus(b, BUF)
BY ConsoleAssumption DEF Idx, Plus, Minus

-----------------------------------------------------------------------------
(* At start the ring is empty and nobody reads.                            *)
LEMMA InitIInv == Init => IInv
<1> SUFFICES ASSUME Init PROVE IInv
  BY ZenonT(30)
<1>1. TypeOK
  BY ConsoleAssumption DEF Init, TypeOK, Char, PCs
<1>2. InputNeverStuck
  BY ConsoleAssumption DEF Init, InputNeverStuck, RingOrder, Minus
<1> QED
  BY ZenonT(30), <1>1, <1>2, ConsoleAssumption DEF Init, IInv

(* A key that is stored.  Sleepers are woken when the write index moves.   *)
LEMMA StoreIInv ==
  ASSUME IInv, NEW c \in Char, holder = NoProc, Store(c),
         UNCHANGED <<holder, n, target, got, killed>>
  PROVE  IInv'
<1> USE DEF Idx
<1>1. CASE ~(Minus(e, r) < BUF)
  <2>1. UNCHANGED vars
    BY ZenonT(30), <1>1 DEF Store, vars, ring
  <2> QED
    BY ZenonT(30), <2>1 DEF IInv, TypeOK, InputNeverStuck, RingOrder, Minus, vars, ring
<1>2. CASE Minus(e, r) < BUF
  <2> DEFINE e1 == Plus(e, 1)
  <2>1. e1 \in Idx /\ Minus(e1, r) = Minus(e, r) + 1
    BY ZenonT(30), <1>2, PlusOne DEF IInv, TypeOK
  <2>2. /\ buf' = [buf EXCEPT ![e % BUF] = c] /\ e' = e1 /\ r' = r
        /\ \/ EndsLine(c, e1) /\ w' = e1 /\ pc' = WakeAll
           \/ ~EndsLine(c, e1) /\ w' = w /\ pc' = pc
    BY ZenonT(30), <1>2 DEF Store
  <2> HIDE DEF e1
  <2>3. TypeOK'
    <3>1. buf' \in [0..(BUF - 1) -> Char]
      BY ZenonT(30), <2>2 DEF IInv, TypeOK
    <3>2. pc' \in [Proc -> PCs]
      BY ZenonT(30), <2>2 DEF IInv, TypeOK, WakeAll, PCs
    <3> QED
      BY ZenonT(30), <2>1, <2>2, <3>1, <3>2 DEF IInv, TypeOK
  <2>4. RingOrder'
    BY SMTT(60), <2>1, <2>2, <1>2, ConsoleAssumption
       DEF IInv, TypeOK, InputNeverStuck, RingOrder, Minus
  <2>5. Minus(e', r') = BUF => w' = e'
    <3>1. Minus(e1, r) = BUF => e1 = Plus(r, BUF)
      BY ZenonT(30), <2>1, FullTest DEF IInv, TypeOK
    <3> QED
      BY ZenonT(30), <2>2, <3>1 DEF EndsLine
  <2>6. ASSUME NEW p \in Proc
        PROVE  /\ pc'[p] = "asleep" => r' = w'
               /\ pc'[p] \in {"loop", "tosleep"} <=> holder' = p
               /\ pc'[p] = "tosleep" => r' = w'
    <3>1. pc[p] \notin {"loop", "tosleep"}
      BY ZenonT(30), ConsoleAssumption DEF IInv
    <3>2. CASE pc' = WakeAll
      BY ZenonT(30), <3>1, <3>2, ConsoleAssumption DEF IInv, TypeOK, WakeAll
    <3>3. CASE w' = w /\ pc' = pc
      BY ZenonT(30), <3>1, <3>3, <2>2, ConsoleAssumption DEF IInv, TypeOK, InputNeverStuck
    <3> QED
      BY ZenonT(30), <2>2, <3>2, <3>3
  <2> QED
    BY ZenonT(30), <2>3, <2>4, <2>5, <2>6 DEF IInv, InputNeverStuck, Minus
<1> QED
  BY ZenonT(30), <1>1, <1>2

(* Keys that erase.                                                        *)
LEMMA EraseIInv ==
  ASSUME IInv, NEW k \in 0..Minus(e, w), e' = Minus(e, k),
         UNCHANGED <<buf, r, w, pc, holder, n, target, got, killed>>
  PROVE  IInv'
<1>1. /\ e' \in 0..(W - 1)
      /\ Minus(w, r) <= Minus(e', r) /\ Minus(e', r) <= Minus(e, r)
      /\ Minus(e', r) = Minus(e, r) => e' = e
  BY EraseBack DEF Idx, IInv, TypeOK, InputNeverStuck, RingOrder
<1>2. TypeOK'
  BY ZenonT(30), <1>1 DEF IInv, TypeOK
<1>3. RingOrder' /\ (Minus(e', r') = BUF => w' = e')
  BY <1>1, ConsoleAssumption DEF IInv, TypeOK, InputNeverStuck, RingOrder, Minus
<1> QED
  BY ZenonT(30), <1>2, <1>3 DEF IInv, InputNeverStuck, Minus

(* Every key.                                                              *)
LEMMA KeyIInv ==
  ASSUME IInv, NEW c \in Key, consoleintr(c)
  PROVE  IInv'
<1>1. CASE c = "killline" /\ KillLine
  <2>1. PICK k \in 0..Minus(e, w) : e' = Minus(e, k)
    BY ZenonT(30), <1>1 DEF KillLine
  <2> QED
    BY ZenonT(30), <1>1, <2>1, EraseIInv DEF consoleintr, KillLine
<1>2. CASE c = "bs" /\ Backspace
  <2>1. CASE e # w
    <3>1. 1 \in 0..Minus(e, w) /\ e' = Minus(e, 1)
      BY <1>2, <2>1, ConsoleAssumption DEF Backspace, IInv, TypeOK, Minus
    <3> QED
      BY ZenonT(30), <1>2, <3>1, EraseIInv DEF consoleintr, Backspace
  <2>2. CASE e = w
    <3>1. 0 \in 0..Minus(e, w) /\ e' = Minus(e, 0)
      BY <1>2, <2>2, ConsoleAssumption DEF Backspace, IInv, TypeOK, Minus
    <3> QED
      BY ZenonT(30), <1>2, <3>1, EraseIInv DEF consoleintr, Backspace
  <2> QED
    BY ZenonT(30), <2>1, <2>2
<1>3. CASE c = "cr" /\ Store("nl")
  BY ZenonT(30), <1>3, StoreIInv DEF consoleintr, Char
<1>4. CASE c \in Char /\ Store(c)
  BY ZenonT(30), <1>4, StoreIInv DEF consoleintr
<1> QED
  BY ZenonT(30), <1>1, <1>2, <1>3, <1>4 DEF consoleintr

(* Steps that leave the ring alone: what is left to show of them is who    *)
(* holds the lock and who sleeps.                                          *)
LEMMA RingKept ==
  ASSUME IInv, UNCHANGED ring, pc' \in [Proc -> PCs],
         n' \in [Proc -> Nat], target' \in [Proc -> Nat],
         holder' \in Proc \cup {NoProc}, killed' \subseteq Proc,
         \A p \in Proc : /\ pc'[p] \in {"loop", "tosleep"} <=> holder' = p
                         /\ pc'[p] \in {"asleep", "tosleep"} => r = w
  PROVE  IInv'
<1>1. TypeOK'
  BY ZenonT(30) DEF IInv, TypeOK, ring
<1>2. RingOrder' /\ (Minus(e', r') = BUF => w' = e')
  BY ZenonT(30) DEF IInv, InputNeverStuck, RingOrder, Minus, ring
<1> QED
  BY ZenonT(30), <1>1, <1>2 DEF IInv, InputNeverStuck, ring, Minus

(* A character is read: nobody else has the lock, and nobody sleeps.       *)
LEMMA ReadCharIInv ==
  ASSUME IInv, NEW p \in Proc, ReadChar(p)
  PROVE  IInv'
<1> USE DEF Idx
<1>1. r \in Idx /\ w \in Idx /\ e \in Idx /\ r # w /\ w' = w /\ e' = e
  BY ZenonT(30) DEF ReadChar, IInv, TypeOK
<1>2. \A q \in Proc : pc[q] \notin {"asleep", "tosleep"}
  BY ZenonT(30), <1>1 DEF IInv, InputNeverStuck
<1>3. /\ r' \in Idx /\ RingOrder'
      /\ Minus(e', r') = BUF => w' = e'
  <2>1. CASE r' = r
    BY ZenonT(30), <1>1, <2>1 DEF IInv, InputNeverStuck, RingOrder, Minus
  <2>2. CASE r' = Plus(r, 1)
    <3>1. /\ r' \in Idx /\ Minus(w, r') <= Minus(e, r') /\ Minus(e, r') < BUF
      BY ZenonT(30), <1>1, <2>2, ReadOn DEF IInv, InputNeverStuck, RingOrder
    <3>2. Minus(w, r') \in Nat /\ Minus(e, r') \in Nat
      BY ZenonT(30), <1>1, <3>1, MinusNat
    <3>3. Minus(w', r') = Minus(w, r') /\ Minus(e', r') = Minus(e, r')
      BY ZenonT(30), <1>1
    <3>4. Minus(e, r') <= BUF /\ Minus(e, r') # BUF
      BY <3>1, <3>2, ConsoleAssumption
    <3>5. RingOrder'
      BY ZenonT(30), <3>1, <3>3, <3>4 DEF RingOrder
    <3> QED
      BY ZenonT(30), <3>1, <3>3, <3>4, <3>5
  <2> QED
    BY ZenonT(30), <2>1, <2>2 DEF ReadChar
<1>4. pc' \in [Proc -> PCs] /\ holder' \in Proc \cup {NoProc}
  BY ZenonT(30) DEF ReadChar, Return, IInv, TypeOK, PCs
<1>5. n' \in [Proc -> Nat]
  <2>1. n \in [Proc -> Nat] /\ n[p] > 0 /\ (n' = n \/ n' = [n EXCEPT ![p] = @ - 1])
    BY ZenonT(30) DEF ReadChar, IInv, TypeOK
  <2> QED
    BY ONLY <2>1, p \in Proc
<1>6. TypeOK'
  BY ZenonT(30), <1>3, <1>4, <1>5 DEF ReadChar, IInv, TypeOK
<1>7. ASSUME NEW q \in Proc
      PROVE  /\ pc'[q] \notin {"asleep", "tosleep"}
             /\ pc'[q] \in {"loop", "tosleep"} <=> holder' = q
  BY ZenonT(30), <1>2, ConsoleAssumption DEF ReadChar, Return, IInv, TypeOK
<1> QED
  BY ZenonT(30), <1>3, <1>6, <1>7 DEF IInv, InputNeverStuck, Minus

(* Every key, reader's step and stutter keeps the invariant.               *)
LEMMA StepIInv == IInv /\ [Next]_vars => IInv'
<1> SUFFICES ASSUME IInv, [Next]_vars PROVE IInv'
  BY ZenonT(30)
<1> USE ConsoleAssumption
<1>1. ASSUME NEW c \in Key, consoleintr(c) PROVE IInv'
  BY ZenonT(30), <1>1, KeyIInv
<1>2. ASSUME NEW p \in Proc, NEW k \in Counts, ReadCall(p, k) PROVE IInv'
  <2>1. n' \in [Proc -> Nat] /\ target' \in [Proc -> Nat]
    BY ZenonT(30), <1>2 DEF ReadCall, IInv, TypeOK
  <2> QED
    BY ZenonT(30), <1>2, <2>1, RingKept DEF ReadCall, IInv, TypeOK, InputNeverStuck, PCs
<1>3. ASSUME NEW p \in Proc, ReadEnds(p) PROVE IInv'
  BY ZenonT(30), <1>3, RingKept DEF ReadEnds, Return, IInv, TypeOK, InputNeverStuck, PCs
<1>4. ASSUME NEW p \in Proc, ReadEmpty(p) PROVE IInv'
  BY ZenonT(30), <1>4, RingKept DEF ReadEmpty, IInv, TypeOK, InputNeverStuck, PCs
<1>5. ASSUME NEW p \in Proc, Sleep(p) PROVE IInv'
  BY ZenonT(30), <1>5, RingKept DEF Sleep, IInv, TypeOK, InputNeverStuck, PCs
<1>6. ASSUME NEW p \in Proc, Resume(p) PROVE IInv'
  BY ZenonT(30), <1>6, RingKept DEF Resume, IInv, TypeOK, InputNeverStuck, PCs
<1>7. ASSUME NEW p \in Proc, ReadChar(p) PROVE IInv'
  BY ZenonT(30), <1>7, ReadCharIInv
<1>8. ASSUME NEW p \in Proc, Kill(p) PROVE IInv'
  BY ZenonT(30), <1>8, RingKept DEF Kill, IInv, TypeOK, InputNeverStuck, PCs
<1>9. CASE UNCHANGED vars
  BY ZenonT(30), <1>9, RingKept DEF vars, IInv, TypeOK, InputNeverStuck
<1> QED
  BY ZenonT(30), <1>1, <1>2, <1>3, <1>4, <1>5, <1>6, <1>7, <1>8, <1>9 DEF Next

(* Terminal input never gets stuck: in every reachable state the indices   *)
(* of the ring are in order, a full buffer is ready to be read, and no     *)
(* reader of consoleread() sleeps over input that consoleintr() delivered. *)
THEOREM InputFlows == Spec => []InputNeverStuck
<1>1. IInv => InputNeverStuck
  BY ZenonT(30) DEF IInv
<1> QED
  BY <1>1, InitIInv, StepIInv, PTL DEF Spec

-----------------------------------------------------------------------------
(* A quotient and a remainder determine each other.                        *)
LEMMA ModUnique ==
  ASSUME NEW d \in Nat \ {0}, NEW a \in Nat, NEW m \in 0..(d - 1)
  PROVE  (a * d + m) % d = m
<1> DEFINE x == a * d + m
           b == x \div d
           s == x % d
<1>1. x \in Nat
  OBVIOUS
<1>2. b \in Nat /\ s \in 0..(d - 1) /\ x = b * d + s
  BY <1>1
<1> HIDE DEF b, s
<1>3. CASE a < b
  <2>1. PICK k \in Nat : b = a + 1 + k
    BY <1>2, <1>3
  <2>2. b * d = a * d + d + k * d /\ k * d \in Nat
    BY <2>1
  <2> QED
    BY <1>2, <2>2
<1>4. CASE b < a
  <2>1. PICK k \in Nat : a = b + 1 + k
    BY <1>2, <1>4
  <2>2. a * d = b * d + d + k * d /\ k * d \in Nat
    BY <2>1, <1>2
  <2> QED
    BY <1>2, <2>2
<1> QED
  BY <1>2, <1>3, <1>4 DEF s

(* Places in the buffer do not notice that an index wraps: W is a multiple *)
(* of BUF.                                                                 *)
LEMMA WrapKeepsPlace ==
  ASSUME NEW k \in Nat
  PROVE  (k + W) % BUF = k % BUF
<1> USE ConsoleAssumption
<1> DEFINE m == W \div BUF
           q == k \div BUF
           s == k % BUF
<1>1. m \in Nat /\ W = m * BUF
  OBVIOUS
<1>2. q \in Nat /\ s \in 0..(BUF - 1) /\ k = q * BUF + s
  OBVIOUS
<1> HIDE DEF m, q, s
<1>3. k + W = (q + m) * BUF + s
  BY <1>1, <1>2
<1>4. q + m \in Nat
  BY <1>1, <1>2
<1>5. ((q + m) * BUF + s) % BUF = s
  BY ZenonT(30), <1>2, <1>4, ModUnique
<1> QED
  BY ZenonT(30), <1>3, <1>5 DEF s

(* Numbers less than BUF apart are different places.                       *)
LEMMA PlacesDiffer ==
  ASSUME NEW x \in Nat, NEW y \in Nat, x < y, y - x < BUF
  PROVE  x % BUF # y % BUF
<1> USE ConsoleAssumption
<1> DEFINE a == x \div BUF
           b == y \div BUF
           s == x % BUF
<1> SUFFICES ASSUME y % BUF = s PROVE FALSE
  BY ZenonT(30)
<1>1. a \in Nat /\ s \in Nat /\ x = a * BUF + s
  OBVIOUS
<1>2. b \in Nat /\ y = b * BUF + s
  OBVIOUS
<1> HIDE DEF a, b, s
<1>3. CASE a < b
  <2>1. PICK k \in Nat : b = a + 1 + k
    BY <1>1, <1>2, <1>3
  <2>2. b * BUF = a * BUF + BUF + k * BUF /\ k * BUF \in Nat
    BY <2>1, <1>1
  <2> QED
    BY <1>1, <1>2, <2>2
<1>4. CASE b <= a
  <2>1. PICK k \in Nat : a = b + k
    BY <1>1, <1>2, <1>4
  <2>2. a * BUF = b * BUF + k * BUF /\ k * BUF \in Nat
    BY <2>1, <1>2
  <2> QED
    BY <1>1, <1>2, <2>2
<1> QED
  BY <1>1, <1>2, <1>3, <1>4

(* Places of the buffer as seen from an index.                             *)
LEMMA PlaceFrom ==
  ASSUME NEW a \in Idx, NEW k \in 0..(W - 1)
  PROVE  /\ Plus(a, k) \in Idx
         /\ Plus(a, k) % BUF = (a + k) % BUF
         /\ Plus(a, k) % BUF \in 0..(BUF - 1)
<1>1. Plus(a, k) \in Nat /\ Plus(a, k) \in Idx
  BY ConsoleAssumption DEF Idx, Plus
<1>2. CASE a + k >= W
  <2>1. a + k - W \in Nat /\ a + k = (a + k - W) + W
    BY <1>2, ConsoleAssumption DEF Idx
  <2>2. ((a + k - W) + W) % BUF = (a + k - W) % BUF
    BY ZenonT(30), <2>1, WrapKeepsPlace
  <2> QED
    BY <1>1, <1>2, <2>1, <2>2, ConsoleAssumption DEF Plus
<1>3. CASE ~(a + k >= W)
  BY <1>1, <1>3, ConsoleAssumption DEF Plus
<1> QED
  BY ZenonT(30), <1>2, <1>3

(* Two of BUF consecutive indices, wrapped or not, are different places.   *)
LEMMA PlacesFromDiffer ==
  ASSUME NEW a \in Idx, NEW k \in Nat, NEW j \in Nat, k < j, j < BUF
  PROVE  Plus(a, k) % BUF # Plus(a, j) % BUF
<1>1. k \in 0..(W - 1) /\ j \in 0..(W - 1)
  BY ConsoleAssumption
<1>2. a + k \in Nat /\ a + j \in Nat /\ a + k < a + j /\ (a + j) - (a + k) < BUF
  BY ConsoleAssumption DEF Idx
<1> QED
  BY ZenonT(30), <1>1, <1>2, PlaceFrom, PlacesDiffer

-----------------------------------------------------------------------------
Buffer == [0..(BUF - 1) -> Char]

(* The characters between two indices, for any contents of the buffer.     *)
Place(a, k) == Plus(a, k - 1) % BUF
Win(b, a, z) == [k \in 1..Minus(z, a) |-> b[Place(a, k)]]

(* The contents the model shows are windows of this form, before and after *)
(* a step.                                                                 *)
LEMMA WindowIs ==
  /\ Window(r, w) = Win(buf, r, w) /\ Window(w, e) = Win(buf, w, e)
  /\ Window(r, w)' = Win(buf', r', w') /\ Window(w, e)' = Win(buf', w', e')
BY ZenonT(30) DEF Window, Win, Place, At, Minus, Plus

(* A distance is less than the counters' range, and zero only between      *)
(* equals.                                                                 *)
LEMMA MinusIdx ==
  ASSUME NEW a \in Idx, NEW z \in Idx
  PROVE  Minus(z, a) \in 0..(W - 1) /\ (z = a <=> Minus(z, a) = 0)
BY ConsoleAssumption DEF Idx, Minus

(* The next free place is none of the places in use before it.             *)
LEMMA PlacesApart ==
  ASSUME NEW a \in Idx, NEW m \in Nat, m < BUF, NEW k \in 1..m
  PROVE  Place(a, k) # Place(a, m + 1) /\ Place(a, k) \in 0..(BUF - 1)
<1>1. k - 1 \in Nat /\ k - 1 < m /\ (m + 1) - 1 = m /\ k - 1 \in 0..(W - 1)
  BY ConsoleAssumption
<1> QED
  BY ZenonT(30), <1>1, PlacesFromDiffer, PlaceFrom DEF Place

(* Going the distance between two indices leads from one to the other.     *)
LEMMA PlusMinus ==
  ASSUME NEW a \in Idx, NEW z \in Idx
  PROVE  Plus(a, Minus(z, a)) = z
BY ConsoleAssumption DEF Idx, Plus, Minus

(* Every index is at a place of the buffer.                                *)
LEMMA PlaceOf ==
  ASSUME NEW z \in Idx
  PROVE  z % BUF \in 0..(BUF - 1)
BY ConsoleAssumption DEF Idx

(* A window is a sequence of characters, as long as the distance.          *)
LEMMA WinSeq ==
  ASSUME NEW b \in Buffer, NEW a \in Idx, NEW z \in Idx
  PROVE  /\ Win(b, a, z) \in Seq(Char) /\ Len(Win(b, a, z)) = Minus(z, a)
         /\ \A k \in 1..Minus(z, a) : Win(b, a, z)[k] = b[Place(a, k)]
<1>1. Minus(z, a) \in Nat
  BY ZenonT(30), MinusNat
<1>2. ASSUME NEW k \in 1..Minus(z, a) PROVE b[Place(a, k)] \in Char
  <2>1. k - 1 \in 0..(W - 1)
    BY MinusIdx, ConsoleAssumption
  <2> QED
    BY ZenonT(30), <2>1, PlaceFrom DEF Buffer, Place
<1>3. Win(b, a, z) \in [1..Minus(z, a) -> Char]
  BY ZenonT(30), <1>2 DEF Win
<1> QED
  BY <1>1, <1>3 DEF Win

(* A window is empty exactly between equal indices.                        *)
LEMMA WinEmpty ==
  ASSUME NEW b \in Buffer, NEW a \in Idx, NEW z \in Idx
  PROVE  Win(b, a, z) = <<>> <=> a = z
BY WinSeq, MinusIdx, EmptySeq

(* A character stored at the edit index is behind every other.             *)
LEMMA WinStored ==
  ASSUME NEW b \in Buffer, NEW a \in Idx, NEW z \in Idx, Minus(z, a) < BUF, NEW c \in Char
  PROVE  Win([b EXCEPT ![z % BUF] = c], a, Plus(z, 1)) = Append(Win(b, a, z), c)
<1> DEFINE m == Minus(z, a)
           i == z % BUF
           d == [b EXCEPT ![i] = c]
           s == Win(b, a, z)
           t == Win(d, a, Plus(z, 1))
<1>1. m \in Nat /\ m < BUF /\ Plus(z, 1) \in Idx /\ Minus(Plus(z, 1), a) = m + 1
  BY ZenonT(30), MinusNat, PlusOne
<1>2. i \in 0..(BUF - 1) /\ i = Place(a, m + 1)
  <2>1. (m + 1) - 1 = m
    BY <1>1
  <2> QED
    BY ZenonT(30), <2>1, PlaceOf, PlusMinus DEF Place
<1> HIDE DEF i
<1>3. d \in Buffer /\ d[i] = c
  BY ZenonT(30), <1>2 DEF Buffer
<1> HIDE DEF d
<1>4. /\ s \in Seq(Char) /\ Len(s) = m
      /\ \A k \in 1..m : s[k] = b[Place(a, k)]
  BY ZenonT(30), WinSeq
<1>5. /\ t \in Seq(Char) /\ Len(t) = m + 1
      /\ \A k \in 1..(m + 1) : t[k] = d[Place(a, k)]
  BY SMTT(60), <1>1, <1>3, WinSeq
<1> HIDE DEF m, s, t
<1>6. ASSUME NEW k \in 1..m PROVE t[k] = s[k]
  <2>1. k - 1 \in Nat /\ k - 1 < m /\ k \in 1..(m + 1)
    BY ONLY <1>1, k \in 1..m
  <2>2. Place(a, k) # i /\ Place(a, k) \in 0..(BUF - 1)
    BY ZenonT(30), <1>1, <1>2, <2>1, PlacesApart
  <2>3. d[Place(a, k)] = b[Place(a, k)]
    BY ZenonT(30), <1>2, <2>2 DEF Buffer, d
  <2> QED
    BY ZenonT(30), <2>1, <2>3, <1>4, <1>5
<1>7. t[m + 1] = c
  <2>1. m + 1 \in 1..(m + 1)
    BY ONLY <1>1
  <2> QED
    BY ZenonT(30), <2>1, <1>2, <1>3, <1>5
<1>8. /\ Append(s, c) \in Seq(Char) /\ Len(Append(s, c)) = m + 1
      /\ \A k \in 1..m : Append(s, c)[k] = s[k]
      /\ Append(s, c)[m + 1] = c
  BY <1>4, AppendProperties
<1>9. \A k \in 1..(m + 1) : t[k] = Append(s, c)[k]
  BY <1>1, <1>6, <1>7, <1>8
<1>10. t = Append(s, c)
  BY ZenonT(30), <1>5, <1>8, <1>9, SeqEqual
<1> QED
  BY ZenonT(30), <1>10 DEF s, t, d, i

(* It leaves the characters before the edit index alone.                   *)
LEMMA WinKept ==
  ASSUME NEW b \in Buffer, NEW a \in Idx, NEW y \in Idx, NEW z \in Idx, NEW c \in Char,
         Minus(y, a) <= Minus(z, a), Minus(z, a) < BUF
  PROVE  Win([b EXCEPT ![z % BUF] = c], a, y) = Win(b, a, y)
<1> DEFINE m == Minus(z, a)
           i == z % BUF
           d == [b EXCEPT ![i] = c]
<1>1. m \in Nat /\ Minus(y, a) \in Nat /\ Minus(y, a) <= m /\ m < BUF
  BY ZenonT(30), MinusNat
<1>2. i \in 0..(BUF - 1) /\ i = Place(a, m + 1)
  <2>1. (m + 1) - 1 = m
    BY <1>1
  <2> QED
    BY ZenonT(30), <2>1, PlaceOf, PlusMinus DEF Place
<1> HIDE DEF m
<1>3. ASSUME NEW k \in 1..Minus(y, a)
      PROVE  d[Place(a, k)] = b[Place(a, k)]
  <2>1. k - 1 \in Nat /\ k - 1 < m
    BY ONLY <1>1, k \in 1..Minus(y, a)
  <2>2. Place(a, k) # i /\ Place(a, k) \in 0..(BUF - 1)
    BY <1>1, <1>2, <2>1, PlacesApart
  <2> QED
    BY ZenonT(30), <1>2, <2>2 DEF Buffer
<1> HIDE DEF d
<1>4. Win(d, a, y) = Win(b, a, y)
  BY ZenonT(30), <1>3 DEF Win
<1> QED
  BY ZenonT(30), <1>4 DEF d

(* The finished input and the line being typed are adjacent.               *)
LEMMA WinJoin ==
  ASSUME NEW b \in Buffer, NEW a \in Idx, NEW y \in Idx, NEW z \in Idx,
         Minus(y, a) <= Minus(z, a)
  PROVE  /\ Win(b, a, y) \o Win(b, y, z) = Win(b, a, z)
         /\ Minus(z, a) = Minus(y, a) + Minus(z, y)
<1> DEFINE m == Minus(y, a)
           l == Minus(z, y)
           s == Win(b, a, y)
           t == Win(b, y, z)
           u == Win(b, a, z)
<1>1. m \in Nat /\ l \in Nat /\ Minus(z, a) = m + l
  BY ConsoleAssumption DEF Idx, Minus
<1>2. /\ s \in Seq(Char) /\ Len(s) = m
      /\ \A k \in 1..m : s[k] = b[Place(a, k)]
  BY ZenonT(30), WinSeq
<1>3. /\ t \in Seq(Char) /\ Len(t) = l
      /\ \A k \in 1..l : t[k] = b[Place(y, k)]
  BY ZenonT(30), WinSeq
<1>4. /\ u \in Seq(Char) /\ Len(u) = m + l
      /\ \A k \in 1..(m + l) : u[k] = b[Place(a, k)]
  BY SMTT(60), <1>1, WinSeq
<1>5. ASSUME NEW k \in (m + 1)..(m + l) PROVE Place(a, k) = Place(y, k - m)
  BY <1>1, MinusIdx, ConsoleAssumption DEF Idx, Minus, Plus, Place
<1> HIDE DEF m, l, s, t, u
<1>6. /\ s \o t \in Seq(Char) /\ Len(s \o t) = m + l
      /\ \A k \in 1..(m + l) : (s \o t)[k] = IF k <= m THEN s[k] ELSE t[k - m]
  BY ONLY ZenonT(30), <1>2, <1>3, ConcatProperties
<1>7. ASSUME NEW k \in 1..(m + l) PROVE (s \o t)[k] = u[k]
  <2>1. CASE k <= m
    <3>1. k \in 1..m
      BY <1>1, <2>1
    <3> QED
      BY ZenonT(30), <3>1, <2>1, <1>2, <1>4, <1>6
  <2>2. CASE ~(k <= m)
    <3>1. k \in (m + 1)..(m + l) /\ k - m \in 1..l
      BY <1>1, <2>2
    <3> QED
      BY ZenonT(30), <3>1, <2>2, <1>3, <1>4, <1>5, <1>6
  <2> QED
    BY ZenonT(30), <2>1, <2>2
<1>8. s \o t = u
  BY ZenonT(30), <1>4, <1>6, <1>7, SeqEqual
<1> QED
  BY ZenonT(30), <1>1, <1>8 DEF s, t, u, m, l

(* consoleread() takes the first character.                                *)
LEMMA WinTail ==
  ASSUME NEW b \in Buffer, NEW a \in Idx, NEW z \in Idx, a # z
  PROVE  /\ Win(b, a, z) # <<>> /\ Head(Win(b, a, z)) = b[a % BUF]
         /\ Win(b, Plus(a, 1), z) = Tail(Win(b, a, z))
<1> DEFINE m == Minus(z, a)
           s == Win(b, a, z)
           t == Win(b, Plus(a, 1), z)
<1>1. m \in Nat \ {0} /\ Plus(a, 1) \in Idx /\ Minus(z, Plus(a, 1)) = m - 1
  BY ConsoleAssumption DEF Idx, Minus, Plus
<1>2. /\ s \in Seq(Char) /\ Len(s) = m
      /\ \A k \in 1..m : s[k] = b[Place(a, k)]
  BY ZenonT(30), WinSeq
<1>3. /\ t \in Seq(Char) /\ Len(t) = m - 1
      /\ \A k \in 1..(m - 1) : t[k] = b[Place(Plus(a, 1), k)]
  BY <1>1, WinSeq
<1>4. ASSUME NEW k \in 1..(m - 1) PROVE Place(Plus(a, 1), k) = Place(a, k + 1)
  <2>1. k - 1 \in 0..(W - 2)
    BY <1>1, MinusIdx, ConsoleAssumption
  <2>2. Plus(Plus(a, 1), k - 1) = Plus(a, k)
    BY ONLY <2>1, a \in Idx, ConsoleAssumption DEF Idx, Plus
  <2>3. (k + 1) - 1 = k
    BY <2>1
  <2> QED
    BY ZenonT(30), <2>2, <2>3 DEF Place
<1>5. Place(a, 1) = a % BUF
  <2>1. Plus(a, 1 - 1) = a
    BY ConsoleAssumption DEF Idx, Plus
  <2> QED
    BY ZenonT(30), <2>1 DEF Place
<1> HIDE DEF m, s, t
<1>6. s # <<>> /\ Head(s) = s[1] /\ s[1] = b[a % BUF]
  BY <1>1, <1>2, <1>5
<1>7. /\ Tail(s) \in Seq(Char) /\ Len(Tail(s)) = m - 1
      /\ \A k \in 1..(m - 1) : Tail(s)[k] = s[k + 1]
  BY <1>2, <1>6, HeadTailProperties
<1>8. ASSUME NEW k \in 1..(m - 1) PROVE t[k] = Tail(s)[k]
  <2>1. k + 1 \in 1..m
    BY <1>1
  <2> QED
    BY ZenonT(30), <2>1, <1>2, <1>3, <1>4, <1>7
<1>9. t = Tail(s)
  BY ZenonT(30), <1>3, <1>7, <1>8, SeqEqual
<1> QED
  BY ZenonT(30), <1>6, <1>9 DEF s, t

(* Erasing takes characters off the end of the line.                       *)
LEMMA WinErased ==
  ASSUME NEW b \in Buffer, NEW a \in Idx, NEW z \in Idx, NEW k \in 0..Minus(z, a)
  PROVE  /\ Minus(z, k) \in Idx /\ Minus(Minus(z, k), a) = Minus(z, a) - k
         /\ Win(b, a, Minus(z, k)) = SubSeq(Win(b, a, z), 1, Minus(z, a) - k)
<1> DEFINE m == Minus(z, a)
           s == Win(b, a, z)
           t == Win(b, a, Minus(z, k))
<1>1. /\ m \in Nat /\ k \in 0..m
      /\ Minus(z, k) \in Idx /\ Minus(Minus(z, k), a) = m - k
  BY ConsoleAssumption DEF Idx, Minus
<1>2. /\ s \in Seq(Char) /\ Len(s) = m
      /\ \A i \in 1..m : s[i] = b[Place(a, i)]
  BY ZenonT(30), WinSeq
<1>3. /\ t \in Seq(Char) /\ Len(t) = m - k
      /\ \A i \in 1..(m - k) : t[i] = b[Place(a, i)]
  BY <1>1, WinSeq
<1> HIDE DEF m, s, t
<1>4. /\ SubSeq(s, 1, m - k) \in Seq(Char) /\ Len(SubSeq(s, 1, m - k)) = m - k
      /\ \A i \in 1..(m - k) : SubSeq(s, 1, m - k)[i] = s[i]
  BY <1>1, <1>2, SubSeqProperties
<1>5. ASSUME NEW i \in 1..(m - k) PROVE t[i] = SubSeq(s, 1, m - k)[i]
  <2>1. i \in 1..m
    BY <1>1
  <2> QED
    BY ZenonT(30), <2>1, <1>2, <1>3, <1>4
<1>6. t = SubSeq(s, 1, m - k)
  BY ZenonT(30), <1>3, <1>4, <1>5, SeqEqual
<1> QED
  BY ZenonT(30), <1>1, <1>6 DEF s, t, m

-----------------------------------------------------------------------------
Queue == Win(buf, r, w)
Edit == Win(buf, w, e)

(* What the terminal shows its readers rests on: the line being typed has  *)
(* no newline, so that erasing it all is erasing the line; and a call of   *)
(* consoleread() has stored what it has counted, and no whole line yet.    *)
LineOK == \A k \in 1..Len(Edit) : Edit[k] # "nl"
GotOK ==
  /\ got \in [Proc -> Seq(Char)]
  /\ \A p \in Proc : pc[p] # "user" => /\ Len(got[p]) + n[p] = target[p]
                                       /\ ~T!LineDone(got[p])
ReadInv == IInv /\ LineOK /\ GotOK

(* The finished lines and the line being typed, one after the other, are   *)
(* what the ring holds, at most BUF characters.                            *)
LEMMA RingFacts ==
  ASSUME IInv
  PROVE  /\ buf \in Buffer /\ r \in Idx /\ w \in Idx /\ e \in Idx
         /\ Minus(w, r) <= Minus(e, r) /\ Minus(e, r) <= BUF
         /\ Queue \in Seq(Char) /\ Edit \in Seq(Char)
         /\ Len(Queue) = Minus(w, r) /\ Len(Edit) = Minus(e, w)
         /\ Queue \o Edit = Win(buf, r, e)
         /\ Len(Queue) + Len(Edit) = Minus(e, r)
<1>1. /\ buf \in Buffer /\ r \in Idx /\ w \in Idx /\ e \in Idx
      /\ Minus(w, r) <= Minus(e, r) /\ Minus(e, r) <= BUF
  BY ZenonT(30) DEF IInv, TypeOK, InputNeverStuck, RingOrder, Buffer, Idx
<1>2. /\ Queue \in Seq(Char) /\ Edit \in Seq(Char)
      /\ Len(Queue) = Minus(w, r) /\ Len(Edit) = Minus(e, w)
  BY ZenonT(30), <1>1, WinSeq DEF Queue, Edit
<1>3. Queue \o Edit = Win(buf, r, e) /\ Minus(e, r) = Minus(w, r) + Minus(e, w)
  BY ZenonT(30), <1>1, WinJoin DEF Queue, Edit
<1> QED
  BY ZenonT(30), <1>1, <1>2, <1>3

(* A key that is stored is typed.                                          *)
LEMMA StoreTypes ==
  ASSUME IInv, NEW c \in Char, Store(c), UNCHANGED got
  PROVE  \/ UNCHANGED <<Queue, Edit, got>>
         \/ /\ Len(Queue) + Len(Edit) < BUF
            /\ IF c \in {"nl", "eof"} \/ Len(Queue) + Len(Edit) + 1 = BUF
               THEN Queue' = Queue \o Edit \o <<c>> /\ Edit' = <<>>
               ELSE Edit' = Append(Edit, c) /\ Queue' = Queue
<1>1. CASE ~(Minus(e, r) < BUF)
  <2>1. UNCHANGED <<buf, r, w, e>>
    BY ZenonT(30), <1>1 DEF Store, ring
  <2> QED
    BY ZenonT(30), <2>1, WindowIs DEF Queue, Edit
<1>2. CASE Minus(e, r) < BUF
  <2> DEFINE b1 == [buf EXCEPT ![e % BUF] = c]
             e1 == Plus(e, 1)
  <2>1. /\ buf \in Buffer /\ r \in Idx /\ w \in Idx /\ e \in Idx
        /\ Minus(w, r) <= Minus(e, r) /\ Len(Queue) + Len(Edit) = Minus(e, r)
        /\ Len(Edit) = Minus(e, w) /\ Len(Queue) \in Nat /\ Len(Edit) \in Nat
        /\ Queue \in Seq(Char) /\ Edit \in Seq(Char)
        /\ Queue \o Edit = Win(buf, r, e)
    BY RingFacts
  <2>2. /\ buf' = b1 /\ e' = e1 /\ r' = r
        /\ \/ EndsLine(c, e1) /\ w' = e1
           \/ ~EndsLine(c, e1) /\ w' = w
    BY ZenonT(30), <1>2 DEF Store
  <2>3. e1 \in Idx /\ Minus(e1, r) = Minus(e, r) + 1
    BY ZenonT(30), <1>2, <2>1, PlusOne
  <2>4. EndsLine(c, e1) <=> c \in {"nl", "eof"} \/ Len(Queue) + Len(Edit) + 1 = BUF
    <3>1. e1 = Plus(r, BUF) <=> Minus(e1, r) = BUF
      BY ONLY SMTT(60), <2>1, <2>3, ConsoleAssumption DEF Idx, Plus, Minus
    <3> QED
      BY ZenonT(30), <2>1, <2>3, <3>1 DEF EndsLine
  <2>5. b1 \in Buffer
    BY ZenonT(30), <2>1, PlaceOf DEF Buffer
  <2> HIDE DEF b1, e1
  <2>6. CASE EndsLine(c, e1)
    <3>1. Queue' = Win(b1, r, e1) /\ Edit' = Win(b1, e1, e1)
      BY ZenonT(30), <2>2, <2>6, WindowIs DEF Queue, Edit
    <3>2. Edit' = <<>>
      BY ZenonT(30), <3>1, <2>3, <2>5, WinEmpty
    <3>3. Queue' = Append(Queue \o Edit, c)
      <4>1. Win(b1, r, e1) = Append(Win(buf, r, e), c)
        BY ONLY ZenonT(30), <1>2, <2>1, c \in Char, WinStored DEF b1, e1
      <4> QED
        BY ZenonT(30), <4>1, <2>1, <3>1
    <3>4. Append(Queue \o Edit, c) = Queue \o Edit \o <<c>>
      <4>1. Queue \o Edit \in Seq(Char)
        BY ZenonT(30), <2>1, ConcatProperties
      <4> QED
        BY ONLY ZenonT(30), <4>1, c \in Char, AppendIsConcat
    <3> QED
      BY ZenonT(30), <1>2, <2>1, <2>4, <2>6, <3>2, <3>3, <3>4
  <2>7. CASE ~EndsLine(c, e1)
    <3>1. Queue' = Win(b1, r, w) /\ Edit' = Win(b1, w, e1)
      BY ZenonT(30), <2>2, <2>7, WindowIs DEF Queue, Edit
    <3>2. Minus(e, w) < BUF
      <4>1. BUF \in Nat
        BY ZenonT(30), ConsoleAssumption
      <4> QED
        BY ONLY <1>2, <2>1, <4>1
    <3>3. Edit' = Append(Edit, c)
      <4>1. Win(b1, w, e1) = Append(Win(buf, w, e), c)
        BY ONLY ZenonT(30), <3>2, <2>1, c \in Char, WinStored DEF b1, e1
      <4> QED
        BY ZenonT(30), <4>1, <3>1 DEF Edit
    <3>4. Queue' = Queue
      BY SMTT(60), <1>2, <2>1, <3>1, WinKept DEF b1, Queue
    <3> QED
      BY ZenonT(30), <1>2, <2>1, <2>4, <2>7, <3>3, <3>4
  <2> QED
    BY ZenonT(30), <2>6, <2>7
<1> QED
  BY ZenonT(30), <1>1, <1>2

(* A key that erases takes one character off the line, or all of them.     *)
LEMMA EraseTypes ==
  ASSUME IInv, NEW k \in 0..Minus(e, w), e' = Minus(e, k), UNCHANGED <<buf, r, w>>
  PROVE  /\ Queue' = Queue /\ Edit' = SubSeq(Edit, 1, Len(Edit) - k)
         /\ k = Minus(e, w) => Edit' = <<>>
         /\ k = 0 => Edit' = Edit
<1>1. /\ buf \in Buffer /\ r \in Idx /\ w \in Idx /\ e \in Idx
      /\ Len(Edit) = Minus(e, w) /\ Edit = Win(buf, w, e)
  BY ZenonT(30), RingFacts DEF Edit
<1>2. Queue' = Queue /\ Edit' = Win(buf, w, Minus(e, k))
  BY ZenonT(30), WindowIs DEF Queue, Edit
<1>3. /\ Minus(e, k) \in Idx /\ Minus(Minus(e, k), w) = Minus(e, w) - k
      /\ Win(buf, w, Minus(e, k)) = SubSeq(Win(buf, w, e), 1, Minus(e, w) - k)
  BY ZenonT(30), <1>1, WinErased
<1>4. k = Minus(e, w) => Minus(e, k) = w
  BY <1>1, <1>3, MinusIdx
<1>5. k = 0 => Minus(e, k) = e
  BY <1>1, ConsoleAssumption DEF Idx, Minus
<1> QED
  BY SMTT(60), <1>1, <1>2, <1>3, <1>4, <1>5, WinEmpty

(* Killing the line kills all of it: there is no newline to stop at.       *)
LEMMA KillsAll ==
  ASSUME IInv, LineOK, NEW k \in 0..Minus(e, w),
         k = Minus(e, w) \/ ~NoNewline(k + 1)
  PROVE  k = Minus(e, w)
<1> SUFFICES ASSUME k < Minus(e, w) PROVE NoNewline(k + 1)
  <2>1. Minus(e, w) \in Nat
    BY ZenonT(30), RingFacts, MinusNat
  <2> QED
    BY <2>1
<1> SUFFICES ASSUME NEW j \in 1..(k + 1) PROVE At(Minus(e, j)) # "nl"
  BY ZenonT(30) DEF NoNewline
<1> DEFINE m == Minus(e, w)
           i == m - j + 1
<1>1. /\ buf \in Buffer /\ w \in Idx /\ e \in Idx /\ Len(Edit) = m
  BY ZenonT(30), RingFacts
<1>2. m \in 0..(W - 1) /\ j \in 1..m /\ i \in 1..m /\ i - 1 = m - j
  BY SMTT(60), <1>1, MinusIdx
<1>3. Minus(e, j) = Plus(w, i - 1)
  BY <1>1, <1>2, ConsoleAssumption DEF Idx, Plus, Minus
<1>4. Edit[i] = At(Minus(e, j))
  <2>1. Edit[i] = buf[Place(w, i)]
    BY ONLY ZenonT(30), <1>1, <1>2, WinSeq DEF Edit, m
  <2> QED
    BY ONLY ZenonT(30), <1>3, <2>1 DEF Place, At
<1> QED
  BY ZenonT(30), <1>1, <1>2, <1>4 DEF LineOK

(* Keys type and erase, and keep newlines out of the line being typed.     *)
LEMMA KeyTypes ==
  ASSUME IInv, LineOK, NEW c \in Key, consoleintr(c)
  PROVE  /\ \/ UNCHANGED <<Queue, Edit, got>>
            \/ \E d \in Char :
                 /\ Len(Queue) + Len(Edit) < BUF
                 /\ IF d \in {"nl", "eof"} \/ Len(Queue) + Len(Edit) + 1 = BUF
                    THEN Queue' = Queue \o Edit \o <<d>> /\ Edit' = <<>>
                    ELSE Edit' = Append(Edit, d) /\ Queue' = Queue
            \/ /\ Edit # <<>>
               /\ Edit' \in {<<>>, SubSeq(Edit, 1, Len(Edit) - 1)} /\ Queue' = Queue
         /\ got' = got
<1>1. got' = got
  BY ZenonT(30) DEF consoleintr
<1>2. ASSUME NEW d \in Char, Store(d)
      PROVE  \/ UNCHANGED <<Queue, Edit, got>>
             \/ /\ Len(Queue) + Len(Edit) < BUF
                /\ IF d \in {"nl", "eof"} \/ Len(Queue) + Len(Edit) + 1 = BUF
                   THEN Queue' = Queue \o Edit \o <<d>> /\ Edit' = <<>>
                   ELSE Edit' = Append(Edit, d) /\ Queue' = Queue
  BY ZenonT(30), <1>1, <1>2, StoreTypes
<1>3. CASE c = "killline" /\ KillLine
  <2>1. PICK k \in 0..Minus(e, w) :
          (k = Minus(e, w) \/ ~NoNewline(k + 1)) /\ e' = Minus(e, k)
    BY ZenonT(30), <1>3 DEF KillLine
  <2>2. k = Minus(e, w) /\ UNCHANGED <<buf, r, w>>
    BY ZenonT(30), <1>3, <2>1, KillsAll DEF KillLine
  <2>3. Edit' = <<>> /\ Queue' = Queue
    BY ZenonT(30), <2>1, <2>2, EraseTypes
  <2> QED
    BY ZenonT(30), <1>1, <2>3
<1>4. CASE c = "bs" /\ Backspace
  <2>1. CASE e # w
    <3>1. 1 \in 0..Minus(e, w) /\ e' = Minus(e, 1) /\ UNCHANGED <<buf, r, w>>
      BY SMTT(60), <1>4, <2>1, ConsoleAssumption DEF Backspace, IInv, TypeOK, Minus
    <3>2. Queue' = Queue /\ Edit' = SubSeq(Edit, 1, Len(Edit) - 1)
      BY ONLY ZenonT(30), IInv, <3>1, EraseTypes
    <3>3. Edit # <<>>
      BY <2>1, RingFacts, WinEmpty DEF Edit
    <3> QED
      BY ZenonT(30), <1>1, <3>2, <3>3
  <2>2. CASE e = w
    <3>1. UNCHANGED <<buf, r, w, e>>
      BY ZenonT(30), <1>4, <2>2 DEF Backspace
    <3> QED
      BY ZenonT(30), <1>1, <3>1, WindowIs DEF Queue, Edit
  <2> QED
    BY ZenonT(30), <2>1, <2>2
<1>5. CASE c = "cr" /\ Store("nl")
  BY ZenonT(30), <1>1, <1>2, <1>5 DEF Char
<1>6. CASE c \in Char /\ Store(c)
  BY ZenonT(30), <1>1, <1>2, <1>6
<1> QED
  BY ZenonT(30), <1>1, <1>3, <1>4, <1>5, <1>6 DEF consoleintr

(* No key puts a newline into the line being typed: it finishes the line.  *)
LEMMA KeyLine ==
  ASSUME IInv, LineOK, NEW c \in Key, consoleintr(c)
  PROVE  LineOK'
<1>1. Edit \in Seq(Char)
  BY ZenonT(30), RingFacts
<1>2. CASE Edit' = Edit
  BY ZenonT(30), <1>2 DEF LineOK
<1>3. CASE Edit' = <<>>
  BY <1>3 DEF LineOK
<1>4. ASSUME NEW d \in Char, d # "nl", Edit' = Append(Edit, d) PROVE LineOK'
  <2>1. /\ Len(Append(Edit, d)) = Len(Edit) + 1 /\ Len(Edit) \in Nat
        /\ \A k \in 1..Len(Edit) : Append(Edit, d)[k] = Edit[k]
        /\ Append(Edit, d)[Len(Edit) + 1] = d
    BY <1>1, AppendProperties
  <2> SUFFICES ASSUME NEW k \in 1..(Len(Edit) + 1) PROVE Append(Edit, d)[k] # "nl"
    BY ZenonT(30), <1>4, <2>1 DEF LineOK
  <2> QED
    BY <1>4, <2>1 DEF LineOK
<1>5. CASE Edit # <<>> /\ Edit' = SubSeq(Edit, 1, Len(Edit) - 1)
  <2>1. Len(Edit) \in Nat \ {0}
    BY ZenonT(30), <1>1, <1>5, EmptySeq
  <2>2. /\ Len(SubSeq(Edit, 1, Len(Edit) - 1)) = Len(Edit) - 1
        /\ \A k \in 1..(Len(Edit) - 1) : SubSeq(Edit, 1, Len(Edit) - 1)[k] = Edit[k]
    <3> DEFINE m == Len(Edit) - 1
    <3>1. 1 \in 1..(Len(Edit) + 1) /\ m \in 0..Len(Edit)
      BY <2>1
    <3>2. m \in Nat
      BY <2>1
    <3> HIDE DEF m
    <3>3. Len(SubSeq(Edit, 1, m)) = m /\ \A k \in 1..m : SubSeq(Edit, 1, m)[k] = Edit[k]
      BY ONLY SMTT(60), <1>1, <2>1, <3>1, <3>2, SubSeqProperties
    <3> QED
      BY ZenonT(30), <3>3 DEF m
  <2> SUFFICES ASSUME NEW k \in 1..(Len(Edit) - 1)
               PROVE  SubSeq(Edit, 1, Len(Edit) - 1)[k] # "nl"
    BY ZenonT(30), <1>5, <2>2 DEF LineOK
  <2>3. k \in 1..Len(Edit)
    BY <2>1
  <2> QED
    BY ZenonT(30), <2>2, <2>3 DEF LineOK
<1> QED
  BY ZenonT(30), <1>2, <1>3, <1>4, <1>5, KeyTypes

(* A character read is taken from the queue, or is an end of file.         *)
LEMMA ReadTakes ==
  ASSUME IInv, NEW p \in Proc, ReadChar(p)
  PROVE  /\ Queue # <<>> /\ Head(Queue) = At(r) /\ At(r) \in Char /\ Edit' = Edit
         /\ r' = r => Queue' = Queue
         /\ r' = Plus(r, 1) => Queue' = Tail(Queue)
<1>1. r # w /\ UNCHANGED <<buf, w, e>>
  BY ZenonT(30) DEF ReadChar
<1>2. buf \in Buffer /\ r \in Idx /\ w \in Idx
  BY ZenonT(30), RingFacts
<1>3. /\ Queue # <<>> /\ Head(Queue) = At(r)
      /\ Win(buf, Plus(r, 1), w) = Tail(Queue)
  BY ZenonT(30), <1>1, <1>2, WinTail DEF Queue, At
<1>4. At(r) \in Char
  BY ZenonT(30), <1>2, PlaceOf DEF At, Buffer
<1> QED
  BY ZenonT(30), <1>1, <1>3, <1>4, WindowIs DEF Queue, Edit

(* A reader takes the first character, or ends its call at an end of file, *)
(* which it takes only when it has nothing else.                           *)
LEMMA ReadGot ==
  ASSUME IInv, GotOK, NEW p \in Proc, ReadChar(p)
  PROVE  /\ GotOK'
         /\ \/ /\ Head(Queue) # "eof" /\ ~T!LineDone(got[p]) /\ Queue' = Tail(Queue)
               /\ got' = [got EXCEPT ![p] = Append(@, Head(Queue))]
            \/ Head(Queue) = "eof" /\ got[p] = <<>> /\ Queue' = Tail(Queue) /\ got' = got
            \/ Queue' = Queue /\ got' = got
<1> DEFINE c == At(r)
<1>1. /\ pc[p] = "loop" /\ n[p] > 0 /\ target' = target
      /\ r' = IF c = "eof" /\ EofStays(p) THEN r ELSE Plus(r, 1)
      /\ IF c = "eof" THEN UNCHANGED <<n, got>>
         ELSE /\ got' = [got EXCEPT ![p] = Append(@, c)]
              /\ n' = [n EXCEPT ![p] = @ - 1]
      /\ IF c \in {"eof", "nl"} THEN pc' = [pc EXCEPT ![p] = "user"] ELSE pc' = pc
  BY ZenonT(30) DEF ReadChar, Return
<1>2. c \in Char /\ Head(Queue) = c
      /\ (r' = r => Queue' = Queue) /\ (r' = Plus(r, 1) => Queue' = Tail(Queue))
  BY ZenonT(30), ReadTakes
<1>3. /\ got \in [Proc -> Seq(Char)] /\ got[p] \in Seq(Char) /\ n[p] \in Nat /\ n \in [Proc -> Nat]
      /\ target[p] \in Nat /\ Len(got[p]) \in Nat /\ pc \in [Proc -> PCs]
      /\ Len(got[p]) + n[p] = target[p] /\ ~T!LineDone(got[p])
  <2>1. /\ got \in [Proc -> Seq(Char)] /\ n \in [Proc -> Nat] /\ target \in [Proc -> Nat]
        /\ pc \in [Proc -> PCs] /\ Len(got[p]) + n[p] = target[p] /\ ~T!LineDone(got[p])
    BY SMTT(60), <1>1 DEF GotOK, IInv, TypeOK
  <2>2. got[p] \in Seq(Char) /\ n[p] \in Nat /\ target[p] \in Nat
    BY ONLY <2>1, p \in Proc
  <2>3. Len(got[p]) \in Nat
    BY ONLY <2>2
  <2> QED
    BY ONLY ZenonT(30), <2>1, <2>2, <2>3
<1> HIDE DEF c
<1>4. CASE c = "eof"
  <2>1. GotOK'
    BY ZenonT(30), <1>1, <1>3, <1>4 DEF GotOK
  <2>2. CASE EofStays(p)
    BY ZenonT(30), <1>1, <1>2, <1>4, <2>1, <2>2
  <2>3. CASE ~EofStays(p)
    <3>1. Len(got[p]) = 0
      BY <1>3, <2>3 DEF EofStays
    <3>2. got[p] = <<>>
      BY ZenonT(30), <1>3, <3>1, EmptySeq
    <3> QED
      BY ZenonT(30), <1>1, <1>2, <1>4, <2>1, <2>3, <3>2
  <2> QED
    BY ZenonT(30), <2>2, <2>3
<1>5. CASE c # "eof"
  <2>1. /\ Append(got[p], c) \in Seq(Char) /\ Len(Append(got[p], c)) = Len(got[p]) + 1
        /\ Append(got[p], c)[Len(got[p]) + 1] = c
    BY <1>2, <1>3, AppendProperties
  <2>2. got' = [got EXCEPT ![p] = Append(got[p], c)] /\ n' = [n EXCEPT ![p] = n[p] - 1]
    BY ZenonT(30), <1>1, <1>5
  <2>3. got' \in [Proc -> Seq(Char)] /\ got'[p] = Append(got[p], c) /\ n'[p] = n[p] - 1
    BY ZenonT(30), <1>3, <2>1, <2>2
  <2>4. ASSUME NEW q \in Proc, pc'[q] # "user"
        PROVE  Len(got'[q]) + n'[q] = target'[q] /\ ~T!LineDone(got'[q])
    <3>1. CASE q = p
      <4>1. c # "nl"
        BY ZenonT(30), <1>1, <1>3, <2>4, <3>1
      <4>2. Len(got'[p]) + n'[p] = target[p]
        BY <2>1, <2>3, <1>3
      <4>3. ~T!LineDone(got'[p])
        BY ZenonT(30), <4>1, <2>1, <2>3 DEF T!LineDone
      <4> QED
        BY ZenonT(30), <3>1, <4>2, <4>3, <1>1
    <3>2. CASE q # p
      <4>1. pc[q] # "user" /\ got'[q] = got[q] /\ n'[q] = n[q]
        BY ZenonT(30), <1>1, <1>3, <2>2, <2>4, <3>2
      <4> QED
        BY ZenonT(30), <4>1, <1>1 DEF GotOK
    <3> QED
      BY ZenonT(30), <3>1, <3>2
  <2>5. GotOK'
    BY ZenonT(30), <2>3, <2>4 DEF GotOK
  <2> QED
    BY ZenonT(30), <1>1, <1>2, <1>3, <1>5, <2>2, <2>5
<1> QED
  BY ZenonT(30), <1>4, <1>5

(* The other steps of a reader leave the characters alone.                 *)
ReadStep(p) == ReadEnds(p) \/ ReadEmpty(p) \/ Sleep(p) \/ Resume(p) \/ Kill(p)

(* Their characters are what they were.                                    *)
LEMMA ReadQuiet ==
  ASSUME ReadInv, NEW p \in Proc, ReadStep(p)
  PROVE  UNCHANGED <<Queue, Edit, got>> /\ LineOK' /\ GotOK'
<1>1. /\ UNCHANGED <<buf, r, w, e, n, target, got>>
      /\ \A q \in Proc : pc'[q] # "user" => pc[q] # "user"
  BY ZenonT(30) DEF ReadStep, ReadEnds, ReadEmpty, Sleep, Resume, Kill, Return, ring, PCs,
         ReadInv, IInv, TypeOK
<1>2. UNCHANGED <<Queue, Edit, got>>
  BY ZenonT(30), <1>1, WindowIs DEF Queue, Edit
<1>3. LineOK'
  BY ZenonT(30), <1>2 DEF LineOK, ReadInv
<1>4. GotOK'
  BY ZenonT(30), <1>1 DEF GotOK, ReadInv, IInv, TypeOK
<1> QED
  BY ZenonT(30), <1>2, <1>3, <1>4

(* A call of consoleread() starts with nothing delivered.                  *)
LEMMA CallStarts ==
  ASSUME ReadInv, NEW p \in Proc, NEW k \in Counts, ReadCall(p, k)
  PROVE  /\ UNCHANGED <<Queue, Edit>> /\ got' = [got EXCEPT ![p] = <<>>]
         /\ LineOK' /\ GotOK'
<1>1. /\ UNCHANGED <<buf, r, w, e>> /\ got' = [got EXCEPT ![p] = <<>>]
      /\ pc' = [pc EXCEPT ![p] = "loop"]
      /\ n' = [n EXCEPT ![p] = k] /\ target' = [target EXCEPT ![p] = k]
  BY ZenonT(30) DEF ReadCall, ring
<1>2. UNCHANGED <<Queue, Edit>>
  BY ZenonT(30), <1>1, WindowIs DEF Queue, Edit
<1>3. LineOK'
  BY ZenonT(30), <1>2 DEF LineOK, ReadInv
<1>4. <<>> \in Seq(Char) /\ Len(<<>>) = 0 /\ ~T!LineDone(<<>>) /\ k \in Nat
  BY ConsoleAssumption DEF T!LineDone
<1>5. GotOK'
  <2>1. /\ got \in [Proc -> Seq(Char)] /\ n \in [Proc -> Nat] /\ target \in [Proc -> Nat]
        /\ pc \in [Proc -> PCs]
        /\ \A q \in Proc : pc[q] # "user" => Len(got[q]) + n[q] = target[q] /\ ~T!LineDone(got[q])
    BY ZenonT(30) DEF GotOK, ReadInv, IInv, TypeOK
  <2>2. got' \in [Proc -> Seq(Char)]
    BY ONLY SMTT(60), <1>1, <1>4, <2>1
  <2>3. ASSUME NEW q \in Proc, pc'[q] # "user"
        PROVE  Len(got'[q]) + n'[q] = target'[q] /\ ~T!LineDone(got'[q])
    <3>1. CASE q = p
      BY ONLY SMTT(60), <1>1, <1>4, <2>1, <3>1, p \in Proc
    <3>2. CASE q # p
      BY ONLY ZenonT(30), <1>1, <2>1, <2>3, <3>2, p \in Proc, q \in Proc
    <3> QED
      BY SMTT(60), <3>1, <3>2
  <2> QED
    BY ZenonT(30), <2>2, <2>3 DEF GotOK
<1> QED
  BY ZenonT(30), <1>1, <1>2, <1>3, <1>5

(* At start nothing is typed and nothing is delivered.                     *)
LEMMA ReadInvInit == Init => ReadInv
<1> SUFFICES ASSUME Init PROVE ReadInv
  BY ZenonT(30)
<1>1. IInv
  BY ZenonT(30), InitIInv
<1>2. Edit = <<>>
  BY SMTT(60), <1>1, RingFacts, WinEmpty DEF Init, Edit
<1>3. GotOK
  BY DEF Init, GotOK
<1> QED
  BY <1>1, <1>2, <1>3 DEF ReadInv, LineOK

(* Every step keeps the line discipline's invariant.                       *)
LEMMA ReadInvStep == ReadInv /\ [Next]_vars => ReadInv'
<1> SUFFICES ASSUME ReadInv, [Next]_vars PROVE LineOK' /\ GotOK'
  BY ZenonT(30), StepIInv DEF ReadInv
<1>1. ASSUME NEW c \in Key, consoleintr(c) PROVE LineOK' /\ GotOK'
  <2>1. UNCHANGED <<n, target, got>> /\ \A p \in Proc : pc'[p] # "user" => pc[p] # "user"
    BY ZenonT(30), <1>1 DEF consoleintr, KillLine, Backspace, Store, WakeAll, ReadInv, IInv, TypeOK
  <2> QED
    BY ZenonT(30), <1>1, <2>1, KeyLine DEF ReadInv, GotOK
<1>2. ASSUME NEW p \in Proc, NEW k \in Counts, ReadCall(p, k) PROVE LineOK' /\ GotOK'
  BY ZenonT(30), <1>2, CallStarts
<1>3. ASSUME NEW p \in Proc, ReadStep(p) PROVE LineOK' /\ GotOK'
  BY ZenonT(30), <1>3, ReadQuiet
<1>4. ASSUME NEW p \in Proc, ReadChar(p) PROVE LineOK' /\ GotOK'
  BY ZenonT(30), <1>4, ReadGot, ReadTakes DEF ReadInv, LineOK
<1>5. CASE UNCHANGED vars
  <2>1. UNCHANGED <<buf, r, w, e, n, target, got, pc>>
    BY ZenonT(30), <1>5 DEF vars, ring
  <2>2. Edit' = Edit
    BY ZenonT(30), <2>1, WindowIs DEF Edit
  <2> QED
    BY ZenonT(30), <2>1, <2>2 DEF ReadInv, LineOK, GotOK
<1> QED
  BY ZenonT(30), <1>1, <1>2, <1>3, <1>4, <1>5 DEF Next, ReadStep

(* Every step of the console is a step of the line discipline, or changes  *)
(* nothing it shows.                                                       *)
LEMMA TtyStep == ReadInv /\ [Next]_vars => [T!Next]_<<Window(r, w), Window(w, e), got>>
<1> SUFFICES ASSUME ReadInv, [Next]_vars
             PROVE  [T!Next]_<<Window(r, w), Window(w, e), got>>
  BY ZenonT(30)
<1>1. /\ Window(r, w) = Queue /\ Window(w, e) = Edit
      /\ Window(r, w)' = Queue' /\ Window(w, e)' = Edit'
  BY ZenonT(30), WindowIs DEF Queue, Edit
<1>2. ASSUME UNCHANGED <<Queue, Edit, got>>
      PROVE  UNCHANGED <<Window(r, w), Window(w, e), got>>
  BY ZenonT(30), <1>1, <1>2
<1>3. ASSUME NEW c \in Key, consoleintr(c)
      PROVE  [T!Next]_<<Window(r, w), Window(w, e), got>>
  <2>1. got' = got
    BY ZenonT(30), <1>3, KeyTypes DEF ReadInv
  <2>2. ASSUME NEW d \in Char, Len(Queue) + Len(Edit) < BUF,
               IF d \in {"nl", "eof"} \/ Len(Queue) + Len(Edit) + 1 = BUF
               THEN Queue' = Queue \o Edit \o <<d>> /\ Edit' = <<>>
               ELSE Edit' = Append(Edit, d) /\ Queue' = Queue
        PROVE  T!Next
    <3>1. T!Type(d)
      BY ZenonT(30), <1>1, <2>1, <2>2 DEF T!Type
    <3> QED
      BY ZenonT(30), <3>1 DEF T!Next
  <2>3. ASSUME Edit # <<>>, Edit' \in {<<>>, SubSeq(Edit, 1, Len(Edit) - 1)}, Queue' = Queue
        PROVE  T!Next
    BY ZenonT(30), <1>1, <2>1, <2>3 DEF T!Next, T!Erase
  <2> QED
    BY ZenonT(30), <1>2, <1>3, <2>2, <2>3, KeyTypes DEF ReadInv
<1>4. ASSUME NEW p \in Proc, NEW k \in Counts, ReadCall(p, k) PROVE T!Next
  <2>1. T!Start(p)
    BY ZenonT(30), <1>1, <1>4, CallStarts DEF T!Start
  <2> QED
    BY ZenonT(30), <2>1 DEF T!Next
<1>5. ASSUME NEW p \in Proc, ReadStep(p) PROVE UNCHANGED <<Queue, Edit, got>>
  BY ZenonT(30), <1>5, ReadQuiet
<1>6. ASSUME NEW p \in Proc, ReadChar(p)
      PROVE  T!Next \/ UNCHANGED <<Queue, Edit, got>>
  <2>1. Queue # <<>> /\ Edit' = Edit
    BY ZenonT(30), <1>6, ReadTakes DEF ReadInv
  <2>2. CASE /\ Head(Queue) # "eof" /\ ~T!LineDone(got[p]) /\ Queue' = Tail(Queue)
             /\ got' = [got EXCEPT ![p] = Append(@, Head(Queue))]
    <3>1. T!Take(p)
      BY ZenonT(30), <1>1, <2>1, <2>2 DEF T!Take
    <3> QED
      BY ZenonT(30), <3>1 DEF T!Next
  <2>3. CASE Head(Queue) = "eof" /\ got[p] = <<>> /\ Queue' = Tail(Queue) /\ got' = got
    <3>1. T!Eof(p)
      BY ZenonT(30), <1>1, <2>1, <2>3 DEF T!Eof
    <3> QED
      BY ZenonT(30), <3>1 DEF T!Next
  <2> QED
    BY ZenonT(30), <1>6, <2>1, <2>2, <2>3, ReadGot DEF ReadInv
<1>7. CASE UNCHANGED vars
  BY ZenonT(30), <1>2, <1>7, WindowIs DEF vars, ring, Queue, Edit
<1> QED
  BY ZenonT(30), <1>2, <1>3, <1>4, <1>5, <1>6, <1>7 DEF Next, ReadStep

(* The ring of console.c, with its wrapping indices, its editing keys and  *)
(* its sleeping readers, is a line discipline: keys edit the last line     *)
(* only, finished lines are never changed, lost or overwritten, characters *)
(* are delivered once and in order, at most a line per call, and an end of *)
(* file ends a call that has nothing else.                                 *)
THEOREM ConsoleIsTty == Spec => ImplementsTty
<1>1. Init => T!Init
  <2> SUFFICES ASSUME Init PROVE Window(r, w) = <<>> /\ Window(w, e) = <<>>
    BY ZenonT(30) DEF T!Init, Init
  <2>1. r = w /\ w = e /\ buf \in Buffer /\ r \in Idx
    BY ZenonT(30), InitIInv, RingFacts DEF Init
  <2> QED
    BY ZenonT(30), <2>1, WindowIs, WinEmpty
<1> QED
  BY <1>1, TtyStep, ReadInvInit, ReadInvStep, PTL DEF Spec, ImplementsTty, T!Spec
=============================================================================
