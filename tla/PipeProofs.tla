----------------------------- MODULE PipeProofs -----------------------------
(***************************************************************************)
(* A pipe is a bounded queue, is freed once nobody can use it, reports the *)
(* end of file truthfully and loses no wakeup, for every set of processes, *)
(* capacity, width of the counters and number of bytes per call.           *)
(***************************************************************************)
EXTENDS Pipe, SequenceTheorems, TLAPS

Uint == 0..(W - 1)
Labels == Inside \cup {"idle", "read", "write", "closer", "closew", "free"}
Span(r, w) == (w + W - r) % W
Count == Span(nread, nwrite)

TypeOK ==
  /\ data \in [0..PIPESIZE - 1 -> Byte \cup {NoByte}]
  /\ nread \in Uint /\ nwrite \in Uint
  /\ readopen \in BOOLEAN /\ writeopen \in BOOLEAN /\ freed \in BOOLEAN
  /\ lock \in Proc \cup {None}
  /\ ends \in [Proc -> SUBSET {"r", "w"}]
  /\ killed \in [Proc -> BOOLEAN]
  /\ pc \in [Proc -> Labels]
  /\ left \in [Proc -> Nat]
  /\ asleep \in [Proc -> {None, "nread", "nwrite"}]

(* The process between acquire() and release() is the lock's holder.       *)
LockOK == \A p \in Proc : pc[p] \in Inside <=> lock = p

(* A process sleeps in the call whose channel it sleeps on.                *)
SleepersOK ==
  \A p \in Proc : /\ asleep[p] = "nread" => pc[p] = "read"
                  /\ asleep[p] = "nwrite" => pc[p] = "write"

RingOK == Count <= PIPESIZE

ClosingR(p) == pc[p] \in {"closer", "closing_r"}
ClosingW(p) == pc[p] \in {"closew", "closing_w"}

(* Who is in a call holds the end that it is about, an end is open while a *)
(* descriptor is, and the last descriptor's holder alone closes it.        *)
ReadEndOK ==
  \A p \in Proc :
    /\ Reading(p) => "r" \in ends[p]
    /\ "r" \in ends[p] => readopen
    /\ ClosingR(p) => /\ readopen
                      /\ \A q \in Proc : "r" \notin ends[q] /\ (ClosingR(q) => q = p)
WriteEndOK ==
  \A p \in Proc :
    /\ Writing(p) => "w" \in ends[p]
    /\ "w" \in ends[p] => writeopen /\ p \in Writers
    /\ ClosingW(p) => /\ writeopen
                      /\ \A q \in Proc : "w" \notin ends[q] /\ (ClosingW(q) => q = p)

(* One process frees the pipe, once, when both ends are closed.            *)
FreeOK ==
  /\ freed => ~readopen /\ ~writeopen
  /\ \A p \in Proc : pc[p] = "free" =>
       /\ ~readopen /\ ~writeopen /\ ~freed
       /\ \A q \in Proc : pc[q] = "free" => q = p

(* What the sleepers wait for has not happened, unless the process that    *)
(* makes it happen still has the lock and the wakeup before it.            *)
WaitOK ==
  \A p \in Proc :
    /\ pc[p] = "wsleep" => Full /\ readopen
    /\ pc[p] = "rsleep" => Empty /\ writeopen
    /\ asleep[p] = "nwrite" => /\ readopen
                               /\ Full \/ \E q \in Proc : pc[q] = "rcopy"
    /\ asleep[p] = "nread" => /\ writeopen
                              /\ \/ Empty
                                 \/ \E q \in Proc : pc[q] = "wtest"
                                 \/ \E q \in Writers : killed[q]

IInv == /\ TypeOK /\ LockOK /\ SleepersOK /\ RingOK /\ ReadEndOK /\ WriteEndOK
        /\ FreeOK /\ WaitOK
-----------------------------------------------------------------------------
(* A quotient and a remainder determine each other.                        *)
LEMMA ModUnique ==
  ASSUME NEW d \in Nat \ {0}, NEW a \in Nat, NEW r \in 0..(d - 1)
  PROVE  (a * d + r) % d = r
<1> DEFINE x == a * d + r
           b == x \div d
           s == x % d
<1>1. x \in Nat
  OBVIOUS
<1>2. b \in Nat /\ s \in 0..(d - 1) /\ x = b * d + s
  BY <1>1
<1> HIDE DEF b, s
<1>3. CASE a < b
  <2>1. PICK k \in Nat : b = a + 1 + k
    BY <1>2, <1>3
  <2>2. b * d = a * d + d + k * d /\ k * d \in Nat
    BY <2>1
  <2> QED
    BY <1>2, <2>2
<1>4. CASE b < a
  <2>1. PICK k \in Nat : a = b + 1 + k
    BY <1>2, <1>4
  <2>2. a * d = b * d + d + k * d /\ k * d \in Nat
    BY <2>1, <1>2
  <2> QED
    BY <1>2, <2>2
<1> QED
  BY <1>2, <1>3, <1>4 DEF s

(* Places in data[] do not notice that a counter wraps: W is a multiple of *)
(* PIPESIZE.                                                               *)
LEMMA WrapKeepsPlace ==
  ASSUME NEW k \in Nat
  PROVE  (k + W) % PIPESIZE = k % PIPESIZE
<1> USE PipeAssumption
<1> DEFINE m == W \div PIPESIZE
           q == k \div PIPESIZE
           r == k % PIPESIZE
<1>1. m \in Nat /\ W = m * PIPESIZE
  OBVIOUS
<1>2. q \in Nat /\ r \in 0..(PIPESIZE - 1) /\ k = q * PIPESIZE + r
  OBVIOUS
<1> HIDE DEF m, q, r
<1>3. k + W = (q + m) * PIPESIZE + r
  BY <1>1, <1>2
<1>4. q + m \in Nat
  BY <1>1, <1>2
<1>5. ((q + m) * PIPESIZE + r) % PIPESIZE = r
  BY ZenonT(30), <1>2, <1>4, ModUnique
<1> QED
  BY ZenonT(30), <1>3, <1>5 DEF r

(* Places less than PIPESIZE apart are different.                          *)
LEMMA PlacesDiffer ==
  ASSUME NEW x \in Nat, NEW y \in Nat, x < y, y - x < PIPESIZE
  PROVE  x % PIPESIZE # y % PIPESIZE
<1> USE PipeAssumption
<1> DEFINE a == x \div PIPESIZE
           b == y \div PIPESIZE
           r == x % PIPESIZE
<1> SUFFICES ASSUME y % PIPESIZE = r PROVE FALSE
  BY ZenonT(30)
<1>1. a \in Nat /\ r \in Nat /\ x = a * PIPESIZE + r
  OBVIOUS
<1>2. b \in Nat /\ y = b * PIPESIZE + r
  OBVIOUS
<1> HIDE DEF a, b, r
<1>3. CASE a < b
  <2>1. PICK k \in Nat : b = a + 1 + k
    BY <1>1, <1>2, <1>3
  <2>2. b * PIPESIZE = a * PIPESIZE + PIPESIZE + k * PIPESIZE /\ k * PIPESIZE \in Nat
    BY <2>1, <1>1
  <2> QED
    BY <1>1, <1>2, <2>2
<1>4. CASE b <= a
  <2>1. PICK k \in Nat : a = b + k
    BY <1>1, <1>2, <1>4
  <2>2. a * PIPESIZE = b * PIPESIZE + k * PIPESIZE /\ k * PIPESIZE \in Nat
    BY <2>1, <1>2
  <2> QED
    BY <1>1, <1>2, <2>2
<1> QED
  BY <1>1, <1>2, <1>3, <1>4

(* Counters modulo W.                                                      *)
LEMMA UintMod ==
  ASSUME NEW x \in 0..(2 * W - 1)
  PROVE  x % W = IF x >= W THEN x - W ELSE x
BY PipeAssumption

LEMMA SpanIs ==
  ASSUME NEW r \in Uint, NEW w \in Uint
  PROVE  /\ Span(r, w) = IF w >= r THEN w - r ELSE w + W - r
         /\ Span(r, w) \in Nat
         /\ r = w <=> Span(r, w) = 0
         /\ w = (r + PIPESIZE) % W <=> Span(r, w) = PIPESIZE
<1> USE PipeAssumption
<1>1. Span(r, w) = IF w >= r THEN w - r ELSE w + W - r
  BY SMTT(60), UintMod DEF Uint, Span
<1>2. (r + PIPESIZE) % W = IF r + PIPESIZE >= W THEN r + PIPESIZE - W ELSE r + PIPESIZE
  BY SMTT(60), UintMod DEF Uint
<1> QED
  BY <1>1, <1>2 DEF Uint

LEMMA NextUint ==
  ASSUME NEW x \in Uint
  PROVE  /\ (x + 1) % W \in Uint
         /\ (x + 1) % W = IF x = W - 1 THEN 0 ELSE x + 1
BY SMTT(60), UintMod, PipeAssumption DEF Uint
(* A byte stored and a byte taken.                                         *)
LEMMA SpanPut ==
  ASSUME NEW r \in Uint, NEW w \in Uint, Span(r, w) < PIPESIZE
  PROVE  Span(r, (w + 1) % W) = Span(r, w) + 1
<1> DEFINE v == (w + 1) % W
<1>1. v \in Uint /\ v = IF w = W - 1 THEN 0 ELSE w + 1
  BY ZenonT(30), NextUint
<1> HIDE DEF v
<1>2. Span(r, v) = IF v >= r THEN v - r ELSE v + W - r
  BY ZenonT(30), <1>1, SpanIs
<1>3. Span(r, w) = IF w >= r THEN w - r ELSE w + W - r
  BY ZenonT(30), SpanIs
<1>4. PIPESIZE \in Nat /\ W \in Nat /\ PIPESIZE < W
  BY ZenonT(30), PipeAssumption
<1>5. Span(r, v) = Span(r, w) + 1
  BY <1>1, <1>2, <1>3, <1>4 DEF Uint
<1> QED
  BY ZenonT(30), <1>5 DEF v

LEMMA SpanGet ==
  ASSUME NEW r \in Uint, NEW w \in Uint, r # w
  PROVE  Span((r + 1) % W, w) = Span(r, w) - 1
<1> DEFINE v == (r + 1) % W
<1>1. v \in Uint /\ v = IF r = W - 1 THEN 0 ELSE r + 1
  BY ZenonT(30), NextUint
<1> HIDE DEF v
<1>2. Span(v, w) = IF w >= v THEN w - v ELSE w + W - v
  BY ZenonT(30), <1>1, SpanIs
<1>3. Span(r, w) = IF w >= r THEN w - r ELSE w + W - r
  BY ZenonT(30), SpanIs
<1>4. PIPESIZE \in Nat /\ W \in Nat /\ PIPESIZE < W
  BY ZenonT(30), PipeAssumption
<1>5. Span(v, w) = Span(r, w) - 1
  BY <1>1, <1>2, <1>3, <1>4 DEF Uint
<1> QED
  BY ZenonT(30), <1>5 DEF v

LEMMA PipeNats ==
  /\ PIPESIZE \in Nat \ {0} /\ W \in Nat /\ PIPESIZE < W /\ MaxN \in Nat
  /\ None \notin Proc /\ 0 \in Uint
BY PipeAssumption DEF Uint
-----------------------------------------------------------------------------
LEMMA InitIInv == Init => IInv
<1> SUFFICES ASSUME Init PROVE IInv
  BY ZenonT(30)
<1> USE PipeNats DEF Init
<1>1. TypeOK
  <2>1. ends \in [Proc -> SUBSET {"r", "w"}]
    BY ZenonT(30)
  <2>2. data \in [0..PIPESIZE - 1 -> Byte \cup {NoByte}]
    BY ZenonT(30)
  <2> QED
    BY ZenonT(30), <2>1, <2>2 DEF TypeOK, Labels
<1>2. RingOK
  BY SpanIs DEF RingOK, Count
<1>3. LockOK /\ SleepersOK
  BY ZenonT(30) DEF LockOK, SleepersOK, Inside, None
<1>4. ReadEndOK /\ WriteEndOK /\ FreeOK /\ WaitOK
  BY ZenonT(30) DEF ReadEndOK, WriteEndOK, FreeOK, WaitOK, Reading, Writing, ClosingR, ClosingW, None
<1> QED
  BY ZenonT(30), <1>1, <1>2, <1>3, <1>4 DEF IInv

LEMMA WakeupType ==
  ASSUME TypeOK, NEW ch
  PROVE  Wakeup(ch) \in [Proc -> {None, "nread", "nwrite"}]
BY ZenonT(30) DEF TypeOK, Wakeup

LEMMA TypeStep == TypeOK /\ [Next]_vars => TypeOK'
<1> SUFFICES ASSUME TypeOK, [Next]_vars PROVE TypeOK'
  BY ZenonT(30)
<1> USE PipeNats DEF pipe
<1>1. ASSUME NEW p \in Proc, NEW l \in Labels, Goto(p, l) PROVE pc' \in [Proc -> Labels]
  BY ZenonT(30), <1>1 DEF TypeOK, Goto
<1>2. ASSUME NEW p \in Proc, Return(p)
      PROVE  /\ pc' \in [Proc -> Labels] /\ left' \in [Proc -> Nat]
             /\ lock' \in Proc \cup {None}
  BY ZenonT(30), <1>2, <1>1 DEF TypeOK, Return, Labels
<1>3. ASSUME NEW p \in Proc, Acquire(p) PROVE TypeOK'
  BY ZenonT(30), <1>1, <1>3 DEF Acquire, TypeOK, Labels, Inside
<1>4. ASSUME NEW p \in Proc, WriteTurn(p) PROVE TypeOK'
  <2>1. left[p] > 0 => left[p] - 1 \in Nat
    BY DEF TypeOK
  <2>2. pc' \in [Proc -> Labels] /\ left' \in [Proc -> Nat] /\ lock' \in Proc \cup {None}
    BY SMTT(60), <1>1, <1>2, <1>4, <2>1 DEF WriteTurn, TypeOK, Labels, Inside
  <2>3. asleep' \in [Proc -> {None, "nread", "nwrite"}]
    BY <1>4, WakeupType DEF WriteTurn, TypeOK
  <2>4. data' \in [0..PIPESIZE - 1 -> Byte \cup {NoByte}]
    BY ZenonT(30), <1>4 DEF WriteTurn, TypeOK
  <2>5. nwrite' \in Uint
    BY ZenonT(30), <1>4, NextUint DEF WriteTurn, TypeOK
  <2> QED
    BY ZenonT(30), <1>4, <2>2, <2>3, <2>4, <2>5 DEF WriteTurn, TypeOK
<1>5. ASSUME NEW p \in Proc, ReadTest(p) PROVE TypeOK'
  BY ZenonT(30), <1>1, <1>2, <1>5 DEF ReadTest, TypeOK, Labels, Inside
<1>6. ASSUME NEW p \in Proc, ReadTurn(p) PROVE TypeOK'
  <2>1. left[p] > 0 => left[p] - 1 \in Nat
    BY DEF TypeOK
  <2>2. pc' \in [Proc -> Labels] /\ left' \in [Proc -> Nat] /\ lock' \in Proc \cup {None}
    BY SMTT(60), <1>2, <1>6, <2>1 DEF ReadTurn, TypeOK
  <2>3. asleep' \in [Proc -> {None, "nread", "nwrite"}] /\ nread' \in Uint
    BY <1>6, WakeupType, NextUint DEF ReadTurn, TypeOK
  <2> QED
    BY ZenonT(30), <1>6, <2>2, <2>3 DEF ReadTurn, TypeOK
<1>7. ASSUME NEW p \in Proc, Sleep(p) PROVE TypeOK'
  <2>1. pc' \in [Proc -> Labels]
    BY ZenonT(30), <1>1, <1>7 DEF Sleep, Labels
  <2>2. asleep' \in [Proc -> {None, "nread", "nwrite"}]
    BY ZenonT(30), <1>7 DEF Sleep, TypeOK
  <2> QED
    BY ZenonT(30), <1>7, <2>1, <2>2 DEF Sleep, TypeOK
<1>8. ASSUME NEW p \in Proc, Pipeclose(p) PROVE TypeOK'
  <2>1. pc' \in [Proc -> Labels]
    BY ZenonT(30), <1>1, <1>8 DEF Pipeclose, Labels
  <2>2. asleep' \in [Proc -> {None, "nread", "nwrite"}]
    BY ZenonT(30), <1>8, WakeupType DEF Pipeclose
  <2> QED
    BY ZenonT(30), <1>8, <2>1, <2>2 DEF Pipeclose, TypeOK
<1>9. ASSUME NEW p \in Proc, Kfree(p) PROVE TypeOK'
  BY ZenonT(30), <1>1, <1>9 DEF Kfree, TypeOK, Labels
<1>10. ASSUME NEW p \in Proc, Call(p) PROVE TypeOK'
  <2>1. left' \in [Proc -> Nat]
    BY <1>10 DEF Call, TypeOK
  <2>2. pc' \in [Proc -> Labels]
    BY ZenonT(30), <1>1, <1>10 DEF Call, Labels
  <2> QED
    BY ZenonT(30), <1>10, <2>1, <2>2 DEF Call, TypeOK
<1>11. ASSUME NEW p \in Proc, Kill(p) PROVE TypeOK'
  BY ZenonT(30), <1>11 DEF Kill, TypeOK
<1>12. ASSUME NEW p \in Proc, NEW e \in {"r", "w"}, Fileclose(p, e) PROVE TypeOK'
  <2>1. pc' \in [Proc -> Labels]
    BY ZenonT(30), <1>1, <1>12 DEF Fileclose, Labels, TypeOK
  <2> QED
    BY ZenonT(30), <1>12, <2>1 DEF Fileclose, TypeOK
<1>13. CASE UNCHANGED vars
  BY ZenonT(30), <1>13 DEF vars, TypeOK
<1> QED
  BY ZenonT(30), <1>3, <1>4, <1>5, <1>6, <1>7, <1>8, <1>9, <1>10, <1>11, <1>12, <1>13
     DEF Next, Step, Done

LEMMA LockStep == TypeOK /\ LockOK /\ SleepersOK /\ [Next]_vars => (LockOK /\ SleepersOK)'
<1> SUFFICES ASSUME TypeOK /\ LockOK /\ SleepersOK, [Next]_vars PROVE (LockOK /\ SleepersOK)'
  BY ZenonT(30)
<1> USE PipeNats DEF TypeOK, LockOK, SleepersOK, Inside, pipe, At, Goto, Return, Wakeup, None
<1>1. ASSUME NEW p \in Proc, Acquire(p) PROVE (LockOK /\ SleepersOK)'
  BY SMTT(60), <1>1 DEF Acquire
<1>2. ASSUME NEW p \in Proc, WriteTurn(p) PROVE (LockOK /\ SleepersOK)'
  BY <1>2 DEF WriteTurn
<1>3. ASSUME NEW p \in Proc, ReadTest(p) PROVE (LockOK /\ SleepersOK)'
  BY <1>3 DEF ReadTest
<1>4. ASSUME NEW p \in Proc, ReadTurn(p) PROVE (LockOK /\ SleepersOK)'
  <2>1. LockOK'
    <3>1. CASE UNCHANGED <<pc, lock>>
      BY ZenonT(30), <3>1
    <3>2. CASE Return(p)
      <4>1. lock = p BY ZenonT(30), <1>4 DEF ReadTurn
      <4>2. lock' = None /\ pc' = [pc EXCEPT ![p] = "idle"] BY ZenonT(30), <3>2
      <4> QED BY ZenonT(30), <4>1, <4>2
    <3> QED BY ZenonT(30), <1>4, <3>1, <3>2 DEF ReadTurn
  <2>2. SleepersOK'
    BY <1>4 DEF ReadTurn
  <2> QED
    BY ZenonT(30), <2>1, <2>2
<1>5. ASSUME NEW p \in Proc, Sleep(p) PROVE (LockOK /\ SleepersOK)'
  <2>0. /\ lock = p /\ lock' = None
        /\ \A q \in Proc : q # p => pc'[q] = pc[q] /\ asleep'[q] = asleep[q]
        /\ \/ pc'[p] = "write" /\ asleep'[p] = "nwrite"
           \/ pc'[p] = "read" /\ asleep'[p] = "nread"
    BY ZenonT(30), <1>5 DEF Sleep
  <2>1. LockOK'
    BY ONLY ZenonT(30), <2>0, LockOK, PipeNats DEF LockOK, Inside, None
  <2>2. SleepersOK'
    BY ONLY ZenonT(30), <2>0, SleepersOK DEF SleepersOK
  <2> QED
    BY <2>1, <2>2
<1>6. ASSUME NEW p \in Proc, Pipeclose(p) PROVE (LockOK /\ SleepersOK)'
  <2>1. LockOK'
    BY SMTT(60), <1>6 DEF Pipeclose
  <2>2. SleepersOK'
    BY <1>6, SMTT(60) DEF Pipeclose
  <2> QED
    BY <2>1, <2>2
<1>7. ASSUME NEW p \in Proc, Kfree(p) PROVE (LockOK /\ SleepersOK)'
  BY ZenonT(30), <1>7 DEF Kfree
<1>8. ASSUME NEW p \in Proc, Call(p) PROVE (LockOK /\ SleepersOK)'
  BY <1>8 DEF Call
<1>9. ASSUME NEW p \in Proc, Kill(p) PROVE (LockOK /\ SleepersOK)'
  BY <1>9 DEF Kill
<1>10. ASSUME NEW p \in Proc, NEW e \in {"r", "w"}, Fileclose(p, e) PROVE (LockOK /\ SleepersOK)'
  BY SMTT(60), <1>10 DEF Fileclose
<1>11. CASE UNCHANGED vars
  BY ZenonT(30), <1>11 DEF vars
<1> QED
  <2>1. [Next]_vars BY ZenonT(30)
  <2> QED BY ONLY ZenonT(30), <2>1, <1>1, <1>2, <1>3, <1>4, <1>5, <1>6, <1>7, <1>8, <1>9, <1>10, <1>11
          DEF Next, Step, Done

LEMMA ReadEndStep == TypeOK /\ ReadEndOK /\ [Next]_vars => ReadEndOK'
<1> SUFFICES ASSUME TypeOK /\ ReadEndOK, [Next]_vars PROVE ReadEndOK'
  BY ZenonT(30)
<1> USE PipeNats DEF TypeOK, ReadEndOK, Reading, ClosingR, pipe, At, Goto, Return
<1>1. ASSUME NEW p \in Proc, Acquire(p) PROVE ReadEndOK'
  BY <1>1 DEF Acquire
<1>2. ASSUME NEW p \in Proc, WriteTurn(p) PROVE ReadEndOK'
  <2>1. \A q \in Proc : pc'[q] = pc[q] \/ pc'[q] \in {"idle", "wsleep"}
    BY <1>2 DEF WriteTurn
  <2>2. UNCHANGED <<readopen, ends>>
    BY ZenonT(30), <1>2 DEF WriteTurn
  <2> QED
    BY ZenonT(30), <2>1, <2>2
<1>3. ASSUME NEW p \in Proc, ReadTest(p) PROVE ReadEndOK'
  <2>1. \A q \in Proc : (Reading(q)' => Reading(q)) /\ (ClosingR(q)' => ClosingR(q))
    BY <1>3 DEF ReadTest
  <2>2. UNCHANGED <<readopen, ends>>
    BY ZenonT(30), <1>3 DEF ReadTest
  <2> QED
    BY ONLY ZenonT(30), <2>1, <2>2, ReadEndOK DEF ReadEndOK
<1>4. ASSUME NEW p \in Proc, ReadTurn(p) PROVE ReadEndOK'
  BY <1>4 DEF ReadTurn
<1>5. ASSUME NEW p \in Proc, Sleep(p) PROVE ReadEndOK'
  BY SMTT(60), <1>5 DEF Sleep
<1>6. ASSUME NEW p \in Proc, Pipeclose(p) PROVE ReadEndOK'
  BY <1>6 DEF Pipeclose
<1>7. ASSUME NEW p \in Proc, Kfree(p) PROVE ReadEndOK'
  BY <1>7 DEF Kfree
<1>8. ASSUME NEW p \in Proc, Call(p) PROVE ReadEndOK'
  BY <1>8 DEF Call
<1>9. ASSUME NEW p \in Proc, Kill(p) PROVE ReadEndOK'
  BY ZenonT(30), <1>9 DEF Kill
<1>10. ASSUME NEW p \in Proc, NEW e \in {"r", "w"}, Fileclose(p, e) PROVE ReadEndOK'
  BY <1>10 DEF Fileclose
<1>11. CASE UNCHANGED vars
  BY ZenonT(30), <1>11 DEF vars
<1> QED
  <2>1. [Next]_vars BY ZenonT(30)
  <2> QED BY ONLY ZenonT(30), <2>1, <1>1, <1>2, <1>3, <1>4, <1>5, <1>6, <1>7, <1>8, <1>9, <1>10, <1>11
          DEF Next, Step, Done

LEMMA WriteEndStep == TypeOK /\ WriteEndOK /\ [Next]_vars => WriteEndOK'
<1> SUFFICES ASSUME TypeOK /\ WriteEndOK, [Next]_vars PROVE WriteEndOK'
  BY ZenonT(30)
<1> USE PipeNats DEF TypeOK, WriteEndOK, Writing, ClosingW, pipe, At, Goto, Return
<1>1. ASSUME NEW p \in Proc, Acquire(p) PROVE WriteEndOK'
  BY SMTT(60), <1>1 DEF Acquire
<1>2. ASSUME NEW p \in Proc, WriteTurn(p) PROVE WriteEndOK'
  BY SMTT(60), <1>2 DEF WriteTurn
<1>3. ASSUME NEW p \in Proc, ReadTest(p) PROVE WriteEndOK'
  BY <1>3 DEF ReadTest
<1>4. ASSUME NEW p \in Proc, ReadTurn(p) PROVE WriteEndOK'
  BY <1>4 DEF ReadTurn
<1>5. ASSUME NEW p \in Proc, Sleep(p) PROVE WriteEndOK'
  BY SMTT(60), <1>5 DEF Sleep
<1>6. ASSUME NEW p \in Proc, Pipeclose(p) PROVE WriteEndOK'
  BY <1>6 DEF Pipeclose
<1>7. ASSUME NEW p \in Proc, Kfree(p) PROVE WriteEndOK'
  BY <1>7 DEF Kfree
<1>8. ASSUME NEW p \in Proc, Call(p) PROVE WriteEndOK'
  BY <1>8 DEF Call
<1>9. ASSUME NEW p \in Proc, Kill(p) PROVE WriteEndOK'
  BY ZenonT(30), <1>9 DEF Kill
<1>10. ASSUME NEW p \in Proc, NEW e \in {"r", "w"}, Fileclose(p, e) PROVE WriteEndOK'
  BY <1>10 DEF Fileclose
<1>11. CASE UNCHANGED vars
  BY ZenonT(30), <1>11 DEF vars
<1> QED
  <2>1. [Next]_vars BY ZenonT(30)
  <2> QED BY ONLY ZenonT(30), <2>1, <1>1, <1>2, <1>3, <1>4, <1>5, <1>6, <1>7, <1>8, <1>9, <1>10, <1>11
          DEF Next, Step, Done

LEMMA FreeStep == TypeOK /\ ReadEndOK /\ WriteEndOK /\ FreeOK /\ [Next]_vars => FreeOK'
<1> SUFFICES ASSUME TypeOK /\ ReadEndOK /\ WriteEndOK /\ FreeOK, [Next]_vars PROVE FreeOK'
  BY ZenonT(30)
<1> USE PipeNats DEF TypeOK, ReadEndOK, WriteEndOK, ClosingR, ClosingW, FreeOK, pipe, At, Goto, Return
<1>1. ASSUME NEW p \in Proc, Acquire(p) PROVE FreeOK'
  BY SMTT(60), <1>1 DEF Acquire
<1>2. ASSUME NEW p \in Proc, WriteTurn(p) PROVE FreeOK'
  BY SMTT(60), <1>2 DEF WriteTurn
<1>3. ASSUME NEW p \in Proc, ReadTest(p) PROVE FreeOK'
  BY SMTT(60), <1>3 DEF ReadTest
<1>4. ASSUME NEW p \in Proc, ReadTurn(p) PROVE FreeOK'
  BY <1>4 DEF ReadTurn
<1>5. ASSUME NEW p \in Proc, Sleep(p) PROVE FreeOK'
  <2>1. \A q \in Proc : pc'[q] = pc[q] \/ pc'[q] \in {"read", "write"}
    BY <1>5 DEF Sleep
  <2>2. UNCHANGED <<readopen, writeopen, freed>>
    BY ZenonT(30), <1>5 DEF Sleep
  <2> QED
    BY ONLY ZenonT(30), <2>1, <2>2, FreeOK DEF FreeOK
<1>6. ASSUME NEW p \in Proc, Pipeclose(p) PROVE FreeOK'
  BY <1>6 DEF Pipeclose
<1>7. ASSUME NEW p \in Proc, Kfree(p) PROVE FreeOK'
  BY ZenonT(30), <1>7 DEF Kfree
<1>8. ASSUME NEW p \in Proc, Call(p) PROVE FreeOK'
  BY <1>8 DEF Call
<1>9. ASSUME NEW p \in Proc, Kill(p) PROVE FreeOK'
  BY ZenonT(30), <1>9 DEF Kill
<1>10. ASSUME NEW p \in Proc, NEW e \in {"r", "w"}, Fileclose(p, e) PROVE FreeOK'
  BY <1>10 DEF Fileclose
<1>11. CASE UNCHANGED vars
  BY ZenonT(30), <1>11 DEF vars
<1> QED
  <2>1. [Next]_vars BY ZenonT(30)
  <2> QED BY ONLY ZenonT(30), <2>1, <1>1, <1>2, <1>3, <1>4, <1>5, <1>6, <1>7, <1>8, <1>9, <1>10, <1>11
          DEF Next, Step, Done

LEMMA RingStep == TypeOK /\ RingOK /\ [Next]_vars => RingOK'
<1> SUFFICES ASSUME TypeOK, RingOK, [Next]_vars PROVE RingOK'
  BY ZenonT(30)
<1> USE PipeNats DEF RingOK, Count
<1>1. ASSUME NEW p \in Proc, WriteTurn(p) PROVE RingOK'
  <2>1. CASE UNCHANGED <<nread, nwrite>>
    BY ZenonT(30), <2>1
  <2>2. CASE ~Full /\ nwrite' = (nwrite + 1) % W /\ nread' = nread
    <3>1. Count < PIPESIZE
      BY <2>2, SpanIs, SMTT(60) DEF Full, TypeOK
    <3> QED
      BY SMTT(60), <2>2, <3>1, SpanPut, SpanIs DEF TypeOK
  <2> QED
    BY ZenonT(30), <1>1, <2>1, <2>2 DEF WriteTurn, pipe
<1>2. ASSUME NEW p \in Proc, ReadTurn(p) PROVE RingOK'
  <2>1. CASE UNCHANGED <<nread, nwrite>>
    BY <2>1
  <2>2. CASE ~Empty /\ nread' = (nread + 1) % W /\ nwrite' = nwrite
    BY SMTT(60), <2>2, SpanGet, SpanIs DEF Empty, TypeOK
  <2> QED
    BY ZenonT(30), <1>2, <2>1, <2>2 DEF ReadTurn
<1>3. ASSUME UNCHANGED <<nread, nwrite>> PROVE RingOK'
  BY ZenonT(30), <1>3
<1> QED
  BY ZenonT(30), <1>1, <1>2, <1>3 DEF Next, Step, Done, vars, pipe, Acquire, ReadTest, Sleep,
     Pipeclose, Kfree, Call, Kill, Fileclose

LEMMA WaitStep == IInv /\ [Next]_vars => WaitOK'
<1> SUFFICES ASSUME IInv, [Next]_vars PROVE WaitOK'
  BY ZenonT(30)
<1> USE PipeNats DEF IInv, At, pipe
<1>1. ASSUME NEW p \in Proc, UNCHANGED <<nread, nwrite, readopen, writeopen>>,
             pc[p] \notin {"rcopy", "wtest"}, \A q \in Proc : killed[q] => killed'[q],
             \A q \in Proc \ {p} : pc'[q] = pc[q] /\ asleep'[q] = asleep[q],
             pc'[p] \notin {"wsleep", "rsleep"},
             asleep'[p] \in {None, asleep[p]}
      PROVE  WaitOK'
  BY ZenonT(30), <1>1, PipeAssumption DEF WaitOK, Full, Empty, None
<1>2. ASSUME NEW p \in Proc, Acquire(p) PROVE WaitOK'
  BY ZenonT(60), <1>1, <1>2 DEF Acquire, TypeOK, Goto
<1>3. ASSUME NEW p \in Proc, Kfree(p) PROVE WaitOK'
  BY ZenonT(30), <1>1, <1>3 DEF Kfree, TypeOK, Goto
<1>4. ASSUME NEW p \in Proc, Call(p) PROVE WaitOK'
  BY ZenonT(60), <1>1, <1>4 DEF Call, TypeOK, Goto
<1>5. ASSUME NEW p \in Proc, NEW e \in {"r", "w"}, Fileclose(p, e) PROVE WaitOK'
  BY ZenonT(60), <1>1, <1>5 DEF Fileclose, TypeOK, Goto
<1>6. ASSUME NEW p \in Proc, Kill(p) PROVE WaitOK'
  <2>1. UNCHANGED <<pc, nread, nwrite, readopen, writeopen>>
    BY ZenonT(30), <1>6 DEF Kill
  <2>2. \A q \in Proc : killed[q] => killed'[q]
    BY ZenonT(30), <1>6 DEF Kill, TypeOK
  <2>3. \A q \in Proc : asleep'[q] \in {None, asleep[q]}
    BY ZenonT(30), <1>6 DEF Kill, TypeOK
  <2> QED
    BY ZenonT(30), <2>1, <2>2, <2>3, PipeAssumption DEF WaitOK, Full, Empty, None
<1>7. ASSUME NEW p \in Proc, WriteTurn(p) PROVE WaitOK'
  <2>0. /\ UNCHANGED <<readopen, writeopen, killed, nread>>
        /\ \A q \in Proc : q # p => pc'[q] = pc[q] /\ pc[q] \notin Inside
        /\ pc[p] = "wtest"
        /\ \A q \in Proc : asleep'[q] \in {None, asleep[q]}
    BY <1>7, SMTT(60) DEF WriteTurn, TypeOK, LockOK, Inside, Goto, Return, Wakeup, At, pipe, None
  <2>1. CASE nwrite' = nwrite /\ pc'[p] = "idle" /\ asleep' = Wakeup("nread")
    BY <2>0, <2>1, PipeAssumption, SMTT(60) DEF TypeOK, WaitOK, Wakeup, Full, Empty, Inside, None
  <2>4. CASE nwrite' = nwrite /\ pc'[p] = "idle" /\ asleep' = asleep /\ (~readopen \/ killed[p])
    <3>1. p \in Writers
      BY ZenonT(30), <2>0 DEF WriteEndOK, Writing
    <3>2. \A q \in Proc : asleep[q] = "nread" => readopen
      BY ZenonT(30) DEF SleepersOK, ReadEndOK, Reading
    <3>3. Full' = Full /\ Empty' = Empty
      BY ZenonT(30), <2>0, <2>4 DEF Full, Empty
    <3> QED
      <4> SUFFICES ASSUME NEW q \in Proc
                   PROVE  /\ pc'[q] = "wsleep" => Full' /\ readopen'
                          /\ pc'[q] = "rsleep" => Empty' /\ writeopen'
                          /\ asleep'[q] = "nwrite" =>
                               /\ readopen'
                               /\ Full' \/ \E r \in Proc : pc'[r] = "rcopy"
                          /\ asleep'[q] = "nread" =>
                               /\ writeopen'
                               /\ \/ Empty'
                                  \/ \E r \in Proc : pc'[r] = "wtest"
                                  \/ \E r \in Writers : killed'[r]
        BY ZenonT(30) DEF WaitOK
      <4>1. \A r \in Proc : pc[r] = "rcopy" => pc'[r] = "rcopy"
        BY ONLY ZenonT(30), <2>0
      <4>2. \A r \in Proc : pc[r] = "wtest" => r = p
        BY ONLY ZenonT(30), <2>0 DEF Inside
      <4>3. asleep[q] = "nread" => writeopen /\ (Empty \/ \E r \in Writers : killed[r])
        BY ONLY ZenonT(30), <2>4, <3>1, <3>2, <4>2, WaitOK, q \in Proc DEF WaitOK
      <4>4. asleep[q] = "nwrite" => readopen /\ (Full \/ \E r \in Proc : pc[r] = "rcopy")
        BY ONLY ZenonT(30), WaitOK, q \in Proc DEF WaitOK
      <4>5. /\ pc'[q] = "wsleep" => Full /\ readopen
            /\ pc'[q] = "rsleep" => Empty /\ writeopen
        BY ONLY ZenonT(30), <2>0, <2>4, WaitOK, q \in Proc DEF WaitOK
      <4> QED
        BY ONLY ZenonT(30), <2>0, <2>4, <3>3, <4>1, <4>3, <4>4, <4>5
  <2>2. CASE nwrite' = nwrite /\ pc'[p] = "wsleep" /\ asleep' = Wakeup("nread") /\ Full /\ readopen
    BY <2>0, <2>2, PipeAssumption, SMTT(60) DEF TypeOK, WaitOK, Wakeup, Full, Empty, Inside, None
  <2>3. CASE pc' = pc /\ asleep' = asleep /\ ~Full
    BY <2>0, <2>3, PipeAssumption, SMTT(60) DEF TypeOK, WaitOK, Full, Empty, Inside, None
  <2> QED
    BY <1>7, <2>1, <2>2, <2>3, <2>4, SMTT(60) DEF WriteTurn, TypeOK, Goto, Return, pipe
<1>8. ASSUME NEW p \in Proc, ReadTest(p) PROVE WaitOK'
  BY SMTT(60), <1>8 DEF ReadTest, TypeOK, WaitOK, Goto, Return, Full, Empty, None
<1>9. ASSUME NEW p \in Proc, ReadTurn(p) PROVE WaitOK'
  <2>0. /\ UNCHANGED <<readopen, writeopen, killed, nwrite>>
        /\ \A q \in Proc : q # p => pc'[q] = pc[q] /\ pc[q] \notin Inside
        /\ pc[p] = "rcopy"
    BY <1>9, SMTT(60) DEF ReadTurn, TypeOK, LockOK, Inside, Goto, Return, At, None
  <2>1. CASE pc' = pc /\ asleep' = asleep /\ ~Empty
    <3>1. \A q \in Proc : pc[q] \notin {"wsleep", "rsleep", "wtest"}
      BY ZenonT(30), <2>0 DEF Inside
    <3> QED
      BY ONLY ZenonT(30), <2>0, <2>1, <3>1, WaitOK, p \in Proc DEF WaitOK, Empty
  <2>2. CASE pc'[p] = "idle" /\ asleep' = Wakeup("nwrite") /\ nread' = nread
    BY <2>0, <2>2, PipeAssumption, SMTT(60) DEF WaitOK, Wakeup, Full, Empty, Inside, None
  <2> QED
    BY <1>9, <2>1, <2>2, SMTT(60) DEF ReadTurn, TypeOK, Goto, Return
<1>10. ASSUME NEW p \in Proc, Sleep(p) PROVE WaitOK'
  <2>1. UNCHANGED <<nread, nwrite, readopen, writeopen, killed>>
    BY ZenonT(30), <1>10 DEF Sleep
  <2>2. \A q \in Proc \ {p} : pc'[q] = pc[q] /\ asleep'[q] = asleep[q]
    BY ZenonT(30), <1>10 DEF Sleep, TypeOK, Goto
  <2>3. pc[p] \in {"wsleep", "rsleep"} /\ pc'[p] \in {"read", "write"}
    BY ZenonT(30), <1>10 DEF Sleep, TypeOK, Goto
  <2>4. \/ asleep'[p] = "nwrite" /\ pc[p] = "wsleep"
        \/ asleep'[p] = "nread" /\ pc[p] = "rsleep"
    BY ZenonT(30), <1>10 DEF Sleep, TypeOK, Goto
  <2> QED
    BY ZenonT(30), <2>1, <2>2, <2>3, <2>4 DEF WaitOK, Full, Empty
<1>11. ASSUME NEW p \in Proc, Pipeclose(p) PROVE WaitOK'
  <2>1. UNCHANGED <<nread, nwrite, killed>>
    BY ZenonT(30), <1>11 DEF Pipeclose
  <2>2. \A q \in Proc \ {p} : pc'[q] = pc[q] /\ pc[q] \notin {"wsleep", "rsleep"}
    BY ZenonT(30), <1>11 DEF Pipeclose, TypeOK, Goto, LockOK, Inside
  <2>3. pc[p] \in {"closing_r", "closing_w"} /\ pc'[p] \in {"idle", "free"}
    BY ZenonT(30), <1>11 DEF Pipeclose, TypeOK, Goto
  <2>4. \/ /\ UNCHANGED readopen
           /\ \A q \in Proc : asleep'[q] # "nread" /\ asleep'[q] \in {None, asleep[q]}
        \/ /\ UNCHANGED writeopen
           /\ \A q \in Proc : asleep'[q] # "nwrite" /\ asleep'[q] \in {None, asleep[q]}
    BY <1>11 DEF Pipeclose, TypeOK, Wakeup, None
  <2> QED
    BY <2>1, <2>2, <2>3, <2>4 DEF WaitOK, Full, Empty, None
<1>12. CASE UNCHANGED vars
  BY ZenonT(30), <1>12 DEF vars, WaitOK, Full, Empty
<1> QED
  BY ZenonT(30), <1>2, <1>3, <1>4, <1>5, <1>6, <1>7, <1>8, <1>9, <1>10, <1>11, <1>12
     DEF Next, Step, Done

(* Every step keeps the invariant.                                         *)
LEMMA NextIInv == IInv /\ [Next]_vars => IInv'
BY ZenonT(30), TypeStep, LockStep, ReadEndStep, WriteEndStep, FreeStep, RingStep, WaitStep DEF IInv

(* The invariant holds throughout piperead, pipewrite and pipeclose.       *)
THEOREM InductiveInvariant == Spec => []IInv
BY InitIInv, NextIInv, PTL DEF Spec

(* pipeclose() calls kfree() only when nobody is in the pipe's code or can *)
(* get there.                                                              *)
THEOREM FreedLate == Spec => []NoUseAfterFree
<1>1. IInv => NoUseAfterFree
  <2> SUFFICES ASSUME IInv, freed, NEW p \in Proc PROVE pc[p] = "idle" /\ ends[p] = {}
    BY ZenonT(30) DEF NoUseAfterFree
  <2>1. ~readopen /\ ~writeopen /\ pc[p] # "free"
    BY ZenonT(30) DEF IInv, FreeOK
  <2>2. "r" \notin ends[p] /\ ~Reading(p) /\ ~ClosingR(p)
    BY ZenonT(30), <2>1 DEF IInv, ReadEndOK
  <2>3. "w" \notin ends[p] /\ ~Writing(p) /\ ~ClosingW(p)
    BY ZenonT(30), <2>1 DEF IInv, WriteEndOK
  <2>4. ends[p] = {}
    BY ZenonT(30), <2>2, <2>3 DEF IInv, TypeOK
  <2>5. pc[p] \in Labels
    BY ZenonT(30) DEF IInv, TypeOK
  <2>6. pc[p] = "idle"
    BY ZenonT(30), <2>1, <2>2, <2>3, <2>5 DEF Labels, Inside, Reading, Writing, ClosingR, ClosingW
  <2> QED
    BY ZenonT(30), <2>4, <2>6
<1> QED
  BY <1>1, InductiveInvariant, PTL

(* While p->lock is free, a process asleep in piperead or pipewrite has    *)
(* something to wait for.                                                  *)
THEOREM WakeupsArrive == Spec => []NoLostWakeup
<1>1. IInv => NoLostWakeup
  BY ZenonT(30), PipeNats DEF IInv, LockOK, WaitOK, NoLostWakeup, Inside
<1> QED
  BY <1>1, InductiveInvariant, PTL

(* piperead() reports the end of file only when nobody can write.          *)
THEOREM EofIsTrue == Spec => EofMeansNoWriter
<1> DEFINE A == \A p \in Proc : pc[p] = "rtest" /\ pc'[p] = "rcopy" /\ Empty
                  => \A q \in Proc : "w" \notin ends[q]
<1>1. IInv /\ [Next]_vars => [A]_vars
  <2> SUFFICES ASSUME IInv, Next, NEW p \in Proc, pc[p] = "rtest", pc'[p] = "rcopy", Empty,
                      NEW q \in Proc
               PROVE  "w" \notin ends[q]
    BY ZenonT(30)
  <2>1. ~writeopen
    <3> USE DEF At, Goto, Return
    <3>0. pc \in [Proc -> Labels] /\ pc'[p] # pc[p] BY ZenonT(30) DEF IInv, TypeOK
    <3>1. ASSUME NEW r \in Proc, ReadTest(r) PROVE ~writeopen
      BY ONLY ZenonT(30), <3>0, <3>1, pc[p] = "rtest", pc'[p] = "rcopy", Empty DEF ReadTest, At, Goto, Return
    <3>2. ASSUME NEW r \in Proc, Acquire(r) PROVE FALSE BY ZenonT(30), <3>0, <3>2 DEF Acquire
    <3>3. ASSUME NEW r \in Proc, WriteTurn(r) PROVE FALSE BY ZenonT(30), <3>0, <3>3 DEF WriteTurn
    <3>4. ASSUME NEW r \in Proc, ReadTurn(r) PROVE FALSE BY ZenonT(30), <3>0, <3>4 DEF ReadTurn
    <3>5. ASSUME NEW r \in Proc, Sleep(r) PROVE FALSE BY ZenonT(30), <3>0, <3>5 DEF Sleep
    <3>6. ASSUME NEW r \in Proc, Pipeclose(r) PROVE FALSE BY ZenonT(30), <3>0, <3>6 DEF Pipeclose
    <3>7. ASSUME NEW r \in Proc, Kfree(r) PROVE FALSE BY ZenonT(30), <3>0, <3>7 DEF Kfree
    <3>8. ASSUME NEW r \in Proc, Call(r) PROVE FALSE BY ZenonT(30), <3>0, <3>8 DEF Call
    <3>9. ASSUME NEW r \in Proc, Kill(r) PROVE FALSE BY ZenonT(30), <3>0, <3>9 DEF Kill
    <3>10. ASSUME NEW r \in Proc, NEW e \in {"r", "w"}, Fileclose(r, e) PROVE FALSE
      BY ZenonT(30), <3>0, <3>10 DEF Fileclose
    <3>11. CASE Done BY ZenonT(30), <3>0, <3>11 DEF Done, vars
    <3> QED BY ZenonT(30), <3>1, <3>2, <3>3, <3>4, <3>5, <3>6, <3>7, <3>8, <3>9, <3>10, <3>11
            DEF Next, Step
  <2> QED
    BY ZenonT(30), <2>1 DEF IInv, WriteEndOK
<1> QED
  BY <1>1, InductiveInvariant, PTL DEF Spec, EofMeansNoWriter
-----------------------------------------------------------------------------
Data == Byte \cup {NoByte}

(* The bytes between the counters, for any two counters and contents.      *)
Ring(d, r, w) == [i \in 1..Span(r, w) |-> d[(r + i - 1) % PIPESIZE]]

LEMMA RingSeq ==
  ASSUME NEW d \in [0..PIPESIZE - 1 -> Data], NEW r \in Uint, NEW w \in Uint
  PROVE  Ring(d, r, w) \in Seq(Data) /\ Len(Ring(d, r, w)) = Span(r, w)
<1>1. Span(r, w) \in Nat
  BY ZenonT(30), SpanIs
<1>2. ASSUME NEW i \in 1..Span(r, w) PROVE d[(r + i - 1) % PIPESIZE] \in Data
  <2>1. r + i - 1 \in Nat
    BY <1>1 DEF Uint
  <2>2. (r + i - 1) % PIPESIZE \in 0..PIPESIZE - 1
    BY <2>1, PipeNats
  <2> QED
    BY ZenonT(30), <2>2
<1>3. Ring(d, r, w) \in [1..Span(r, w) -> Data]
  BY ZenonT(30), <1>2 DEF Ring
<1> QED
  BY <1>1, <1>3

(* pipewrite() stores at the place after the last byte.                    *)
LEMMA RingPut ==
  ASSUME NEW d \in [0..PIPESIZE - 1 -> Data], NEW r \in Uint, NEW w \in Uint,
         Span(r, w) < PIPESIZE, NEW x \in Data
  PROVE  Ring([d EXCEPT ![w % PIPESIZE] = x], r, (w + 1) % W) = Append(Ring(d, r, w), x)
<1> DEFINE n == Span(r, w)
           v == (w + 1) % W
           k == w % PIPESIZE
           e == [d EXCEPT ![k] = x]
           s == Ring(d, r, w)
           t == Ring(e, r, v)
<1>1. n \in Nat /\ v \in Uint /\ Span(r, v) = n + 1
  BY ZenonT(30), SpanIs, NextUint, SpanPut
<1>2. k \in 0..PIPESIZE - 1 /\ k = (r + n) % PIPESIZE
  <2>1. w \in Nat /\ r \in Nat
    BY DEF Uint
  <2>2. r + n = w \/ r + n = w + W
    <3>1. n = IF w >= r THEN w - r ELSE w + W - r
      BY ZenonT(30), SpanIs
    <3> HIDE DEF n
    <3> QED
      BY <2>1, <3>1, PipeNats
  <2>3. (w + W) % PIPESIZE = k
    BY ZenonT(30), <2>1, WrapKeepsPlace
  <2> QED
    BY <2>1, <2>2, <2>3, PipeNats, SMTT(60)
<1>3. e \in [0..PIPESIZE - 1 -> Data] /\ e[k] = x
  BY ZenonT(30), <1>2
<1>4. s \in Seq(Data) /\ Len(s) = n /\ t \in Seq(Data) /\ Len(t) = n + 1
  BY ZenonT(60), <1>1, <1>3, RingSeq
<1>5. ASSUME NEW i \in 1..n PROVE t[i] = s[i]
  <2>1. r + i - 1 \in Nat /\ r + n \in Nat /\ r + i - 1 < r + n
    BY <1>1 DEF Uint
  <2>3. (r + n) - (r + i - 1) < PIPESIZE
    BY SMTT(60), <1>1, PipeNats DEF Uint
  <2>4. (r + i - 1) % PIPESIZE # k
    BY ZenonT(30), <2>1, <2>3, <1>2, PlacesDiffer
  <2>5. (r + i - 1) % PIPESIZE \in 0..PIPESIZE - 1
    BY <2>1, PipeNats
  <2>6. e[(r + i - 1) % PIPESIZE] = d[(r + i - 1) % PIPESIZE]
    BY ZenonT(30), <2>4, <2>5
  <2>7. i \in 1..(n + 1)
    BY <1>1
  <2> HIDE DEF n, e
  <2> QED
    BY ZenonT(30), <2>6, <2>7, <1>1 DEF Ring, n
<1>6. t[n + 1] = x
  <2>1. n + 1 \in 1..(n + 1) /\ r + (n + 1) - 1 = r + n
    BY SMTT(60), <1>1 DEF Uint
  <2> HIDE DEF n, e, k
  <2>2. t[n + 1] = e[(r + (n + 1) - 1) % PIPESIZE]
    BY ZenonT(30), <1>1, <2>1 DEF Ring
  <2> QED
    BY ZenonT(30), <2>1, <2>2, <1>2, <1>3
<1> HIDE DEF n, s, t
<1>7. /\ Append(s, x) \in Seq(Data) /\ Len(Append(s, x)) = n + 1
      /\ \A i \in 1..n : Append(s, x)[i] = s[i]
      /\ Append(s, x)[n + 1] = x
  BY SMTT(60), <1>4, AppendProperties
<1>8. \A i \in 1..(n + 1) : t[i] = Append(s, x)[i]
  BY <1>1, <1>5, <1>6, <1>7
<1>9. t = Append(s, x)
  BY ZenonT(30), <1>4, <1>7, <1>8, SeqEqual
<1> QED
  BY ZenonT(30), <1>9 DEF t, s

(* piperead() takes the byte at the first place.                           *)
LEMMA RingGet ==
  ASSUME NEW d \in [0..PIPESIZE - 1 -> Data], NEW r \in Uint, NEW w \in Uint, r # w
  PROVE  /\ Ring(d, r, w) # <<>>
         /\ Head(Ring(d, r, w)) = d[r % PIPESIZE]
         /\ Ring(d, (r + 1) % W, w) = Tail(Ring(d, r, w))
<1> DEFINE n == Span(r, w)
           v == (r + 1) % W
           s == Ring(d, r, w)
           t == Ring(d, v, w)
<1>1. n \in Nat \ {0} /\ v \in Uint /\ Span(v, w) = n - 1
  BY ZenonT(30), SpanIs, NextUint, SpanGet
<1>2. s \in Seq(Data) /\ Len(s) = n /\ t \in Seq(Data) /\ Len(t) = n - 1
  BY ZenonT(30), <1>1, RingSeq
<1>3. s # <<>>
  BY ZenonT(30), <1>1, <1>2
<1>4. s[1] = d[r % PIPESIZE]
  <2>1. 1 \in 1..n /\ r + 1 - 1 = r
    BY <1>1 DEF Uint
  <2>2. s[1] = d[(r + 1 - 1) % PIPESIZE]
    BY ZenonT(30), <2>1 DEF Ring
  <2> QED
    BY ZenonT(30), <2>1, <2>2
<1>5. ASSUME NEW i \in 1..(n - 1) PROVE t[i] = s[i + 1]
  <2>1. i \in Nat /\ i - 1 \in Nat /\ i + 1 \in 1..n /\ r \in Nat
    BY <1>1 DEF Uint
  <2>2. (v + i - 1) % PIPESIZE = (r + (i + 1) - 1) % PIPESIZE
    <3>1. CASE r = W - 1
      <4>1. v = 0
        BY ZenonT(30), <3>1, NextUint
      <4>2. (i - 1 + W) % PIPESIZE = (i - 1) % PIPESIZE
        BY ZenonT(30), <2>1, WrapKeepsPlace
      <4>3. v + i - 1 = i - 1 /\ r + (i + 1) - 1 = i - 1 + W
        BY <4>1, <3>1, <2>1, PipeNats
      <4> QED
        BY ZenonT(30), <4>2, <4>3
    <3>2. CASE r # W - 1
      <4>1. v = r + 1
        BY ZenonT(30), <3>2, NextUint
      <4>2. v + i - 1 = r + (i + 1) - 1
        BY <4>1, <2>1
      <4> QED
        BY ZenonT(30), <4>2
    <3> QED
      BY ZenonT(30), <3>1, <3>2
  <2>3. t[i] = d[(v + i - 1) % PIPESIZE]
    BY ZenonT(30), <1>1 DEF Ring
  <2>4. s[i + 1] = d[(r + (i + 1) - 1) % PIPESIZE]
    BY ZenonT(30), <2>1 DEF Ring
  <2> QED
    BY ZenonT(30), <2>2, <2>3, <2>4
<1> HIDE DEF n, v, s, t
<1>6. Tail(s) \in Seq(Data) /\ Len(Tail(s)) = n - 1 /\ \A i \in 1..(n - 1) : Tail(s)[i] = s[i + 1]
  BY ZenonT(30), <1>2, <1>3, HeadTailProperties
<1>7. t = Tail(s)
  BY ZenonT(30), <1>2, <1>5, <1>6, SeqEqual
<1>8. Head(s) = s[1]
  BY <1>2, <1>3
<1> QED
  BY ZenonT(30), <1>3, <1>4, <1>7, <1>8 DEF s, t, v

LEMMA QueueIs == Queue = Ring(data, nread, nwrite)
BY ZenonT(30) DEF Queue, Ring, Span

LEMMA QueueIsNext == Queue' = Ring(data', nread', nwrite')
BY ZenonT(30) DEF Queue, Ring, Span

(* A byte stored is a Put, a byte taken a Get, anything else a stutter.    *)
LEMMA FifoStep == IInv /\ [Next]_vars => [Fifo!Next]_<<Queue, last>>
<1> SUFFICES ASSUME IInv, [Next]_vars PROVE [Fifo!Next]_<<Queue, last>>
  BY ZenonT(30)
<1> USE DEF IInv, TypeOK
<1>1. ASSUME UNCHANGED <<data, nread, nwrite, last>> PROVE [Fifo!Next]_<<Queue, last>>
  BY ZenonT(30), <1>1, QueueIs, QueueIsNext
<1>2. ASSUME NEW p \in Proc, WriteTurn(p) PROVE [Fifo!Next]_<<Queue, last>>
  <2>1. CASE UNCHANGED <<data, nread, nwrite>>
    BY ZenonT(30), <1>1, <1>2, <2>1 DEF WriteTurn
  <2>2. ASSUME ~Full, NEW x \in Byte, data' = [data EXCEPT ![nwrite % PIPESIZE] = x],
               nwrite' = (nwrite + 1) % W, nread' = nread, last' = last
        PROVE  Fifo!Next
    <3>1. Span(nread, nwrite) < PIPESIZE
      BY <2>2, SpanIs, PipeNats, SMTT(60) DEF Full, RingOK, Count
    <3>2. Ring([data EXCEPT ![nwrite % PIPESIZE] = x], nread, (nwrite + 1) % W)
            = Append(Ring(data, nread, nwrite), x)
      <4>1. data \in [0..PIPESIZE - 1 -> Data] /\ nread \in Uint /\ nwrite \in Uint /\ x \in Data
        BY ZenonT(30) DEF Data
      <4> HIDE DEF IInv, TypeOK
      <4> QED
        BY ONLY ZenonT(30), <3>1, <4>1, RingPut
    <3>3. Queue' = Append(Queue, x)
      BY ZenonT(30), <2>2, <3>2, QueueIs, QueueIsNext
    <3>4. Len(Queue) < PIPESIZE
      BY ZenonT(30), <3>1, RingSeq, QueueIs DEF Data
    <3> QED
      BY ZenonT(30), <2>2, <3>3, <3>4 DEF Fifo!Next, Fifo!Put
  <2> QED
    BY ZenonT(30), <1>2, <2>1, <2>2 DEF WriteTurn, pipe
<1>3. ASSUME NEW p \in Proc, ReadTurn(p) PROVE [Fifo!Next]_<<Queue, last>>
  <2>1. CASE UNCHANGED <<nread, last>>
    BY ZenonT(30), <1>1, <1>3, <2>1 DEF ReadTurn
  <2>2. CASE ~Empty /\ last' = data[nread % PIPESIZE] /\ nread' = (nread + 1) % W
    <3>1. UNCHANGED <<data, nwrite>> /\ nread # nwrite
      BY ZenonT(30), <1>3, <2>2 DEF ReadTurn, Empty
    <3>2. Queue # <<>> /\ Head(Queue) = data[nread % PIPESIZE] /\ Queue' = Tail(Queue)
      BY ZenonT(30), <2>2, <3>1, RingGet, QueueIs, QueueIsNext DEF Data
    <3> QED
      BY ZenonT(30), <2>2, <3>2 DEF Fifo!Next, Fifo!Get
  <2> QED
    BY ZenonT(30), <1>3, <2>1, <2>2 DEF ReadTurn
<1> QED
  BY ZenonT(30), <1>1, <1>2, <1>3 DEF Next, Step, Done, vars, pipe, Acquire, ReadTest, Sleep,
     Pipeclose, Kfree, Call, Kill, Fileclose

(* The ring and its wrapping counters are a bounded queue.                 *)
THEOREM PipeIsFifo == Spec => ImplementsFifo
<1>1. Init => Fifo!Init
  <2> SUFFICES ASSUME Init PROVE Queue = <<>> /\ last = NoByte
    BY ZenonT(30) DEF Fifo!Init
  <2>1. Span(nread, nwrite) = 0
    BY ZenonT(30), SpanIs, PipeNats DEF Init
  <2>2. Len(Queue) = 0 /\ Queue \in Seq(Data)
    BY ZenonT(30), <2>1, InitIInv, RingSeq, QueueIs DEF IInv, TypeOK, Data
  <2> QED
    BY ZenonT(30), <2>2, EmptySeq DEF Init
<1> QED
  BY <1>1, FifoStep, InductiveInvariant, PTL DEF Spec, ImplementsFifo, Fifo!Spec
=============================================================================
