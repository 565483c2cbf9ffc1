---------------------------- MODULE BcacheProofs ----------------------------
(***************************************************************************)
(* The buffer cache gives every process the latest contents of its sector  *)
(* and a buffer of its own, loses no wakeup and no buffer, and keeps the   *)
(* request queue in step with the drive, for every number of processes,    *)
(* buffers and sectors.                                                    *)
(***************************************************************************)
EXTENDS Bcache, TLAPS

Data == Val \cup {Zero}
Maybe == Sector \cup {NoSector}
Holding == {"got", "iderw", "iowait", "own"}
Labels == Holding \cup {"idle", "bget"}
Elems(s) == {s[i] : i \in 1..Len(s)}
Distinct(s) == \A i, j \in 1..Len(s) : s[i] = s[j] => i = j

TypeOK ==
  /\ sector \in [Buf -> Maybe]
  /\ busy \in [Buf -> BOOLEAN] /\ valid \in [Buf -> BOOLEAN] /\ dirty \in [Buf -> BOOLEAN]
  /\ data \in [Buf -> Data]
  /\ lru \in [Buf -> Buf]
  /\ queue \in Seq(Buf)
  /\ hw \in [st : {"idle", "busy", "done"}, op : {"read", "write"}, s : Maybe, v : Data]
  /\ disk \in [Sector -> Data] /\ latest \in [Sector -> Data]
  /\ pc \in [Proc -> Labels]
  /\ want \in [Proc -> Maybe]
  /\ mine \in [Proc -> Buf \cup {0}] /\ asleep \in [Proc -> Buf \cup {0}]

(* Every buffer is on the list.                                            *)
ListOK == \A b \in Buf : \E i \in Buf : lru[i] = b

(* A process holds a buffer exactly inside bread() and until brelse().     *)
OwnOK ==
  /\ OneBufferPerSector /\ OneOwner
  /\ \A p \in Proc : /\ mine[p] # 0 <=> pc[p] \in Holding
                     /\ pc[p] # "idle" <=> want[p] # NoSector

(* What the flags say at each point: a buffer in use is valid, one on its  *)
(* way to iderw() needs it, and one in iderw() is queued or done.          *)
FlagsOK ==
  /\ \A b \in Buf : /\ dirty[b] => valid[b]
                    /\ valid[b] => sector[b] # NoSector
  /\ \A p \in Proc :
       /\ pc[p] = "own" => valid[mine[p]]
       /\ pc[p] = "iderw" => ~valid[mine[p]] \/ dirty[mine[p]]
       /\ pc[p] = "iowait" => \/ mine[p] \in Elems(queue)
                              \/ valid[mine[p]] /\ ~dirty[mine[p]]

(* The queue holds the buffers in iderw(), and the drive the head's        *)
(* command.                                                                *)
QueueOK ==
  /\ Distinct(queue)
  /\ \A b \in Elems(queue) : /\ \E p \in Proc : mine[p] = b /\ pc[p] = "iowait"
                             /\ dirty[b] \/ ~valid[b]
  /\ queue = <<>> <=> hw.st = "idle"
  /\ queue # <<>> =>
       /\ hw.s = sector[Head(queue)]
       /\ hw.op = "write" <=> dirty[Head(queue)]
       /\ hw.v = data[Head(queue)] \/ ~dirty[Head(queue)]
       /\ hw.st = "done" /\ dirty[Head(queue)] => disk[hw.s] = data[Head(queue)]

SleepOK ==
  \A p \in Proc : asleep[p] # 0 =>
    \/ pc[p] = "bget" /\ busy[asleep[p]] /\ sector[asleep[p]] = want[p]
    \/ pc[p] = "iowait" /\ asleep[p] = mine[p] /\ mine[p] \in Elems(queue)

(* Valid buffers hold the latest contents, and so does the disk except for *)
(* sectors with a dirty buffer.                                            *)
DataOK ==
  /\ \A b \in Buf : valid[b] => data[b] = latest[sector[b]]
  /\ \A s \in Sector : disk[s] = latest[s] \/ \E b \in Buf : sector[b] = s /\ dirty[b]

ControlInv == /\ TypeOK /\ ListOK /\ OwnOK /\ FlagsOK /\ QueueOK /\ SleepOK
              /\ PanicOnlyWhenFull
IInv == ControlInv /\ DataOK

-----------------------------------------------------------------------------
(* Append() adds its element at the end (iderw(): the list is walked to    *)
(* its last buffer).                                                       *)
LEMMA AppendFacts ==
  ASSUME NEW S, NEW s \in Seq(S), NEW e \in S
  PROVE  /\ Append(s, e) \in Seq(S)
         /\ Append(s, e) # <<>>
         /\ Elems(Append(s, e)) = Elems(s) \cup {e}
         /\ Distinct(s) /\ e \notin Elems(s) => Distinct(Append(s, e))
         /\ Head(Append(s, e)) = IF s = <<>> THEN e ELSE Head(s)
<1>1. /\ Append(s, e) \in Seq(S)
      /\ Len(s) \in Nat /\ Len(Append(s, e)) = Len(s) + 1
      /\ \A i \in 1..Len(s) : Append(s, e)[i] = s[i]
      /\ Append(s, e)[Len(s) + 1] = e
  OBVIOUS
<1>2. Append(s, e) # <<>>
  BY <1>1
<1>3. Elems(Append(s, e)) = Elems(s) \cup {e}
  <2>1. ASSUME NEW x \in Elems(Append(s, e)) PROVE x \in Elems(s) \cup {e}
    BY <1>1 DEF Elems
  <2>2. ASSUME NEW x \in Elems(s) \cup {e} PROVE x \in Elems(Append(s, e))
    BY <1>1 DEF Elems
  <2> QED BY ZenonT(30), <2>1, <2>2
<1>4. ASSUME Distinct(s), e \notin Elems(s) PROVE Distinct(Append(s, e))
  BY <1>1, <1>4 DEF Distinct, Elems
<1>5. Head(Append(s, e)) = IF s = <<>> THEN e ELSE Head(s)
  OBVIOUS
<1> QED BY ZenonT(30), <1>1, <1>2, <1>3, <1>4, <1>5

(* Tail() takes away the head and nothing else (ideintr()).                *)
LEMMA TailFacts ==
  ASSUME NEW S, NEW s \in Seq(S), s # <<>>, Distinct(s)
  PROVE  /\ Tail(s) \in Seq(S) /\ Distinct(Tail(s))
         /\ Head(s) \in S /\ Head(s) \in Elems(s)
         /\ Elems(Tail(s)) = Elems(s) \ {Head(s)}
         /\ Tail(s) # <<>> => Head(Tail(s)) \in Elems(Tail(s))
<1>1. /\ Tail(s) \in Seq(S) /\ Len(s) \in Nat \ {0}
      /\ Len(Tail(s)) = Len(s) - 1 /\ Head(s) = s[1] /\ Head(s) \in S
      /\ \A i \in 1..Len(s) - 1 : Tail(s)[i] = s[i + 1]
  OBVIOUS
<1>2. Distinct(Tail(s))
  BY <1>1 DEF Distinct
<1>3. Head(s) \in Elems(s)
  BY <1>1 DEF Elems
<1>4. Elems(Tail(s)) = Elems(s) \ {Head(s)}
  <2>1. ASSUME NEW x \in Elems(Tail(s)) PROVE x \in Elems(s) \ {Head(s)}
    <3>1. PICK i \in 1..Len(s) - 1 : x = s[i + 1]
      BY ZenonT(30), <1>1 DEF Elems
    <3>2. i + 1 \in 1..Len(s) /\ 1 \in 1..Len(s) /\ i + 1 # 1
      BY <1>1
    <3> QED BY ZenonT(30), <1>1, <3>1, <3>2 DEF Elems, Distinct
  <2>2. ASSUME NEW x \in Elems(s) \ {Head(s)} PROVE x \in Elems(Tail(s))
    <3>1. PICK i \in 1..Len(s) : x = s[i]
      BY ZenonT(30) DEF Elems
    <3>2. i # 1 BY ZenonT(30), <1>1, <3>1
    <3>3. i - 1 \in 1..Len(s) - 1 /\ (i - 1) + 1 = i BY <1>1, <3>2
    <3>4. Tail(s)[i - 1] = x BY ZenonT(30), <1>1, <3>1, <3>3
    <3> QED BY ZenonT(30), <1>1, <3>3, <3>4 DEF Elems
  <2> QED BY ZenonT(30), <2>1, <2>2
<1>5. ASSUME Tail(s) # <<>> PROVE Head(Tail(s)) \in Elems(Tail(s))
  <2>1. Len(Tail(s)) \in Nat \ {0} /\ Head(Tail(s)) = Tail(s)[1]
    BY <1>1, <1>5
  <2> QED BY <2>1 DEF Elems
<1> QED BY ZenonT(30), <1>1, <1>2, <1>3, <1>4, <1>5

(* Moving a buffer to the head of the list keeps every buffer on it        *)
(* (brelse()).                                                             *)
LEMMA MovedKeepsAll ==
  ASSUME lru \in [Buf -> Buf], ListOK, NEW b \in Buf
  PROVE  /\ MovedToHead(b) \in [Buf -> Buf]
         /\ \A c \in Buf : \E i \in Buf : MovedToHead(b)[i] = c
<1> DEFINE k == CHOOSE i \in Buf : lru[i] = b
           m == [i \in Buf |-> IF i = 1 THEN b
                               ELSE IF i <= k THEN lru[i-1] ELSE lru[i]]
<1>1. k \in Buf /\ lru[k] = b
  BY ZenonT(30) DEF ListOK
<1>2. MovedToHead(b) = m
  BY ZenonT(30) DEF MovedToHead
<1> HIDE DEF k
<1>3. NBUF \in Nat \ {0}
  BY ZenonT(30), BcacheAssumption
<1>4. m \in [Buf -> Buf]
  <2>1. ASSUME NEW i \in Buf, i # 1 PROVE i - 1 \in Buf
    BY <1>3, <2>1 DEF Buf
  <2>2. ASSUME NEW i \in Buf
        PROVE  (IF i = 1 THEN b ELSE IF i <= k THEN lru[i-1] ELSE lru[i]) \in Buf
    BY ZenonT(30), <2>1
  <2> QED BY ZenonT(30), <2>2
<1>5. ASSUME NEW c \in Buf PROVE \E i \in Buf : m[i] = c
  <2>1. PICK j \in Buf : lru[j] = c
    BY ZenonT(30) DEF ListOK
  <2>2. CASE j = k
    <3>1. 1 \in Buf /\ m[1] = c BY <1>1, <1>3, <2>1, <2>2 DEF Buf
    <3> QED BY ZenonT(30), <3>1
  <2>3. CASE j < k
    <3>1. j + 1 \in Buf /\ j + 1 # 1 /\ j + 1 <= k /\ (j + 1) - 1 = j
      BY <1>1, <1>3, <2>3 DEF Buf
    <3>2. m[j + 1] = c BY ZenonT(30), <2>1, <3>1
    <3> QED BY ZenonT(30), <3>1, <3>2
  <2>4. CASE j > k
    <3>1. j # 1 /\ ~(j <= k) BY <1>1, <1>3, <2>4 DEF Buf
    <3>2. m[j] = c BY ZenonT(30), <2>1, <3>1
    <3> QED BY ZenonT(30), <3>2
  <2> QED BY <1>1, <1>3, <2>2, <2>3, <2>4 DEF Buf
<1> QED BY ZenonT(30), <1>2, <1>4, <1>5

-----------------------------------------------------------------------------
(* What the proofs use of the constants: no buffer is 0, no sector is      *)
(* NoSector.                                                               *)
LEMMA BufFacts == 0 \notin Buf /\ NoSector \notin Sector
BY BcacheAssumption DEF Buf

(* The buffers on the queue are buffers, and its head is one of them.      *)
LEMMA QueueElems ==
  ASSUME TypeOK
  PROVE  /\ Elems(queue) \subseteq Buf
         /\ queue # <<>> => Head(queue) \in Elems(queue)
<1>1. queue \in Seq(Buf) BY ZenonT(30) DEF TypeOK
<1>2. \A i \in 1..Len(queue) : queue[i] \in Buf BY <1>1
<1>3. queue # <<>> => 1 \in 1..Len(queue) /\ Head(queue) = queue[1] BY <1>1
<1> QED BY ZenonT(30), <1>2, <1>3 DEF Elems

(* A queued buffer caches a sector.                                        *)
LEMMA QueueSector ==
  ASSUME ControlInv, NEW b \in Elems(queue)
  PROVE  b \in Buf /\ sector[b] \in Sector
<1>1. b \in Buf BY ZenonT(30), QueueElems DEF ControlInv
<1>2. PICK q \in Proc : mine[q] = b /\ pc[q] = "iowait"
  BY ZenonT(30) DEF ControlInv, QueueOK
<1>3. sector[b] = want[q] /\ want[q] # NoSector
  BY ZenonT(30), <1>1, <1>2, BufFacts DEF ControlInv, OwnOK, OneOwner
<1> QED BY ZenonT(30), <1>1, <1>3 DEF ControlInv, TypeOK, Maybe

(* The cache as it is set up (binit()) satisfies the invariant.            *)
LEMMA InitControl == Init => ControlInv /\ DataOK
<1> SUFFICES ASSUME Init PROVE ControlInv /\ DataOK BY ZenonT(30)
<1> USE BufFacts DEF Init
<1>0. Elems(queue) = {} /\ Distinct(queue)
  BY DEF Elems, Distinct
<1>1. TypeOK
  <2>1. lru \in [Buf -> Buf] BY BcacheAssumption DEF Buf
  <2> QED BY <2>1 DEF TypeOK, Data, Maybe, Labels, Holding, Idle
<1>2. ListOK
  <2>1. ASSUME NEW b \in Buf
        PROVE  NBUF + 1 - b \in Buf /\ lru[NBUF + 1 - b] = b
    BY BcacheAssumption DEF Buf
  <2> QED BY ZenonT(30), <2>1 DEF ListOK
<1>3. OwnOK BY ZenonT(30) DEF OwnOK, OneBufferPerSector, OneOwner, Holding
<1>4. FlagsOK BY ZenonT(30) DEF FlagsOK
<1>5. QueueOK BY ZenonT(30), <1>0 DEF QueueOK, Idle
<1>6. SleepOK BY ZenonT(30) DEF SleepOK
<1>7. PanicOnlyWhenFull BY ZenonT(30) DEF PanicOnlyWhenFull
<1>8. DataOK BY ZenonT(30) DEF DataOK
<1> QED BY ZenonT(30), <1>1, <1>2, <1>3, <1>4, <1>5, <1>6, <1>7, <1>8 DEF ControlInv

(* bread() is called.                                                      *)
LEMMA BreadStep ==
  ASSUME ControlInv, NEW p \in Proc, NEW s \in Sector, Bread(p, s)
  PROVE  ControlInv'
<1> USE BufFacts DEF ControlInv, Bread, cache, drive, procs, At, Goto
<1>1. TypeOK'
  BY ZenonT(30) DEF TypeOK, Labels, Maybe
<1>2. ListOK'
  BY ZenonT(30) DEF TypeOK, ListOK
<1>3. OwnOK'
  <2> USE DEF TypeOK, OwnOK, Holding
  <2>1. OneBufferPerSector'
    BY ZenonT(30) DEF OneBufferPerSector
  <2>2. \A q, r \in Proc : mine'[q] # 0 /\ mine'[q] = mine'[r] => q = r
    BY ZenonT(30) DEF OneOwner
  <2>3. \A b \in Buf : busy'[b] <=> \E q \in Proc : mine'[q] = b
    BY DEF OneOwner
  <2>4. \A q \in Proc : mine'[q] # 0 => sector'[mine'[q]] = want'[q]
    BY SMTT(60) DEF OneOwner
  <2>5. \A q \in Proc : mine'[q] # 0 <=> pc'[q] \in Holding
    BY DEF OneOwner
  <2>6. \A q \in Proc : pc'[q] # "idle" <=> want'[q] # NoSector
    BY DEF OneOwner
  <2> QED BY ZenonT(30), <2>1, <2>2, <2>3, <2>4, <2>5, <2>6 DEF OneOwner
<1>4. FlagsOK'
  BY SMTT(60) DEF TypeOK, OwnOK, OneOwner, FlagsOK, Holding
<1>5. QueueOK'
  BY DEF TypeOK, OwnOK, OneOwner, QueueOK, Holding
<1>6. SleepOK'
  BY DEF TypeOK, OwnOK, OneOwner, SleepOK, Holding
<1>7. PanicOnlyWhenFull'
  BY ZenonT(30) DEF PanicOnlyWhenFull
<1> QED BY ZenonT(30), <1>1, <1>2, <1>3, <1>4, <1>5, <1>6, <1>7

(* bget() finds the sector cached.                                         *)
LEMMA HitStep ==
  ASSUME ControlInv, NEW p \in Proc, BgetHit(p)
  PROVE  ControlInv'
<1> USE BufFacts DEF ControlInv, BgetHit, Take, cache, drive, procs, At, Goto
<1>1. TypeOK'
  <2> USE DEF TypeOK
  <2>1. PICK b \in Buf : \/ Take(p, b) /\ UNCHANGED asleep
                         \/ /\ asleep' = [asleep EXCEPT ![p] = b]
                            /\ UNCHANGED <<busy, mine, pc>>
    BY ZenonT(30)
  <2>2. busy' \in [Buf -> BOOLEAN] BY ZenonT(30), <2>1
  <2>3. mine' \in [Proc -> Buf \cup {0}] /\ asleep' \in [Proc -> Buf \cup {0}]
    BY <2>1
  <2>4. pc' \in [Proc -> Labels] BY ZenonT(30), <2>1 DEF Labels, Holding
  <2> QED BY ZenonT(30), <2>2, <2>3, <2>4
<1>2. ListOK'
  BY ZenonT(30) DEF TypeOK, ListOK
<1>3. OwnOK'
  <2>1. PICK b \in Buf :
           /\ sector[b] = want[p]
           /\ \/ ~busy[b] /\ Take(p, b) /\ UNCHANGED asleep
              \/ UNCHANGED <<busy, mine, pc>>
    BY ZenonT(30)
  <2>2. CASE UNCHANGED <<busy, mine, pc>>
    BY <2>2 DEF OwnOK, OneBufferPerSector, OneOwner
  <2>3. CASE ~busy[b] /\ Take(p, b)
    <3> USE DEF TypeOK, OwnOK, Holding
    <3>1. OneBufferPerSector' BY ZenonT(30) DEF OneBufferPerSector
    <3>2. \A q \in Proc : mine[q] # b BY ZenonT(30), <2>3 DEF OneOwner
    <3>3. mine[p] = 0 BY ZenonT(30)
    <3>4. \A q \in Proc : mine'[q] = IF q = p THEN b ELSE mine[q] BY <2>3
    <3>5. \A q, r \in Proc : mine'[q] # 0 /\ mine'[q] = mine'[r] => q = r
      BY SMTT(60), <3>2, <3>4 DEF OneOwner
    <3>6. \A c \in Buf : busy'[c] <=> \E q \in Proc : mine'[q] = c
      BY SMTT(60), <2>3, <3>2, <3>3, <3>4 DEF OneOwner
    <3>7. \A q \in Proc : mine'[q] # 0 => sector'[mine'[q]] = want'[q]
      BY <2>1, <3>4 DEF OneOwner
    <3>8. \A q \in Proc : mine'[q] # 0 <=> pc'[q] \in Holding
      BY ZenonT(30), <2>3, <3>4
    <3>9. \A q \in Proc : pc'[q] # "idle" <=> want'[q] # NoSector
      BY <2>3
    <3> QED BY ZenonT(30), <3>1, <3>5, <3>6, <3>7, <3>8, <3>9 DEF OneOwner
  <2> QED BY ZenonT(30), <2>1, <2>2, <2>3
<1>4. FlagsOK'
  BY SMTT(60) DEF TypeOK, OwnOK, OneOwner, FlagsOK, Holding
<1>5. QueueOK'
  BY SMTT(60) DEF TypeOK, OwnOK, OneOwner, QueueOK, Holding
<1>6. SleepOK'
  BY DEF TypeOK, OwnOK, OneOwner, SleepOK, Holding
<1>7. PanicOnlyWhenFull'
  BY ZenonT(30) DEF PanicOnlyWhenFull
<1> QED BY ZenonT(30), <1>1, <1>2, <1>3, <1>4, <1>5, <1>6, <1>7

(* bget() recycles a buffer.                                               *)
LEMMA RecycleStep ==
  ASSUME ControlInv, NEW p \in Proc, BgetRecycle(p)
  PROVE  ControlInv'
<1> USE BufFacts DEF ControlInv, BgetRecycle, Take, Reusable, cache, drive, procs, At, Goto
<1>1. TypeOK'
  BY DEF TypeOK, Labels, Holding
<1>2. ListOK'
  BY ZenonT(30) DEF TypeOK, ListOK
<1>3. OwnOK'
  BY SMTT(60) DEF TypeOK, OwnOK, OneBufferPerSector, OneOwner, Holding
<1>4. FlagsOK'
  BY SMTT(60) DEF TypeOK, OwnOK, OneOwner, FlagsOK, Holding
<1>5. QueueOK'
  BY SMTT(60), QueueElems DEF TypeOK, OwnOK, OneOwner, QueueOK, Holding
<1>6. SleepOK'
  BY DEF TypeOK, OwnOK, OneOwner, SleepOK, Holding
<1>7. PanicOnlyWhenFull'
  BY ZenonT(30) DEF PanicOnlyWhenFull
<1> QED BY ZenonT(30), <1>1, <1>2, <1>3, <1>4, <1>5, <1>6, <1>7

(* bget() finds every buffer busy or dirty.                                *)
LEMMA BgetPanicStep ==
  ASSUME ControlInv, NEW p \in Proc, BgetPanic(p)
  PROVE  ControlInv'
<1> USE BufFacts DEF ControlInv, BgetPanic, Reusable, cache, drive, procs, At, Goto
<1>1. TypeOK'
  BY ZenonT(30) DEF TypeOK
<1>2. ListOK'
  BY ZenonT(30) DEF TypeOK, ListOK
<1>3. OwnOK'
  <2>1. UNCHANGED <<sector, busy, mine, want, pc>> BY ZenonT(30)
  <2>2. OwnOK BY ZenonT(30)
  <2> QED BY ONLY ZenonT(30), <2>1, <2>2 DEF OwnOK, OneBufferPerSector, OneOwner
<1>4. FlagsOK'
  BY ZenonT(30) DEF TypeOK, OwnOK, OneOwner, FlagsOK, Holding
<1>5. QueueOK'
  <2>1. UNCHANGED <<queue, hw, disk, sector, valid, dirty, data, mine, pc>>
    BY ZenonT(30)
  <2>2. Elems(queue)' = Elems(queue) /\ Distinct(queue)' = Distinct(queue)
    BY ZenonT(30), <2>1 DEF Elems, Distinct
  <2>3. QueueOK BY ZenonT(30)
  <2> QED BY ONLY ZenonT(30), <2>1, <2>2, <2>3 DEF QueueOK
<1>6. SleepOK'
  BY ZenonT(30) DEF TypeOK, OwnOK, OneOwner, SleepOK, Holding
<1>7. PanicOnlyWhenFull'
  <2>1. ASSUME NEW b \in Buf PROVE busy[b] \/ dirty[b]
    <3>1. PICK i \in Buf : lru[i] = b BY ZenonT(30) DEF ListOK
    <3>2. i \notin Reusable BY ZenonT(30)
    <3> QED BY ZenonT(30), <3>1, <3>2
  <2>2. ASSUME NEW b \in Buf
        PROVE  b \in Pinned \/ \E q \in Proc : mine[q] = b
    BY ZenonT(30), <2>1, <2>2 DEF OwnOK, OneOwner, Pinned
  <2>3. Pinned' = Pinned BY ZenonT(30) DEF Pinned
  <2> QED BY ZenonT(30), <2>2, <2>3 DEF PanicOnlyWhenFull
<1> QED BY ZenonT(30), <1>1, <1>2, <1>3, <1>4, <1>5, <1>6, <1>7

(* bread() looks at B_VALID.                                               *)
LEMMA ValidStep ==
  ASSUME ControlInv, NEW p \in Proc, BreadValid(p)
  PROVE  ControlInv'
<1> USE BufFacts DEF ControlInv, BreadValid, cache, drive, procs, At, Goto
<1>1. TypeOK'
  BY ZenonT(30) DEF TypeOK, Labels, Holding
<1>2. ListOK'
  BY ZenonT(30) DEF TypeOK, ListOK
<1>3. OwnOK'
  BY SMTT(60) DEF TypeOK, OwnOK, OneBufferPerSector, OneOwner, Holding
<1>4. FlagsOK'
  BY SMTT(60) DEF TypeOK, OwnOK, OneOwner, FlagsOK, Holding
<1>5. QueueOK'
  BY SMTT(60) DEF TypeOK, OwnOK, OneOwner, QueueOK, Holding
<1>6. SleepOK'
  BY DEF TypeOK, OwnOK, OneOwner, SleepOK, Holding
<1>7. PanicOnlyWhenFull'
  BY ZenonT(30) DEF PanicOnlyWhenFull
<1> QED BY ZenonT(30), <1>1, <1>2, <1>3, <1>4, <1>5, <1>6, <1>7

(* iderw() queues the buffer.                                              *)
LEMMA IderwStep ==
  ASSUME ControlInv, NEW p \in Proc, Iderw(p)
  PROVE  ControlInv'
<1> USE BufFacts DEF ControlInv, Iderw, cache, drive, procs, At, Goto
<1>a. mine[p] \in Buf /\ busy[mine[p]] /\ (~valid[mine[p]] \/ dirty[mine[p]])
  BY SMTT(60) DEF TypeOK, OwnOK, OneOwner, FlagsOK, Holding
<1>c. mine[p] \notin Elems(queue)
  BY <1>a DEF QueueOK, OwnOK, OneOwner
<1>d. /\ queue' = Append(queue, mine[p])
      /\ hw' = IF queue = <<>> THEN Command(mine[p], dirty[mine[p]]) ELSE hw
      /\ asleep' = [asleep EXCEPT ![p] = mine[p]]
      /\ pc' = [pc EXCEPT ![p] = "iowait"]
      /\ UNCHANGED panicked
  BY ZenonT(30), <1>a
<1>b. /\ queue' \in Seq(Buf) /\ queue' # <<>>
      /\ Elems(queue)' = Elems(queue) \cup {mine[p]}
      /\ Distinct(queue)'
      /\ Head(queue)' = IF queue = <<>> THEN mine[p] ELSE Head(queue)
  <2>1. queue \in Seq(Buf) /\ Distinct(queue) BY ZenonT(30) DEF TypeOK, QueueOK
  <2>2. /\ Append(queue, mine[p]) \in Seq(Buf)
        /\ Append(queue, mine[p]) # <<>>
        /\ Elems(Append(queue, mine[p])) = Elems(queue) \cup {mine[p]}
        /\ Distinct(Append(queue, mine[p]))
        /\ Head(Append(queue, mine[p]))
             = IF queue = <<>> THEN mine[p] ELSE Head(queue)
    BY ONLY <2>1, <1>a, <1>c, AppendFacts, SMTT(60)
  <2>3. Elems(queue)' = Elems(queue') /\ Distinct(queue)' = Distinct(queue')
    BY ZenonT(30) DEF Elems, Distinct
  <2> QED BY ONLY ZenonT(30), <2>2, <2>3, <1>d
<1>1. TypeOK'
  <2>1. hw' \in [st : {"idle", "busy", "done"}, op : {"read", "write"},
                 s : Maybe, v : Data]
    BY ZenonT(30), <1>a, <1>d DEF TypeOK, Command
  <2>2. pc' \in [Proc -> Labels] /\ asleep' \in [Proc -> Buf \cup {0}]
    BY ZenonT(30), <1>a, <1>d DEF TypeOK, Labels, Holding
  <2> QED BY ZenonT(30), <1>b, <2>1, <2>2 DEF TypeOK
<1>2. ListOK'
  BY ZenonT(30) DEF TypeOK, ListOK
<1>3. OwnOK'
  BY SMTT(60) DEF TypeOK, OwnOK, OneBufferPerSector, OneOwner, Holding
<1>4. FlagsOK'
  BY <1>a, <1>b, SMTT(60) DEF TypeOK, OwnOK, OneOwner, FlagsOK, Holding
<1>5. QueueOK'
  BY <1>a, <1>b, <1>c, QueueElems, SMTT(60) DEF TypeOK, OwnOK, OneOwner, QueueOK, Holding, Command
<1>6. SleepOK'
  BY <1>a, <1>b, SMTT(60) DEF TypeOK, OwnOK, OneOwner, SleepOK, Holding
<1>7. PanicOnlyWhenFull'
  BY ZenonT(30), <1>a DEF PanicOnlyWhenFull
<1> QED BY ZenonT(30), <1>1, <1>2, <1>3, <1>4, <1>5, <1>6, <1>7

(* A process wakes in iderw().                                             *)
LEMMA WokenStep ==
  ASSUME ControlInv, NEW p \in Proc, IderwWoken(p)
  PROVE  ControlInv'
<1> USE BufFacts DEF ControlInv, IderwWoken, cache, drive, procs, At, Goto
<1>1. TypeOK'
  BY ZenonT(60) DEF TypeOK, Labels, Holding
<1>2. ListOK'
  BY ZenonT(30) DEF TypeOK, ListOK
<1>3. OwnOK'
  BY DEF TypeOK, OwnOK, OneBufferPerSector, OneOwner, Holding
<1>4. FlagsOK'
  BY SMTT(60) DEF TypeOK, OwnOK, OneOwner, FlagsOK, Holding
<1>5. QueueOK'
  BY SMTT(60) DEF TypeOK, OwnOK, OneOwner, QueueOK, Holding
<1>6. SleepOK'
  <2>1. mine[p] # 0 BY ZenonT(30) DEF OwnOK, Holding
  <2>2. CASE valid[mine[p]] /\ ~dirty[mine[p]]
    <3>1. asleep' = asleep /\ pc' = [pc EXCEPT ![p] = "own"] BY ZenonT(30), <2>2
    <3>2. \A q \in Proc : asleep'[q] # 0 => q # p BY ZenonT(30), <3>1
    <3> QED BY <3>1, <3>2, SMTT(60) DEF TypeOK, SleepOK, Elems
  <2>3. CASE ~(valid[mine[p]] /\ ~dirty[mine[p]])
    <3>1. asleep' = [asleep EXCEPT ![p] = mine[p]] /\ pc' = pc BY ZenonT(30), <2>3
    <3>2. mine[p] \in Elems(queue) BY ZenonT(30), <2>3 DEF FlagsOK
    <3> QED BY <3>1, <3>2, SMTT(60) DEF TypeOK, SleepOK, Elems
  <2> QED BY ZenonT(30), <2>2, <2>3
<1>7. PanicOnlyWhenFull'
  BY ZenonT(30) DEF PanicOnlyWhenFull
<1> QED BY ZenonT(30), <1>1, <1>2, <1>3, <1>4, <1>5, <1>6, <1>7

(* The drive finishes its command.                                         *)
LEMMA DriveStep ==
  ASSUME ControlInv, DriveDone
  PROVE  ControlInv'
<1> USE BufFacts DEF ControlInv, DriveDone, cache, drive, procs, At, Goto
<1>1. TypeOK'
  <2> USE DEF TypeOK
  <2>1. hw' \in [st : {"idle", "busy", "done"}, op : {"read", "write"},
                 s : Maybe, v : Data]
    BY ZenonT(30)
  <2>2. disk' \in [Sector -> Data] BY ZenonT(30)
  <2> QED BY ZenonT(30), <2>1, <2>2
<1>2. ListOK'
  BY ZenonT(30) DEF TypeOK, ListOK
<1>3. OwnOK'
  BY DEF TypeOK, OwnOK, OneBufferPerSector, OneOwner, Holding
<1>4. FlagsOK'
  BY ZenonT(30) DEF TypeOK, OwnOK, OneOwner, FlagsOK, Holding
<1>5. QueueOK'
  <2>1. Elems(queue)' = Elems(queue) /\ Distinct(queue)' = Distinct(queue)
    BY ZenonT(30) DEF Elems, Distinct
  <2>2. hw'.st = "done" /\ hw'.op = hw.op /\ hw'.s = hw.s /\ hw'.v = hw.v
    BY ZenonT(30) DEF TypeOK
  <2>3. queue # <<>> BY ZenonT(30) DEF QueueOK
  <2>4. Head(queue) \in Buf /\ Head(queue) \in Elems(queue)
    BY ZenonT(30), <2>3, QueueElems
  <2>5. ASSUME dirty[Head(queue)] PROVE disk'[hw.s] = data[Head(queue)]
    <3>1. hw.op = "write" /\ hw.v = data[Head(queue)] /\ hw.s = sector[Head(queue)]
      BY ZenonT(30), <2>3, <2>5 DEF QueueOK
    <3>2. hw.s \in Sector
      BY ZenonT(30), <2>4, <2>5, <3>1 DEF TypeOK, FlagsOK, Maybe
    <3> QED BY ZenonT(30), <3>1, <3>2 DEF TypeOK
  <2> QED BY ZenonT(30), <2>1, <2>2, <2>3, <2>5 DEF QueueOK
<1>6. SleepOK'
  BY ZenonT(30) DEF TypeOK, OwnOK, OneOwner, SleepOK, Holding
<1>7. PanicOnlyWhenFull'
  BY ZenonT(30) DEF PanicOnlyWhenFull
<1> QED BY ZenonT(30), <1>1, <1>2, <1>3, <1>4, <1>5, <1>6, <1>7

(* ideintr() completes the head of the queue.                              *)
LEMMA IntrStep ==
  ASSUME ControlInv, ideintr
  PROVE  ControlInv'
<1> USE BufFacts DEF ControlInv, ideintr, cache, drive, procs, At, Goto
<1>a. /\ Head(queue) \in Buf /\ Head(queue) \in Elems(queue)
      /\ queue' \in Seq(Buf) /\ Distinct(queue)'
      /\ Elems(queue)' = Elems(queue) \ {Head(queue)}
      /\ queue' # <<>> => Head(queue') \in Elems(queue)'
      /\ Elems(queue) \subseteq Buf
  BY ZenonT(30), TailFacts, QueueElems DEF TypeOK, QueueOK
<1>1. TypeOK'
  <2> USE DEF TypeOK
  <2>1. ASSUME NEW b \in Buf, NEW d \in BOOLEAN
        PROVE  Command(b, d) \in [st : {"idle", "busy", "done"},
                 op : {"read", "write"}, s : Maybe, v : Data]
    BY ZenonT(30) DEF Command
  <2>2. Idle \in [st : {"idle", "busy", "done"}, op : {"read", "write"},
                  s : Maybe, v : Data]
    BY ZenonT(30) DEF Idle, Maybe, Data
  <2>3. hw' \in [st : {"idle", "busy", "done"}, op : {"read", "write"},
                 s : Maybe, v : Data]
    BY ZenonT(30), <1>a, <2>1, <2>2
  <2>4. data' \in [Buf -> Data]
    <3>1. CASE UNCHANGED data BY ZenonT(30), <3>1
    <3>2. CASE ~dirty[Head(queue)] /\ data' = [data EXCEPT ![Head(queue)] = disk[hw.s]]
      <4>1. hw.s \in Sector BY ZenonT(30), <1>a, QueueSector DEF QueueOK
      <4> QED BY ZenonT(30), <1>a, <3>2, <4>1
    <3> QED BY ZenonT(30), <3>1, <3>2
  <2>5. valid' \in [Buf -> BOOLEAN] /\ dirty' \in [Buf -> BOOLEAN] BY ZenonT(30), <1>a
  <2>6. asleep' \in [Proc -> Buf \cup {0}] BY ZenonT(30) DEF Wakeup
  <2> QED BY ZenonT(30), <1>a, <2>3, <2>4, <2>5, <2>6
<1>2. ListOK'
  BY ZenonT(30) DEF TypeOK, ListOK
<1>3. OwnOK'
  BY SMTT(60) DEF TypeOK, OwnOK, OneBufferPerSector, OneOwner, Holding
<1>4. FlagsOK'
  BY <1>a, SMTT(60) DEF TypeOK, OwnOK, OneOwner, FlagsOK, Holding, QueueOK
<1>5. QueueOK'
  <2> DEFINE h == Head(queue)
  <2>0. /\ data' = [data EXCEPT ![h] = disk[hw.s]] \/ data' = data
        /\ valid' = [valid EXCEPT ![h] = TRUE]
        /\ dirty' = [dirty EXCEPT ![h] = FALSE]
        /\ UNCHANGED <<sector, mine, pc>>
        /\ queue' = <<>> => hw' = Idle
        /\ queue' # <<>> => hw' = Command(Head(queue'), dirty[Head(queue')])
    BY ZenonT(30)
  <2>1. /\ h \in Buf /\ Distinct(queue)'
        /\ \A b \in Elems(queue)' : b \in Elems(queue) /\ b # h /\ b \in Buf
        /\ queue' # <<>> => Head(queue)' \in Elems(queue)'
    BY ONLY ZenonT(30), <1>a
  <2>t. /\ valid \in [Buf -> BOOLEAN] /\ dirty \in [Buf -> BOOLEAN]
        /\ data \in [Buf -> Data] /\ QueueOK
    BY ZenonT(30) DEF TypeOK
  <2> HIDE DEF h
  <2>2. ASSUME NEW b \in Elems(queue)'
        PROVE  dirty'[b] = dirty[b] /\ valid'[b] = valid[b] /\ data'[b] = data[b]
    BY ONLY ZenonT(30), <2>0, <2>1, <2>t, <2>2
  <2>3. ASSUME NEW b \in Elems(queue)'
        PROVE  /\ \E q \in Proc : mine'[q] = b /\ pc'[q] = "iowait"
               /\ dirty'[b] \/ ~valid'[b]
    BY ONLY <2>0, <2>1, <2>t, <2>2, <2>3, SMTT(60) DEF QueueOK
  <2>4. CASE queue' = <<>>
    <3>1. hw'.st = "idle" BY ONLY <2>0, <2>4, SMTT(60) DEF Idle
    <3> QED BY ONLY ZenonT(30), <2>1, <2>3, <2>4, <3>1 DEF QueueOK
  <2>5. CASE queue' # <<>>
    <3> DEFINE c == Head(queue')
    <3>1. hw' = Command(c, dirty[c]) /\ c \in Elems(queue)' /\ c \in Buf
      BY ONLY ZenonT(30), <2>0, <2>1, <2>5
    <3>2. dirty'[c] = dirty[c] /\ data'[c] = data[c] /\ dirty[c] \in BOOLEAN
      BY ONLY ZenonT(30), <2>2, <2>t, <3>1
    <3> HIDE DEF c
    <3>3. /\ hw'.st = "busy" /\ hw'.s = sector'[c]
          /\ hw'.op = "write" <=> dirty'[c]
          /\ hw'.v = data'[c]
      <4>1. /\ hw'.st = "busy" /\ hw'.s = sector[c] /\ hw'.v = data[c]
            /\ hw'.op = IF dirty[c] THEN "write" ELSE "read"
        BY ONLY ZenonT(30), <3>1 DEF Command
      <4>2. sector' = sector BY ONLY ZenonT(30), <2>0
      <4>3. hw'.op = "write" <=> dirty[c] BY ONLY ZenonT(30), <3>2, <4>1
      <4> QED BY ONLY ZenonT(30), <3>2, <4>1, <4>2, <4>3
    <3>4. c = Head(queue)' BY ZenonT(30) DEF c
    <3> QED BY ONLY ZenonT(30), <2>1, <2>3, <2>5, <3>3, <3>4 DEF QueueOK
  <2> QED BY ONLY ZenonT(30), <2>4, <2>5
<1>6. SleepOK'
  BY ZenonT(30), <1>a DEF TypeOK, OwnOK, OneOwner, SleepOK, Holding, Wakeup
<1>7. PanicOnlyWhenFull'
  BY ZenonT(30) DEF PanicOnlyWhenFull
<1> QED BY ZenonT(30), <1>1, <1>2, <1>3, <1>4, <1>5, <1>6, <1>7

(* The owner calls bwrite().                                               *)
LEMMA BwriteStep ==
  ASSUME ControlInv, NEW p \in Proc, NEW v \in Val, Bwrite(p, v)
  PROVE  ControlInv'
<1> USE BufFacts DEF ControlInv, Bwrite, cache, drive, procs, At, Goto
<1>1. TypeOK'
  <2> USE DEF TypeOK
  <2>1. data' \in [Buf -> Data] /\ latest' \in [Sector -> Data] BY ZenonT(30) DEF Data
  <2>2. dirty' \in [Buf -> BOOLEAN] /\ pc' \in [Proc -> Labels]
    BY ZenonT(30) DEF Labels, Holding
  <2> QED BY ZenonT(30), <2>1, <2>2
<1>2. ListOK'
  BY ZenonT(30) DEF TypeOK, ListOK
<1>3. OwnOK'
  BY SMTT(60) DEF TypeOK, OwnOK, OneBufferPerSector, OneOwner, Holding
<1>4. FlagsOK'
  BY SMTT(60) DEF TypeOK, OwnOK, OneOwner, FlagsOK, Holding
<1>5. QueueOK'
  BY QueueElems, SMTT(60) DEF TypeOK, OwnOK, OneOwner, QueueOK, Holding
<1>6. SleepOK'
  BY SMTT(60) DEF TypeOK, OwnOK, OneOwner, SleepOK, Holding
<1>7. PanicOnlyWhenFull'
  BY ZenonT(30) DEF PanicOnlyWhenFull
<1> QED BY ZenonT(30), <1>1, <1>2, <1>3, <1>4, <1>5, <1>6, <1>7

(* The owner pins the buffer (log_write()).                                *)
LEMMA PinStep ==
  ASSUME ControlInv, NEW p \in Proc, NEW v \in Val, Pin(p, v)
  PROVE  ControlInv'
<1> USE BufFacts DEF ControlInv, Pin, cache, drive, procs, At, Goto
<1>1. TypeOK'
  <2> USE DEF TypeOK
  <2>1. data' \in [Buf -> Data] /\ latest' \in [Sector -> Data] BY ZenonT(30) DEF Data
  <2>2. dirty' \in [Buf -> BOOLEAN] /\ pc' \in [Proc -> Labels]
    BY ZenonT(30) DEF Labels, Holding
  <2> QED BY ZenonT(30), <2>1, <2>2
<1>2. ListOK'
  BY ZenonT(30) DEF TypeOK, ListOK
<1>3. OwnOK'
  BY SMTT(60) DEF TypeOK, OwnOK, OneBufferPerSector, OneOwner, Holding
<1>4. FlagsOK'
  BY SMTT(60) DEF TypeOK, OwnOK, OneOwner, FlagsOK, Holding
<1>5. QueueOK'
  BY QueueElems, SMTT(60) DEF TypeOK, OwnOK, OneOwner, QueueOK, Holding
<1>6. SleepOK'
  BY ZenonT(30) DEF TypeOK, OwnOK, OneOwner, SleepOK, Holding
<1>7. PanicOnlyWhenFull'
  BY ZenonT(30) DEF PanicOnlyWhenFull
<1> QED BY ZenonT(30), <1>1, <1>2, <1>3, <1>4, <1>5, <1>6, <1>7

(* brelse() gives the buffer up.                                           *)
LEMMA BrelseStep ==
  ASSUME ControlInv, NEW p \in Proc, Brelse(p)
  PROVE  ControlInv'
<1> USE BufFacts DEF ControlInv, Brelse, cache, drive, procs, At, Goto
<1>a. mine[p] \in Buf /\ busy[mine[p]]
  BY SMTT(60) DEF TypeOK, OwnOK, OneOwner, Holding
<1>b. /\ lru' = MovedToHead(mine[p])
      /\ busy' = [busy EXCEPT ![mine[p]] = FALSE]
      /\ asleep' = Wakeup(mine[p])
      /\ mine' = [mine EXCEPT ![p] = 0]
      /\ want' = [want EXCEPT ![p] = NoSector]
      /\ pc' = [pc EXCEPT ![p] = "idle"]
  BY ZenonT(30), <1>a
<1>c. /\ lru' \in [Buf -> Buf]
      /\ \A c \in Buf : \E i \in Buf : lru'[i] = c
  <2>1. lru \in [Buf -> Buf] BY ZenonT(30) DEF TypeOK
  <2>2. /\ MovedToHead(mine[p]) \in [Buf -> Buf]
        /\ \A c \in Buf : \E i \in Buf : MovedToHead(mine[p])[i] = c
    <3>1. ListOK BY ZenonT(30)
    <3> QED BY ONLY ZenonT(30), <2>1, <3>1, <1>a, MovedKeepsAll
  <2> QED BY ONLY ZenonT(30), <2>2, <1>b
<1>1. TypeOK'
  <2>1. busy' \in [Buf -> BOOLEAN] BY ZenonT(30), <1>a, <1>b DEF TypeOK
  <2>2. asleep' \in [Proc -> Buf \cup {0}] BY ZenonT(30), <1>b DEF TypeOK, Wakeup
  <2>3. /\ mine' \in [Proc -> Buf \cup {0}] /\ want' \in [Proc -> Maybe]
        /\ pc' \in [Proc -> Labels]
    BY ZenonT(30), <1>b DEF TypeOK, Maybe, Labels
  <2> QED BY ZenonT(30), <1>c, <2>1, <2>2, <2>3 DEF TypeOK
<1>2. ListOK'
  BY ZenonT(30), <1>c DEF ListOK
<1>3. OwnOK'
  <2> USE DEF TypeOK, OwnOK, Holding
  <2>1. OneBufferPerSector'
    BY ZenonT(30), <1>a, <1>b DEF OneBufferPerSector
  <2>2. \A q, r \in Proc : mine'[q] # 0 /\ mine'[q] = mine'[r] => q = r
    BY SMTT(60), <1>a, <1>b DEF OneOwner
  <2>3. \A b \in Buf : busy'[b] <=> \E q \in Proc : mine'[q] = b
    BY <1>a, <1>b, SMTT(60) DEF OneOwner
  <2>4. \A q \in Proc : mine'[q] # 0 => sector'[mine'[q]] = want'[q]
    BY SMTT(60), <1>a, <1>b DEF OneOwner
  <2>5. \A q \in Proc : mine'[q] # 0 <=> pc'[q] \in Holding
    BY <1>a, <1>b DEF OneOwner
  <2>6. \A q \in Proc : pc'[q] # "idle" <=> want'[q] # NoSector
    BY ZenonT(30), <1>a, <1>b DEF OneOwner
  <2> QED BY ZenonT(30), <2>1, <2>2, <2>3, <2>4, <2>5, <2>6 DEF OneOwner
<1>4. FlagsOK'
  BY SMTT(60) DEF TypeOK, OwnOK, OneOwner, FlagsOK, Holding
<1>5. QueueOK'
  BY SMTT(60) DEF TypeOK, OwnOK, OneOwner, QueueOK, Holding
<1>6. SleepOK'
  BY <1>a, SMTT(60) DEF TypeOK, OwnOK, OneOwner, SleepOK, Holding, Wakeup
<1>7. PanicOnlyWhenFull'
  BY ZenonT(30), <1>a DEF PanicOnlyWhenFull
<1> QED BY ZenonT(30), <1>1, <1>2, <1>3, <1>4, <1>5, <1>6, <1>7

-----------------------------------------------------------------------------
(* A step that changes nothing keeps the control part of the invariant.    *)
LEMMA StutterStep ==
  ASSUME ControlInv, UNCHANGED vars
  PROVE  ControlInv'
<1>1. Elems(queue)' = Elems(queue) /\ Distinct(queue)' = Distinct(queue)
  BY ZenonT(30) DEF vars, drive, Elems, Distinct
<1> USE DEF ControlInv, vars, cache, drive, procs
<1>2. TypeOK' BY ZenonT(30) DEF TypeOK
<1>3. ListOK' BY ZenonT(30) DEF ListOK
<1>4. OwnOK' BY ZenonT(30) DEF OwnOK, OneBufferPerSector, OneOwner
<1>5. FlagsOK' BY ZenonT(30), <1>1 DEF FlagsOK
<1>6. QueueOK' BY ZenonT(30), <1>1 DEF QueueOK
<1>7. SleepOK' BY ZenonT(30), <1>1 DEF SleepOK
<1>8. PanicOnlyWhenFull' BY ZenonT(30) DEF PanicOnlyWhenFull, Pinned
<1> QED BY ZenonT(30), <1>2, <1>3, <1>4, <1>5, <1>6, <1>7, <1>8

(* Every step of the cache and the driver keeps it.                        *)
LEMMA ControlStep ==
  ASSUME ControlInv, [Next]_vars
  PROVE  ControlInv'
<1>1. CASE UNCHANGED vars BY ZenonT(30), <1>1, StutterStep
<1>2. CASE DriveDone BY ZenonT(30), <1>2, DriveStep
<1>3. CASE ideintr BY ZenonT(30), <1>3, IntrStep
<1>4. CASE IdeintrSpurious BY ZenonT(30), <1>4, StutterStep DEF IdeintrSpurious
<1>5. CASE Panic BY ZenonT(30), <1>5, StutterStep DEF Panic
<1>6. ASSUME NEW p \in Proc, Step(p) PROVE ControlInv'
  BY ZenonT(30), <1>6, HitStep, RecycleStep, BgetPanicStep, ValidStep, IderwStep,
     WokenStep, BrelseStep DEF Step
<1>7. ASSUME NEW p \in Proc, NEW s \in Sector, Bread(p, s) PROVE ControlInv'
  BY ZenonT(30), <1>7, BreadStep
<1>8. ASSUME NEW p \in Proc, NEW v \in Val, Bwrite(p, v) \/ Pin(p, v)
      PROVE  ControlInv'
  BY ZenonT(30), <1>8, BwriteStep, PinStep
<1> QED BY ZenonT(30), <1>1, <1>2, <1>3, <1>4, <1>5, <1>6, <1>7, <1>8 DEF Next

(* Storing through the owned buffer changes what its sector should hold    *)
(* and the buffer together (bwrite() and log_write()).                     *)
LEMMA StoreData ==
  ASSUME ControlInv, DataOK, NEW p \in Proc, NEW v \in Val, pc[p] = "own",
         data' = [data EXCEPT ![mine[p]] = v],
         dirty' = [dirty EXCEPT ![mine[p]] = TRUE],
         latest' = [latest EXCEPT ![want[p]] = v],
         UNCHANGED <<sector, valid, disk>>
  PROVE  DataOK'
<1> USE BufFacts DEF ControlInv
<1>1. /\ mine[p] \in Buf /\ valid[mine[p]]
      /\ sector[mine[p]] = want[p] /\ want[p] \in Sector
  BY SMTT(60) DEF TypeOK, OwnOK, OneOwner, FlagsOK, Holding, Maybe
<1>2. ASSUME NEW b \in Buf, valid[b] PROVE data'[b] = latest'[sector[b]]
  <2>1. CASE b = mine[p] BY ZenonT(30), <1>1, <2>1 DEF TypeOK
  <2>2. CASE b # mine[p]
    <3>1. sector[b] # want[p]
      BY ZenonT(30), <1>1, <1>2, <2>2 DEF OwnOK, OneBufferPerSector
    <3>2. sector[b] \in Sector BY ZenonT(30), <1>2 DEF TypeOK, FlagsOK, Maybe
    <3> QED BY ZenonT(30), <1>1, <1>2, <2>2, <3>1, <3>2 DEF TypeOK, DataOK
  <2> QED BY ZenonT(30), <2>1, <2>2
<1>3. ASSUME NEW s \in Sector
      PROVE  disk[s] = latest'[s] \/ \E b \in Buf : sector[b] = s /\ dirty'[b]
  <2>1. CASE s = want[p] BY ZenonT(30), <1>1, <2>1 DEF TypeOK
  <2>2. CASE s # want[p]
    <3>1. latest'[s] = latest[s] BY ZenonT(30), <2>2 DEF TypeOK
    <3>2. \A b \in Buf : dirty[b] => dirty'[b] BY ZenonT(30), <1>1 DEF TypeOK
    <3> QED BY ZenonT(30), <3>1, <3>2 DEF DataOK
  <2> QED BY ZenonT(30), <2>1, <2>2
<1> QED BY ZenonT(30), <1>2, <1>3 DEF DataOK

(* The interrupt brings the head of the queue up to date, if reads do not  *)
(* fail (ideintr()).                                                       *)
LEMMA IntrData ==
  ASSUME ~ReadErrors, ControlInv, DataOK, ideintr
  PROVE  DataOK'
<1> DEFINE h == Head(queue)
<1>1. /\ queue # <<>> /\ hw.st = "done"
      /\ \/ ~dirty[h] /\ data' = [data EXCEPT ![h] = disk[hw.s]]
         \/ dirty[h] /\ data' = data
      /\ valid' = [valid EXCEPT ![h] = TRUE]
      /\ dirty' = [dirty EXCEPT ![h] = FALSE]
      /\ UNCHANGED <<sector, disk, latest>>
  BY ZenonT(30) DEF ideintr
<1>2. /\ h \in Buf /\ sector[h] \in Sector /\ hw.s = sector[h]
      /\ dirty[h] => disk[sector[h]] = data[h]
  BY ZenonT(30), <1>1, QueueElems, QueueSector DEF ControlInv, QueueOK
<1> HIDE DEF h
<1> USE DEF ControlInv, TypeOK
<1>3. \A b \in Buf : sector[b] = sector[h] => b = h
  BY ZenonT(30), <1>2, BufFacts DEF OwnOK, OneBufferPerSector
<1>4. disk[sector[h]] = latest[sector[h]]
  <2>1. CASE dirty[h]
    <3>1. valid[h] BY ZenonT(30), <1>2, <2>1 DEF FlagsOK
    <3> QED BY ZenonT(30), <1>2, <2>1, <3>1 DEF DataOK
  <2>2. CASE ~dirty[h] BY ZenonT(30), <1>2, <1>3, <2>2 DEF DataOK
  <2> QED BY ZenonT(30), <2>1, <2>2
<1>5. data'[h] = latest[sector[h]]
  BY ZenonT(30), <1>1, <1>2, <1>4
<1>6. ASSUME NEW b \in Buf, b # h
      PROVE  /\ data'[b] = data[b] /\ valid'[b] = valid[b]
             /\ dirty'[b] = dirty[b]
  BY ZenonT(30), <1>1, <1>2, <1>6
<1>7. ASSUME NEW b \in Buf, valid'[b] PROVE data'[b] = latest[sector[b]]
  <2>1. CASE b = h BY ZenonT(30), <1>5, <2>1
  <2>2. CASE b # h BY ZenonT(30), <1>6, <1>7, <2>2 DEF DataOK
  <2> QED BY ZenonT(30), <2>1, <2>2
<1>8. ASSUME NEW s \in Sector
      PROVE  disk[s] = latest[s] \/ \E b \in Buf : sector[b] = s /\ dirty'[b]
  <2>1. CASE s = sector[h] BY ZenonT(30), <1>4, <2>1
  <2>2. CASE s # sector[h]
    <3>1. disk[s] = latest[s] \/ \E b \in Buf : sector[b] = s /\ dirty[b]
      BY ZenonT(30) DEF DataOK
    <3>2. \A b \in Buf : sector[b] = s => b # h BY ZenonT(30), <2>2
    <3> QED BY ZenonT(30), <1>6, <3>1, <3>2
  <2> QED BY ZenonT(30), <2>1, <2>2
<1> QED BY ZenonT(30), <1>1, <1>7, <1>8 DEF DataOK

(* The drive writes what the head of the queue holds.                      *)
LEMMA DriveData ==
  ASSUME ControlInv, DataOK, DriveDone
  PROVE  DataOK'
<1> USE DEF ControlInv
<1>1. /\ UNCHANGED <<sector, valid, dirty, data, latest>>
      /\ disk' = IF hw.op = "write" THEN [disk EXCEPT ![hw.s] = hw.v] ELSE disk
  BY ZenonT(30) DEF DriveDone, cache
<1>2. CASE hw.op # "write" BY ZenonT(30), <1>1, <1>2 DEF DataOK
<1>3. CASE hw.op = "write"
  <2>1. queue # <<>> BY ZenonT(30) DEF DriveDone, QueueOK
  <2>2. PICK h \in Buf : /\ sector[h] \in Sector /\ hw.s = sector[h]
                         /\ dirty[h] /\ hw.v = data[h]
    BY ZenonT(30), <1>3, <2>1, QueueElems, QueueSector DEF QueueOK
  <2>3. hw.v = latest[hw.s] BY ZenonT(30), <2>2 DEF FlagsOK, DataOK
  <2>4. ASSUME NEW s \in Sector PROVE disk'[s] = IF s = hw.s THEN hw.v ELSE disk[s]
    BY ZenonT(30), <1>1, <1>3 DEF TypeOK
  <2> QED BY <1>1, <2>3, <2>4 DEF DataOK
<1> QED BY ZenonT(30), <1>2, <1>3

(* A recycled buffer was clean, so nothing but a copy is dropped (bget()). *)
LEMMA RecycleData ==
  ASSUME ControlInv, DataOK, NEW p \in Proc, BgetRecycle(p)
  PROVE  DataOK'
<1> USE DEF ControlInv, TypeOK
<1>1. PICK b \in Buf : /\ ~dirty[b]
                       /\ sector' = [sector EXCEPT ![b] = want[p]]
                       /\ dirty' = [dirty EXCEPT ![b] = FALSE]
                       /\ valid' = [valid EXCEPT ![b] = FALSE]
  BY ZenonT(30) DEF BgetRecycle, Reusable
<1>2. UNCHANGED <<data, disk, latest>> BY ZenonT(30) DEF BgetRecycle, drive
<1>3. ASSUME NEW c \in Buf, c # b
      PROVE  sector'[c] = sector[c] /\ dirty'[c] = dirty[c] /\ valid'[c] = valid[c]
  BY ZenonT(30), <1>1, <1>3
<1>4. ~valid'[b] BY ZenonT(30), <1>1
<1>5. ASSUME NEW c \in Buf, valid'[c] PROVE data[c] = latest[sector'[c]]
  BY <1>3, <1>4, <1>5, SMTT(60) DEF DataOK
<1>6. ASSUME NEW s \in Sector
      PROVE  disk[s] = latest[s] \/ \E c \in Buf : sector'[c] = s /\ dirty'[c]
  <2>1. disk[s] = latest[s] \/ \E c \in Buf : sector[c] = s /\ dirty[c]
    BY ZenonT(30) DEF DataOK
  <2> QED BY ZenonT(30), <1>1, <1>3, <2>1
<1> QED BY ZenonT(30), <1>2, <1>5, <1>6 DEF DataOK

(* Every step keeps the data part, if reads do not fail.                   *)
LEMMA DataStep ==
  ASSUME ~ReadErrors, ControlInv, DataOK, [Next]_vars
  PROVE  DataOK'
<1>1. ASSUME UNCHANGED <<sector, valid, dirty, data, disk, latest>>
      PROVE  DataOK'
  BY ZenonT(30), <1>1 DEF DataOK
<1>2. CASE UNCHANGED vars BY ZenonT(30), <1>1, <1>2 DEF vars, cache, drive
<1>3. CASE DriveDone BY ZenonT(30), <1>3, DriveData
<1>4. CASE ideintr BY ZenonT(30), <1>4, IntrData
<1>5. CASE IdeintrSpurious \/ Panic
  BY ZenonT(30), <1>1, <1>5 DEF IdeintrSpurious, Panic, vars, cache, drive
<1>6. ASSUME NEW p \in Proc, Step(p) PROVE DataOK'
  <2>1. CASE BgetRecycle(p) BY ZenonT(30), <2>1, RecycleData
  <2>2. CASE BgetHit(p) BY ZenonT(30), <1>1, <2>2 DEF BgetHit, drive
  <2>3. CASE BgetPanic(p) BY ZenonT(30), <1>1, <2>3 DEF BgetPanic, cache, drive
  <2>4. CASE BreadValid(p) BY ZenonT(30), <1>1, <2>4 DEF BreadValid, cache, drive
  <2>5. CASE Iderw(p) BY ZenonT(30), <1>1, <2>5 DEF Iderw, cache
  <2>6. CASE IderwWoken(p) BY ZenonT(30), <1>1, <2>6 DEF IderwWoken, cache, drive
  <2>7. CASE Brelse(p) BY ZenonT(30), <1>1, <2>7 DEF Brelse, drive
  <2> QED BY ZenonT(30), <1>6, <2>1, <2>2, <2>3, <2>4, <2>5, <2>6, <2>7 DEF Step
<1>7. ASSUME NEW p \in Proc, NEW s \in Sector, Bread(p, s) PROVE DataOK'
  BY ZenonT(30), <1>1, <1>7 DEF Bread, cache, drive
<1>8. ASSUME NEW p \in Proc, NEW v \in Val, Bwrite(p, v) PROVE DataOK'
  <2>1. /\ pc[p] = "own"
        /\ data' = [data EXCEPT ![mine[p]] = v]
        /\ dirty' = [dirty EXCEPT ![mine[p]] = TRUE]
        /\ latest' = [latest EXCEPT ![want[p]] = v]
        /\ UNCHANGED <<sector, valid, disk>>
    BY ZenonT(30), <1>8 DEF Bwrite, At, drive
  <2> QED BY ZenonT(30), <2>1, StoreData
<1>9. ASSUME NEW p \in Proc, NEW v \in Val, Pin(p, v) PROVE DataOK'
  <2>1. /\ pc[p] = "own"
        /\ data' = [data EXCEPT ![mine[p]] = v]
        /\ dirty' = [dirty EXCEPT ![mine[p]] = TRUE]
        /\ latest' = [latest EXCEPT ![want[p]] = v]
        /\ UNCHANGED <<sector, valid, disk>>
    BY ZenonT(30), <1>9 DEF Pin, At, drive
  <2> QED BY ZenonT(30), <2>1, StoreData
<1> QED BY ZenonT(30), <1>2, <1>3, <1>4, <1>5, <1>6, <1>7, <1>8, <1>9 DEF Next

-----------------------------------------------------------------------------
(* The control part of the invariant holds in every reachable state, with  *)
(* or without read errors.                                                 *)
THEOREM ControlInvariant == Spec => []ControlInv
<1>1. Init => ControlInv BY ZenonT(30), InitControl
<1>2. ControlInv /\ [Next]_vars => ControlInv' BY ZenonT(30), ControlStep
<1> QED BY <1>1, <1>2, PTL DEF Spec

(* The queue and the drive agree at every point of iderw(), idestart() and *)
(* ideintr(), whatever the drive answers.                                  *)
THEOREM QueueInStep == Spec => []QueueMatchesDrive
<1>1. ASSUME ControlInv PROVE QueueMatchesDrive
  <2>1. QueueOK BY ZenonT(30), <1>1 DEF ControlInv
  <2>2. \A i \in 1..Len(queue) : queue[i] \in Elems(queue) BY ZenonT(30) DEF Elems
  <2>3. \A i, j \in 1..Len(queue) : queue[i] = queue[j] => i = j
    BY ZenonT(30), <2>1 DEF QueueOK, Distinct
  <2> QED BY ZenonT(30), <2>1, <2>2, <2>3 DEF QueueOK, QueueMatchesDrive
<1> QED BY <1>1, ControlInvariant, PTL

(* No wakeup is lost although bget() and iderw() share a channel, whatever *)
(* the drive answers.                                                      *)
THEOREM WakeupsArrive == Spec => []NoLostWakeup
<1>1. ControlInv => NoLostWakeup
  BY ZenonT(30) DEF ControlInv, SleepOK, NoLostWakeup, Elems
<1> QED BY <1>1, ControlInvariant, PTL

(* If reads do not fail, the invariant on the data holds too.              *)
THEOREM DataInvariant ==
  ASSUME ~ReadErrors
  PROVE  Spec => []IInv
<1>1. Init => IInv BY ZenonT(30), InitControl DEF IInv
<1>2. IInv /\ [Next]_vars => IInv' BY ZenonT(30), ControlStep, DataStep DEF IInv
<1> QED BY <1>1, <1>2, PTL DEF Spec

(* If reads do not fail, bread() returns the last value stored in the      *)
(* sector.                                                                 *)
THEOREM BreadIsLatest ==
  ASSUME ~ReadErrors
  PROVE  Spec => []ReadsLatest
<1>1. IInv => ReadsLatest
  BY BufFacts, SMTT(60)
  DEF IInv, ControlInv, TypeOK, OwnOK, OneOwner, FlagsOK, DataOK, Holding, ReadsLatest
<1> QED BY <1>1, DataInvariant, PTL

(* If reads do not fail, the cache keeps what bread(), bwrite() and        *)
(* brelse() promise: one buffer for a sector, one process for a buffer,    *)
(* the disk's data in what is clean, no panic but bget()'s and that only   *)
(* when no buffer is free.                                                 *)
THEOREM CacheIsSound ==
  ASSUME ~ReadErrors
  PROVE  Spec => []BuffersSound
<1>1. ASSUME IInv PROVE CleanMatchesDisk
  <2> SUFFICES ASSUME NEW b \in Buf, valid[b], ~dirty[b]
               PROVE  data[b] = disk[sector[b]]
    BY ZenonT(30) DEF CleanMatchesDisk
  <2>1. sector[b] # NoSector /\ sector[b] \in Sector
    BY ZenonT(30), <1>1 DEF IInv, ControlInv, TypeOK, FlagsOK, Maybe
  <2>2. \A c \in Buf : sector[c] = sector[b] => c = b
    BY ZenonT(30), <1>1, <2>1 DEF IInv, ControlInv, OwnOK, OneBufferPerSector
  <2> QED BY ZenonT(30), <1>1, <2>1, <2>2 DEF IInv, DataOK
<1>2. IInv => BuffersSound
  BY ZenonT(30), <1>1 DEF IInv, ControlInv, OwnOK, BuffersSound
<1> QED BY <1>2, DataInvariant, PTL
=============================================================================
