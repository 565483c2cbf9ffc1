-------------------------- MODULE SpinlockProofs ----------------------------
(***************************************************************************)
(* The inductive invariant of Spinlock, the proofs that every step keeps   *)
(* it, and the theorems, for any number of CPUs and locks.                 *)
(***************************************************************************)
EXTENDS Spinlock, FiniteSets, FiniteSetTheorems, TLAPS

(* Labels between pushcli's increment of ncli and popcli's decrement, in a *)
(* call that is not counted in "held".                                     *)
InCall == {"check", "spin", "setcpu", "unlock", "popcli"}

(* The context owns the lock word: it has acquired the lock, or is between *)
(* an xchg and the bookkeeping beside it.                                  *)
Owns(c, x, l) == \/ l \in held[c][x]
                 \/ where[c][x] \in {"setcpu", "unlock"} /\ lk[c][x] = l

(* A lock word that is owned is 1 and has one owner.                       *)
OwnerOK ==
  /\ \A c \in CPU, x \in Ctx, l \in Lock : Owns(c, x, l) => locked[l] = 1
  /\ \A c, d \in CPU, x, y \in Ctx, l \in Lock :
       Owns(c, x, l) /\ Owns(d, y, l) => c = d /\ x = y
  /\ \A c \in CPU, x \in Ctx :
       where[c][x] \in {"setcpu", "unlock"} => lk[c][x] \notin held[c][x]

(* lk->cpu names a CPU exactly while one of its contexts has the lock, and *)
(* a lock being acquired is above every lock its context has.              *)
CpuOK ==
  /\ \A c \in CPU, l \in Lock : lkcpu[l] = c <=> l \in Holds(c)
  /\ \A c \in CPU, x \in Ctx : where[c][x] \in {"cli", "check", "spin"} =>
       \A k \in held[c][x] : k < lk[c][x]

(* ncli counts the locks of the running context and its call in progress;  *)
(* the other context holds nothing and is not past its cli.                *)
Depth(c, x) == Cardinality(held[c][x]) + IF where[c][x] \in InCall THEN 1 ELSE 0

NcliOK ==
  \A c \in CPU :
    /\ ncli[c] = Depth(c, Active(c))
    /\ \A x \in Ctx : x # Active(c) =>
         held[c][x] = {} /\ where[c][x] \in {"run", "cli"}
    /\ ~inHandler[c] => where[c]["handler"] = "run"
    /\ ifl[c] => ncli[c] = 0 /\ ~inHandler[c]

(* What pushcli saved is what popcli must restore.                         *)
IntenaAt(c) ==
  /\ scheduled[c] =>
       /\ ~inHandler[c] /\ ncli[c] = 0 => ifl[c]
       /\ ~inHandler[c] /\ ncli[c] > 0 => intena[c]
       /\ where[c]["thread"] = "cli" /\ held[c]["thread"] = {}
            => eflags[c]["thread"]
  /\ inHandler[c] /\ ncli[c] > 0 => ~intena[c]
  /\ where[c]["handler"] = "cli" => ~eflags[c]["handler"]

IntenaOK == \A c \in CPU : IntenaAt(c)

IInv == /\ TypeOK /\ OwnerOK /\ CpuOK /\ NcliOK /\ IntenaOK
        /\ ~inPanic

-----------------------------------------------------------------------------
(* The invariant holds when main() starts.                                 *)
LEMMA InitIInv == SpinInit => IInv
<1> SUFFICES ASSUME SpinInit PROVE IInv
    BY ZenonT(30)
<1> USE SpinlockAssumption DEF SpinInit
<1>1. TypeOK
  <2>1. 1 \in Lock /\ 0 \in Nat BY DEF Lock
  <2> QED BY ZenonT(30), <2>1 DEF TypeOK, Ctx, Labels
<1>2. OwnerOK BY DEF OwnerOK, Owns, Ctx
<1>3. CpuOK BY ZenonT(30) DEF CpuOK, Holds, Ctx
<1>4. NcliOK
  <2>1. Cardinality({}) = 0 BY ZenonT(30), FS_EmptySet
  <2>2. ASSUME NEW c \in CPU PROVE Active(c) = "thread" BY ZenonT(30) DEF Active
  <2>3. ASSUME NEW c \in CPU PROVE Depth(c, "thread") = 0
    BY <2>1 DEF Depth, InCall, Ctx
  <2> QED BY ZenonT(30), <2>2, <2>3 DEF NcliOK, Ctx
<1>5. IntenaOK BY ZenonT(30) DEF IntenaOK, IntenaAt, Ctx
<1> QED BY ZenonT(30), <1>1, <1>2, <1>3, <1>4, <1>5 DEF IInv

(* An update of one entry of a function on CPUs and contexts.              *)
LEMMA Update ==
  ASSUME NEW A, NEW f \in [CPU -> [Ctx -> A]], NEW c \in CPU, NEW x \in Ctx,
         NEW v \in A
  PROVE  /\ [f EXCEPT ![c][x] = v] \in [CPU -> [Ctx -> A]]
         /\ \A d \in CPU, y \in Ctx :
              [f EXCEPT ![c][x] = v][d][y] =
                IF d = c /\ y = x THEN v ELSE f[d][y]
OBVIOUS

(* A step of Goto moves the running context of one CPU only.               *)
LEMMA GotoEffect ==
  ASSUME TypeOK, NEW c \in CPU, NEW label \in Labels, StepTo(c, label)
  PROVE  /\ Active(c) \in Ctx
         /\ where' \in [CPU -> [Ctx -> Labels]]
         /\ \A d \in CPU, y \in Ctx :
              where'[d][y] = IF d = c /\ y = Active(c) THEN label ELSE where[d][y]
<1>1. Active(c) \in Ctx BY DEF Active, Ctx
<1>2. where \in [CPU -> [Ctx -> Labels]] BY DEF TypeOK
<1>3. where' = [where EXCEPT ![c][Active(c)] = label] BY DEF StepTo
<1> QED BY <1>1, <1>2, <1>3, Update

(* The types are preserved.                                                *)
LEMMA NextTypeOK == TypeOK /\ [SpinNext]_spinvars => TypeOK'
<1> SUFFICES ASSUME TypeOK, [SpinNext]_spinvars PROVE TypeOK'
    BY ZenonT(30)
<1> USE SpinlockAssumption
<1>0. ASSUME NEW c \in CPU PROVE Active(c) \in Ctx BY ZenonT(30) DEF Active, Ctx
<1>1. ASSUME NEW c \in CPU, Sti(c) PROVE TypeOK'
  BY ZenonT(30), <1>1 DEF Sti, TypeOK
<1>2. ASSUME NEW c \in CPU, NEW l \in Lock, AcquireCall(c, l) PROVE TypeOK'
  <2>1. where' \in [CPU -> [Ctx -> Labels]]
    BY ZenonT(30), <1>2, GotoEffect DEF AcquireCall, Labels
  <2>2. lk' \in [CPU -> [Ctx -> Lock]]
    BY ZenonT(30), <1>0, <1>2, Update DEF AcquireCall, TypeOK
  <2>3. eflags' \in [CPU -> [Ctx -> BOOLEAN]]
    <3>1. ifl[c] \in BOOLEAN BY ZenonT(30) DEF TypeOK
    <3> QED BY <1>0, <1>2, <3>1, Update DEF AcquireCall, TypeOK
  <2> QED BY ZenonT(30), <1>2, <2>1, <2>2, <2>3 DEF AcquireCall, TypeOK, cpuvars
<1>3. ASSUME NEW c \in CPU, Pushcli(c) PROVE TypeOK'
  <2>1. where' \in [CPU -> [Ctx -> Labels]]
    BY ZenonT(30), <1>3, GotoEffect DEF Pushcli, Labels
  <2>2. eflags[c][Active(c)] \in BOOLEAN BY <1>0 DEF TypeOK
  <2>3. intena' \in [CPU -> BOOLEAN]
    <3>1. \/ intena' = intena
          \/ intena' = [intena EXCEPT ![c] = eflags[c][Active(c)]]
      BY ZenonT(30), <1>3 DEF Pushcli
    <3> QED BY ZenonT(30), <2>2, <3>1 DEF TypeOK
  <2>4. ncli' \in [CPU -> Nat] /\ ifl' \in [CPU -> BOOLEAN]
    BY <1>3 DEF Pushcli, TypeOK
  <2>5. UNCHANGED <<locked, lkcpu, inHandler, lk, eflags, held, scheduled,
                    inPanic>>
    BY ZenonT(30), <1>3 DEF Pushcli
  <2> QED BY ZenonT(30), <2>1, <2>3, <2>4, <2>5 DEF TypeOK
<1>4. ASSUME NEW c \in CPU, AcquireCheck(c) PROVE TypeOK'
  <2>1. where' \in [CPU -> [Ctx -> Labels]]
    BY ZenonT(30), <1>4, GotoEffect DEF AcquireCheck, Labels, TypeOK
  <2> QED BY ZenonT(30), <1>4, <2>1 DEF AcquireCheck, TypeOK, cpuvars
<1>5. ASSUME NEW c \in CPU, AcquireXchg(c) PROVE TypeOK'
  <2>1. where' \in [CPU -> [Ctx -> Labels]]
    BY ZenonT(30), <1>5, GotoEffect DEF AcquireXchg, Labels
  <2> QED BY ZenonT(30), <1>5, <2>1 DEF AcquireXchg, TypeOK, cpuvars
<1>6. ASSUME NEW c \in CPU, AcquireSetCpu(c) PROVE TypeOK'
  <2>1. where' \in [CPU -> [Ctx -> Labels]]
    BY ZenonT(30), <1>6, GotoEffect DEF AcquireSetCpu, Labels
  <2>2. held[c][Active(c)] \cup {lk[c][Active(c)]} \in SUBSET Lock
    BY <1>0 DEF TypeOK
  <2>3. held' \in [CPU -> [Ctx -> SUBSET Lock]]
    BY ZenonT(30), <1>0, <1>6, <2>2, Update DEF AcquireSetCpu, TypeOK
  <2> QED BY ZenonT(30), <1>6, <2>1, <2>3 DEF AcquireSetCpu, TypeOK, cpuvars
<1>7. ASSUME NEW c \in CPU, NEW l \in Lock, ReleaseCall(c, l) PROVE TypeOK'
  <2>1. where' \in [CPU -> [Ctx -> Labels]]
    BY ZenonT(30), <1>7, GotoEffect DEF ReleaseCall, Labels, TypeOK
  <2>2. held[c][Active(c)] \ {l} \in SUBSET Lock
    BY <1>0 DEF TypeOK
  <2>3. held' \in [CPU -> [Ctx -> SUBSET Lock]]
    <3>1. \/ held' = held
          \/ held' = [held EXCEPT ![c][Active(c)] = held[c][Active(c)] \ {l}]
      BY <1>7, Zenon DEF ReleaseCall
    <3>2. [held EXCEPT ![c][Active(c)] = held[c][Active(c)] \ {l}]
            \in [CPU -> [Ctx -> SUBSET Lock]]
      BY ZenonT(30), <1>0, <2>2, Update DEF TypeOK
    <3> QED BY ZenonT(30), <3>1, <3>2 DEF TypeOK
  <2>4. lk' \in [CPU -> [Ctx -> Lock]]
    BY SMTT(60), <1>0, <1>7, Update DEF ReleaseCall, TypeOK
  <2> QED BY ZenonT(30), <1>7, <2>1, <2>3, <2>4 DEF ReleaseCall, TypeOK, cpuvars
<1>8. ASSUME NEW c \in CPU, ReleaseXchg(c) PROVE TypeOK'
  <2>1. where' \in [CPU -> [Ctx -> Labels]]
    BY ZenonT(30), <1>8, GotoEffect DEF ReleaseXchg, Labels
  <2> QED BY ZenonT(30), <1>8, <2>1 DEF ReleaseXchg, TypeOK, cpuvars
<1>9. ASSUME NEW c \in CPU, Popcli(c) PROVE TypeOK'
  <2>1. where' \in [CPU -> [Ctx -> Labels]]
    BY ZenonT(30), <1>9, GotoEffect DEF Popcli, Labels, TypeOK
  <2>2. ncli' \in [CPU -> Nat]
    <3>1. \/ ncli' = ncli
          \/ ncli[c] # 0 /\ ncli' = [ncli EXCEPT ![c] = ncli[c] - 1]
      BY <1>9, Zenon DEF Popcli
    <3>2. ncli[c] # 0 => ncli[c] - 1 \in Nat BY DEF TypeOK
    <3> QED BY ZenonT(30), <3>1, <3>2 DEF TypeOK
  <2>3. ifl' \in [CPU -> BOOLEAN]
    <3>1. (ncli[c] = 1 /\ intena[c]) \in BOOLEAN
      BY ZenonT(30)
    <3>2. \A b \in BOOLEAN : [ifl EXCEPT ![c] = b] \in [CPU -> BOOLEAN]
      BY ZenonT(30) DEF TypeOK
    <3> QED BY <1>9, <3>1, <3>2, Zenon DEF Popcli, TypeOK
  <2> QED BY ZenonT(30), <1>9, <2>1, <2>2, <2>3 DEF Popcli, TypeOK
<1>10. ASSUME NEW c \in CPU, Interrupt(c) PROVE TypeOK'
  BY ZenonT(30), <1>10 DEF Interrupt, TypeOK
<1>11. ASSUME NEW c \in CPU, Iret(c) PROVE TypeOK'
  BY ZenonT(30), <1>11 DEF Iret, TypeOK
<1>12. CASE UNCHANGED spinvars
  BY ZenonT(30), <1>12 DEF spinvars, cpuvars, TypeOK
<1> QED BY ZenonT(30), <1>1, <1>2, <1>3, <1>4, <1>5, <1>6, <1>7, <1>8, <1>9, <1>10, <1>11,
           <1>12 DEF SpinNext

(* The sets of held locks are finite, so they can be counted.              *)
LEMMA HeldCardinality ==
  ASSUME TypeOK, NEW c \in CPU, NEW x \in Ctx
  PROVE  /\ Cardinality(held[c][x]) \in Nat
         /\ Cardinality(held[c][x]) = 0 <=> held[c][x] = {}
         /\ \A l \in Lock \ held[c][x] :
              Cardinality(held[c][x] \cup {l}) = Cardinality(held[c][x]) + 1
         /\ \A l \in held[c][x] :
              Cardinality(held[c][x] \ {l}) = Cardinality(held[c][x]) - 1
<1>1. held[c][x] \subseteq 1..NLOCK
  BY DEF TypeOK, Lock
<1>2. IsFiniteSet(1..NLOCK)
  BY SpinlockAssumption, FS_Interval
<1>3. IsFiniteSet(held[c][x])
  BY ZenonT(30), <1>1, <1>2, FS_Subset
<1> QED BY ZenonT(30), <1>3, FS_CardinalityType, FS_EmptySet, FS_AddElement, FS_RemoveElement

(* The three calls of panic() are not reached.                             *)
LEMMA NoPanicNow ==
  ASSUME IInv, NEW c \in CPU
  PROVE  /\ AtStep(c, "check") => ~holding(c, lk[c][Active(c)])
         /\ \A l \in held[c][Active(c)] : holding(c, l)
         /\ AtStep(c, "popcli") => ~ifl[c] /\ ncli[c] > 0
<1>0. Active(c) \in Ctx BY ZenonT(30) DEF Active, Ctx
<1>1. ASSUME AtStep(c, "check") PROVE ~holding(c, lk[c][Active(c)])
  <2>1. lk[c][Active(c)] \in Lock BY <1>0 DEF IInv, TypeOK
  <2>2. lk[c][Active(c)] \notin held[c][Active(c)]
    BY <1>0, <1>1, <2>1 DEF IInv, CpuOK, AtStep, Lock
  <2>3. \A y \in Ctx : y # Active(c) => held[c][y] = {}
    BY ZenonT(30) DEF IInv, NcliOK
  <2>4. lk[c][Active(c)] \notin Holds(c)
    BY ZenonT(30), <2>2, <2>3 DEF Holds, Ctx
  <2> QED BY ZenonT(30), <2>1, <2>4 DEF holding, IInv, CpuOK
<1>2. ASSUME NEW l \in held[c][Active(c)] PROVE holding(c, l)
  <2>1. l \in Lock BY <1>0 DEF IInv, TypeOK
  <2>2. l \in Holds(c) BY ZenonT(30), <1>0 DEF Holds, Ctx
  <2> QED BY <1>0, <2>1, <2>2 DEF holding, IInv, CpuOK, OwnerOK, Owns
<1>3. ASSUME AtStep(c, "popcli") PROVE ~ifl[c] /\ ncli[c] > 0
  <2>1. Cardinality(held[c][Active(c)]) \in Nat
    BY ZenonT(30), <1>0, HeldCardinality DEF IInv
  <2>2. ncli[c] = Cardinality(held[c][Active(c)]) + 1
    BY ZenonT(30), <1>3 DEF IInv, NcliOK, Depth, InCall, AtStep
  <2> QED BY <2>1, <2>2 DEF IInv, NcliOK
<1> QED BY ZenonT(30), <1>1, <1>2, <1>3
(* OwnerOK survives a step that gives nobody a lock word and frees none    *)
(* that is owned.                                                          *)
LEMMA OwnerLocal ==
  ASSUME IInv,
         \A d \in CPU, y \in Ctx, m \in Lock :
           Owns(d, y, m)' => Owns(d, y, m) /\ locked'[m] = locked[m],
         \A d \in CPU, y \in Ctx :
           where'[d][y] \in {"setcpu", "unlock"} => lk'[d][y] \notin held'[d][y]
  PROVE  OwnerOK'
<1>1. \A d \in CPU, y \in Ctx, m \in Lock : Owns(d, y, m)' => locked'[m] = 1
  BY DEF IInv, OwnerOK
<1>2. \A d, e \in CPU, y, z \in Ctx, m \in Lock :
        Owns(d, y, m)' /\ Owns(e, z, m)' => d = e /\ y = z
  BY DEF IInv, OwnerOK
<1> QED BY ZenonT(30), <1>1, <1>2 DEF OwnerOK

(* Every action preserves the invariant.  First, what is left to show of   *)
(* NcliOK when only the running context of c moves.                        *)
LEMMA NcliLocal ==
  ASSUME IInv, NEW c \in CPU, inHandler' = inHandler,
         \A d \in CPU, y \in Ctx : d # c \/ y # Active(c) =>
           where'[d][y] = where[d][y] /\ held'[d][y] = held[d][y],
         \A d \in CPU : d # c => ncli'[d] = ncli[d] /\ ifl'[d] = ifl[d],
         ncli'[c] = Cardinality(held'[c][Active(c)]) +
                      IF where'[c][Active(c)] \in InCall THEN 1 ELSE 0,
         ifl'[c] => ncli'[c] = 0 /\ ~inHandler[c]
  PROVE  NcliOK'
<1> SUFFICES ASSUME NEW d \in CPU
             PROVE  /\ ncli'[d] = Depth(d, Active(d))'
                    /\ \A x \in Ctx : x # Active(d)' =>
                         held'[d][x] = {} /\ where'[d][x] \in {"run", "cli"}
                    /\ ~inHandler'[d] => where'[d]["handler"] = "run"
                    /\ ifl'[d] => ncli'[d] = 0 /\ ~inHandler'[d]
  BY ZenonT(30) DEF NcliOK
<1> USE DEF IInv
<1>1. Active(d)' = Active(d) /\ Active(d) \in Ctx
  BY ZenonT(30) DEF Active, Ctx
<1>2. ~inHandler[d] => Active(d) = "thread"
  BY ZenonT(30) DEF Active
<1>3. ncli'[d] = Depth(d, Active(d))'
  BY <1>1 DEF NcliOK, Depth
<1>4. ~inHandler'[d] => where'[d]["handler"] = "run"
  BY ZenonT(30), <1>2 DEF NcliOK, Ctx
<1>5. ifl'[d] => ncli'[d] = 0 /\ ~inHandler'[d]
  BY DEF NcliOK
<1> QED BY <1>1, <1>3, <1>4, <1>5 DEF NcliOK

(* NcliOK survives a step of the running context within a call, or outside *)
(* of any.                                                                 *)
LEMMA NcliSame ==
  ASSUME IInv, NEW c \in CPU, UNCHANGED <<ncli, ifl, inHandler, held>>,
         \A d \in CPU, y \in Ctx : d # c \/ y # Active(c) => where'[d][y] = where[d][y],
         where'[c][Active(c)] \in InCall <=> where[c][Active(c)] \in InCall
  PROVE  NcliOK'
<1>1. ncli[c] = Depth(c, Active(c)) /\ (ifl[c] => ncli[c] = 0 /\ ~inHandler[c])
  BY ZenonT(30) DEF IInv, NcliOK
<1> QED
  BY ZenonT(30), <1>1, NcliLocal DEF Depth

-----------------------------------------------------------------------------
(* AcquireCall: entering acquire() preserves the invariant. *)
LEMMA AcquireCallIInv ==
  ASSUME IInv, NEW c \in CPU, NEW l \in Lock, AcquireCall(c, l) PROVE IInv'
<1>0. TypeOK' BY ZenonT(30), NextTypeOK DEF IInv, SpinNext
<1>1. /\ Active(c) \in Ctx
      /\ \A d \in CPU, y \in Ctx : where'[d][y] =
           IF d = c /\ y = Active(c) THEN "cli" ELSE where[d][y]
  BY ZenonT(30), GotoEffect DEF AcquireCall, IInv, Labels
<1>3. /\ \A d \in CPU, y \in Ctx : lk'[d][y] =
           IF d = c /\ y = Active(c) THEN l ELSE lk[d][y]
      /\ UNCHANGED <<locked, lkcpu, cpuvars, held, inPanic>>
      /\ where[c][Active(c)] = "run"
  BY <1>1, Update DEF AcquireCall, AtStep, IInv, TypeOK
<1> USE <1>1, <1>3
<1>4. OwnerOK'
  <2>1. \A d \in CPU, y \in Ctx, m \in Lock :
          Owns(d, y, m)' => Owns(d, y, m) /\ locked'[m] = locked[m]
    BY DEF Owns
  <2>2. \A d \in CPU, y \in Ctx :
          where'[d][y] \in {"setcpu", "unlock"} => lk'[d][y] \notin held'[d][y]
    BY SMTT(60) DEF IInv, OwnerOK
  <2> QED BY ZenonT(30), <2>1, <2>2, OwnerLocal
<1>5. CpuOK'
  BY DEF AcquireCall, IInv, CpuOK, Holds, Ctx
<1>6. NcliOK'
  BY ZenonT(30), NcliSame DEF InCall, cpuvars
<1>7. IntenaOK'
  <2>1. \A d \in CPU, y \in Ctx : eflags'[d][y] =
          IF d = c /\ y = Active(c) THEN ifl[c] ELSE eflags[d][y]
    BY Update DEF AcquireCall, IInv, TypeOK
  <2>2. inHandler[c] <=> Active(c) = "handler" BY ZenonT(30) DEF Active
  <2>3. ifl[c] => ~inHandler[c] BY ZenonT(30) DEF IInv, NcliOK
  <2>4. ~inHandler[c] /\ scheduled[c] /\ held[c]["thread"] = {} => ifl[c]
    <3>1. Cardinality({}) = 0 BY ZenonT(30), FS_EmptySet
    <3>2. ~inHandler[c] => Active(c) = "thread" BY ZenonT(30) DEF Active
    <3>3. ncli[c] = Depth(c, Active(c)) BY ZenonT(30) DEF IInv, NcliOK
    <3>4. ASSUME ~inHandler[c], held[c]["thread"] = {} PROVE ncli[c] = 0
      <4>1. Depth(c, Active(c)) = Cardinality({}) + 0
        BY ZenonT(30), <3>2, <3>4 DEF Depth, InCall
      <4> QED BY <3>1, <3>3, <4>1
    <3> QED BY ZenonT(30), <3>4 DEF IInv, IntenaOK, IntenaAt
  <2> QED BY SMTT(60), <2>1, <2>2, <2>3, <2>4 DEF IInv, IntenaOK, IntenaAt, Ctx, cpuvars
<1> QED BY ONLY ZenonT(30), IInv, <1>0, <1>3, <1>4, <1>5, <1>6, <1>7 DEF IInv

(* Pushcli: pushcli() preserves the invariant. *)
LEMMA PushcliIInv ==
  ASSUME IInv, NEW c \in CPU, Pushcli(c) PROVE IInv'
<1>0. TypeOK' BY ZenonT(30), NextTypeOK DEF IInv, SpinNext
<1>1. /\ Active(c) \in Ctx
      /\ \A d \in CPU, y \in Ctx : where'[d][y] =
           IF d = c /\ y = Active(c) THEN "check" ELSE where[d][y]
  BY ZenonT(30), GotoEffect DEF Pushcli, IInv, Labels
<1>3. /\ UNCHANGED <<locked, lkcpu, inHandler, lk, eflags, held, scheduled,
                     inPanic>>
      /\ where[c][Active(c)] = "cli"
      /\ ncli[c] \in Nat
      /\ \A d \in CPU : /\ ncli'[d] = IF d = c THEN ncli[c] + 1 ELSE ncli[d]
                        /\ ifl'[d] = IF d = c THEN FALSE ELSE ifl[d]
  BY ZenonT(30) DEF Pushcli, AtStep, IInv, TypeOK
<1> USE <1>1, <1>3
<1>4. OwnerOK'
  <2>1. \A d \in CPU, y \in Ctx, m \in Lock :
          Owns(d, y, m)' => Owns(d, y, m) /\ locked'[m] = locked[m]
    BY ZenonT(30) DEF Owns
  <2>2. \A d \in CPU, y \in Ctx :
          where'[d][y] \in {"setcpu", "unlock"} => lk'[d][y] \notin held'[d][y]
    BY DEF IInv, OwnerOK
  <2> QED BY ZenonT(30), <2>1, <2>2, OwnerLocal
<1>5. CpuOK'
  BY DEF IInv, CpuOK, Holds, Ctx
<1>6. NcliOK'
  <2>1. Cardinality(held[c][Active(c)]) \in Nat
    BY ZenonT(30), HeldCardinality DEF IInv
  <2>2. ncli[c] = Cardinality(held[c][Active(c)])
    BY <2>1 DEF IInv, NcliOK, Depth, InCall
  <2>3. ncli'[c] = Cardinality(held'[c][Active(c)]) +
                     IF where'[c][Active(c)] \in InCall THEN 1 ELSE 0
    BY ZenonT(30), <2>1, <2>2 DEF InCall
  <2> QED BY ZenonT(30), <2>3, NcliLocal
<1>7. IntenaOK'
  <2>1. inHandler[c] <=> Active(c) = "handler" BY ZenonT(30) DEF Active
  <2>2. ncli[c] = 0 => held[c][Active(c)] = {}
    <3>1. Depth(c, Active(c)) = Cardinality(held[c][Active(c)]) + 0
      BY ZenonT(30) DEF Depth, InCall
    <3> QED BY <3>1, HeldCardinality DEF IInv, NcliOK
  <2>3. \A d \in CPU : intena'[d] =
          IF d = c /\ ncli[c] = 0 THEN eflags[c][Active(c)] ELSE intena[d]
    BY ZenonT(30) DEF Pushcli, IInv, TypeOK
  <2>4. ASSUME NEW d \in CPU, d # c PROVE IntenaAt(d)'
    BY ZenonT(30), <2>3, <2>4 DEF IInv, IntenaOK, IntenaAt, Ctx
  <2>5. IntenaAt(c) BY ZenonT(30) DEF IInv, IntenaOK
  <2>6. CASE inHandler[c]
    <3>1. ~intena'[c]
      BY SMTT(60), <2>1, <2>3, <2>5, <2>6 DEF IntenaAt
    <3> QED BY SMTT(60), <2>1, <2>4, <2>5, <2>6, <3>1 DEF IntenaOK, IntenaAt, Ctx
  <2>7. CASE ~inHandler[c]
    <3>1. Active(c) = "thread" BY ZenonT(30), <2>7 DEF Active
    <3>2. scheduled[c] => intena'[c]
      BY SMTT(60), <2>2, <2>3, <2>5, <2>7, <3>1 DEF IntenaAt
    <3>3. where'[c]["thread"] = "check" /\ where'[c]["handler"] = where[c]["handler"]
      BY ZenonT(30), <3>1 DEF Ctx
    <3>4. ncli'[c] = ncli[c] + 1 BY Zenon
    <3>5. ncli'[c] # 0 BY <3>4
    <3>6. IntenaAt(c)'
      BY ZenonT(30), <2>5, <2>7, <3>2, <3>3, <3>5 DEF IntenaAt
    <3> QED BY ZenonT(30), <2>4, <3>6 DEF IntenaOK
  <2> QED BY ZenonT(30), <2>6, <2>7
<1> QED BY ONLY ZenonT(30), IInv, <1>0, <1>3, <1>4, <1>5, <1>6, <1>7 DEF IInv

(* AcquireCheck: acquire()'s test of holding() preserves the invariant. *)
LEMMA AcquireCheckIInv ==
  ASSUME IInv, NEW c \in CPU, AcquireCheck(c) PROVE IInv'
<1>0. TypeOK' BY ZenonT(30), NextTypeOK DEF IInv, SpinNext
<1>9. StepTo(c, "spin") /\ ~inPanic'
  BY NoPanicNow, Zenon DEF AcquireCheck, AtStep
<1>1. /\ Active(c) \in Ctx
      /\ \A d \in CPU, y \in Ctx : where'[d][y] =
           IF d = c /\ y = Active(c) THEN "spin" ELSE where[d][y]
  BY ZenonT(30), <1>9, GotoEffect DEF AcquireCheck, IInv, Labels
<1>3. /\ UNCHANGED <<locked, lkcpu, cpuvars, lk, eflags, held>>
      /\ where[c][Active(c)] = "check"
  BY ZenonT(30) DEF AcquireCheck, AtStep
<1> USE <1>1, <1>3
<1>4. OwnerOK'
  <2>1. \A d \in CPU, y \in Ctx, m \in Lock :
          Owns(d, y, m)' => Owns(d, y, m) /\ locked'[m] = locked[m]
    BY ZenonT(30) DEF Owns
  <2>2. \A d \in CPU, y \in Ctx :
          where'[d][y] \in {"setcpu", "unlock"} => lk'[d][y] \notin held'[d][y]
    BY DEF IInv, OwnerOK
  <2> QED BY ZenonT(30), <2>1, <2>2, OwnerLocal
<1>5. CpuOK'
  BY DEF IInv, CpuOK, Holds, Ctx
<1>6. NcliOK'
  BY ZenonT(30), NcliSame DEF InCall, cpuvars
<1>7. IntenaOK'
  BY ZenonT(30) DEF IInv, IntenaOK, IntenaAt, Ctx, cpuvars
<1> QED BY ONLY ZenonT(30), IInv, <1>0, <1>9, <1>4, <1>5, <1>6, <1>7 DEF IInv

(* AcquireXchg: acquire()'s xchg preserves the invariant. *)
LEMMA AcquireXchgIInv ==
  ASSUME IInv, NEW c \in CPU, AcquireXchg(c) PROVE IInv'
<1>0. TypeOK' BY ZenonT(30), NextTypeOK DEF IInv, SpinNext
<1>1. /\ Active(c) \in Ctx
      /\ \A d \in CPU, y \in Ctx : where'[d][y] =
           IF d = c /\ y = Active(c) THEN "setcpu" ELSE where[d][y]
  BY ZenonT(30), GotoEffect DEF AcquireXchg, IInv, Labels
<1> DEFINE l == lk[c][Active(c)]
<1>3. /\ UNCHANGED <<lkcpu, cpuvars, lk, eflags, held, inPanic>>
      /\ where[c][Active(c)] = "spin"
      /\ l \in Lock /\ locked[l] = 0
      /\ \A m \in Lock : locked'[m] = IF m = l THEN 1 ELSE locked[m]
  BY <1>1 DEF AcquireXchg, AtStep, IInv, TypeOK
<1> USE <1>1, <1>3
<1>4. OwnerOK'
  <2>1. \A d \in CPU, y \in Ctx : ~Owns(d, y, l)
    BY SMTT(60) DEF IInv, OwnerOK
  <2>2. \A d \in CPU, y \in Ctx, m \in Lock :
          Owns(d, y, m)' => \/ Owns(d, y, m) /\ m # l
                            \/ d = c /\ y = Active(c) /\ m = l
    BY <2>1 DEF Owns
  <2>3. l \notin held[c][Active(c)] BY ZenonT(30), <2>1 DEF Owns
  <2>4. \A d \in CPU, y \in Ctx :
          where'[d][y] \in {"setcpu", "unlock"} => lk'[d][y] \notin held'[d][y]
    BY SMTT(60), <2>3 DEF IInv, OwnerOK
  <2>5. \A d \in CPU, y \in Ctx, m \in Lock : Owns(d, y, m)' => locked'[m] = 1
    BY SMTT(60), <2>2 DEF IInv, OwnerOK
  <2>6. \A d, e \in CPU, y, z \in Ctx, m \in Lock :
          Owns(d, y, m)' /\ Owns(e, z, m)' => d = e /\ y = z
    BY SMTT(60), <2>2 DEF IInv, OwnerOK
  <2> QED BY ZenonT(30), <2>4, <2>5, <2>6 DEF OwnerOK
<1>5. CpuOK'
  BY DEF IInv, CpuOK, Holds, Ctx
<1>6. NcliOK'
  BY ZenonT(30), NcliSame DEF InCall, cpuvars
<1>7. IntenaOK'
  BY ZenonT(30) DEF IInv, IntenaOK, IntenaAt, Ctx, cpuvars
<1> QED BY ONLY ZenonT(30), IInv, <1>0, <1>3, <1>4, <1>5, <1>6, <1>7 DEF IInv

(* AcquireSetCpu: the return of acquire() preserves the invariant. *)
LEMMA AcquireSetCpuIInv ==
  ASSUME IInv, NEW c \in CPU, AcquireSetCpu(c) PROVE IInv'
<1>0. TypeOK' BY ZenonT(30), NextTypeOK DEF IInv, SpinNext
<1>1. /\ Active(c) \in Ctx
      /\ \A d \in CPU, y \in Ctx : where'[d][y] =
           IF d = c /\ y = Active(c) THEN "run" ELSE where[d][y]
  BY ZenonT(30), GotoEffect DEF AcquireSetCpu, IInv, Labels
<1> DEFINE l == lk[c][Active(c)]
<1>3. /\ UNCHANGED <<locked, cpuvars, lk, eflags, inPanic>>
      /\ where[c][Active(c)] = "setcpu"
      /\ l \in Lock
      /\ \A m \in Lock : lkcpu'[m] = IF m = l THEN c ELSE lkcpu[m]
  BY SMTT(60), <1>1 DEF AcquireSetCpu, AtStep, IInv, TypeOK
<1>9. \A d \in CPU, y \in Ctx : held'[d][y] =
        IF d = c /\ y = Active(c) THEN held[c][Active(c)] \cup {l}
        ELSE held[d][y]
  <2>1. held[c][Active(c)] \cup {l} \in SUBSET Lock
    BY SMTT(60), <1>1, <1>3 DEF IInv, TypeOK
  <2> QED BY SMTT(60), <1>1, <2>1, Update DEF AcquireSetCpu, IInv, TypeOK
<1> USE <1>1, <1>3, <1>9
<1>4. OwnerOK'
  <2>1. \A d \in CPU, y \in Ctx, m \in Lock :
          Owns(d, y, m)' => Owns(d, y, m) /\ locked'[m] = locked[m]
    BY SMTT(60) DEF Owns
  <2>2. \A d \in CPU, y \in Ctx :
          where'[d][y] \in {"setcpu", "unlock"} => lk'[d][y] \notin held'[d][y]
    BY SMTT(60) DEF IInv, OwnerOK
  <2> QED BY ZenonT(30), <2>1, <2>2, OwnerLocal
<1>5. CpuOK'
  <2>1. \A d \in CPU : d # c => l \notin Holds(d)
    BY SMTT(60) DEF IInv, OwnerOK, Owns, Holds, Ctx
  <2>2. \A d \in CPU, m \in Lock :
          m \in Holds(d)' <=> m \in Holds(d) \/ (d = c /\ m = l)
    BY SMTT(60) DEF Holds, Ctx
  <2>3. \A d \in CPU, m \in Lock : lkcpu'[m] = d <=> m \in Holds(d)'
    BY SMTT(60), <2>1, <2>2 DEF IInv, CpuOK
  <2> QED BY SMTT(60), <2>3 DEF IInv, CpuOK
<1>6. NcliOK'
  <2>1. l \notin held[c][Active(c)]
    BY ZenonT(30) DEF IInv, OwnerOK
  <2>2. /\ Cardinality(held[c][Active(c)] \cup {l}) =
             Cardinality(held[c][Active(c)]) + 1
        /\ Cardinality(held[c][Active(c)]) \in Nat
    BY <2>1, HeldCardinality DEF IInv
  <2>3. ncli[c] = Cardinality(held[c][Active(c)]) + 1
    BY ZenonT(30) DEF IInv, NcliOK, Depth, InCall
  <2>4. UNCHANGED <<ncli, ifl, inHandler>>
    BY ZenonT(30) DEF cpuvars
  <2>5. ncli'[c] = Cardinality(held'[c][Active(c)]) +
                     IF where'[c][Active(c)] \in InCall THEN 1 ELSE 0
    BY <2>2, <2>3, <2>4 DEF InCall
  <2>6. ifl[c] => ncli[c] = 0 /\ ~inHandler[c]
    BY ZenonT(30) DEF IInv, NcliOK
  <2> QED BY SMTT(60), <2>4, <2>5, <2>6, NcliLocal
<1>7. IntenaOK'
  BY ZenonT(30) DEF IInv, IntenaOK, IntenaAt, Ctx, cpuvars
<1> QED BY ONLY ZenonT(30), IInv, <1>0, <1>3, <1>4, <1>5, <1>6, <1>7 DEF IInv

(* ReleaseCall: entering release() preserves the invariant. *)
LEMMA ReleaseCallIInv ==
  ASSUME IInv, NEW c \in CPU, NEW l \in Lock, ReleaseCall(c, l) PROVE IInv'
<1>0. TypeOK' BY ZenonT(30), NextTypeOK DEF IInv, SpinNext
<1>8. /\ StepTo(c, "unlock") /\ UNCHANGED inPanic
      /\ lkcpu' = [lkcpu EXCEPT ![l] = None]
      /\ held' = [held EXCEPT ![c][Active(c)] = held[c][Active(c)] \ {l}]
  BY NoPanicNow, Zenon DEF ReleaseCall
<1>1. /\ Active(c) \in Ctx
      /\ \A d \in CPU, y \in Ctx : where'[d][y] =
           IF d = c /\ y = Active(c) THEN "unlock" ELSE where[d][y]
  BY ZenonT(30), <1>8, GotoEffect DEF ReleaseCall, IInv, Labels
<1>3. /\ UNCHANGED <<locked, cpuvars, eflags, inPanic>>
      /\ where[c][Active(c)] = "run"
      /\ l \in held[c][Active(c)]
      /\ \A m \in Lock : lkcpu'[m] = IF m = l THEN None ELSE lkcpu[m]
      /\ \A d \in CPU, y \in Ctx : lk'[d][y] =
           IF d = c /\ y = Active(c) THEN l ELSE lk[d][y]
  BY <1>1, <1>8, Update DEF ReleaseCall, AtStep, IInv, TypeOK
<1>9. \A d \in CPU, y \in Ctx : held'[d][y] =
        IF d = c /\ y = Active(c) THEN held[c][Active(c)] \ {l}
        ELSE held[d][y]
  <2>1. held[c][Active(c)] \ {l} \in SUBSET Lock
    BY SMTT(60), <1>1 DEF IInv, TypeOK
  <2> QED BY SMTT(60), <1>1, <1>8, <2>1, Update DEF IInv, TypeOK
<1> USE <1>1, <1>3, <1>9
<1>4. OwnerOK'
  <2>1. ASSUME NEW d \in CPU, NEW y \in Ctx, NEW m \in Lock, Owns(d, y, m)'
        PROVE  Owns(d, y, m) /\ locked'[m] = locked[m]
    <3>1. CASE d = c /\ y = Active(c)
      <4>1. /\ held'[d][y] = held[d][y] \ {l} /\ lk'[d][y] = l /\ l \in held[d][y]
            /\ locked' = locked
        BY ONLY ZenonT(30), <1>3, <1>9, <2>1, <3>1
      <4> QED
        BY ONLY ZenonT(30), <2>1, <4>1 DEF Owns
    <3>2. CASE ~(d = c /\ y = Active(c))
      <4>1. /\ held'[d][y] = held[d][y] /\ lk'[d][y] = lk[d][y] /\ where'[d][y] = where[d][y]
            /\ locked' = locked
        BY ONLY ZenonT(30), <1>1, <1>3, <1>9, <2>1, <3>2
      <4> QED
        BY ONLY ZenonT(30), <2>1, <4>1 DEF Owns
    <3> QED
      BY ONLY ZenonT(30), <3>1, <3>2
  <2>2. \A d \in CPU, y \in Ctx :
          where'[d][y] \in {"setcpu", "unlock"} => lk'[d][y] \notin held'[d][y]
    BY SMTT(60) DEF IInv, OwnerOK
  <2> QED BY ZenonT(30), <2>1, <2>2, OwnerLocal
<1>5. CpuOK'
  <2>1. \A d \in CPU, y \in Ctx : <<d, y>> # <<c, Active(c)>> => l \notin held[d][y]
    BY ONLY SMTT(60), IInv, c \in CPU, <1>1, <1>3 DEF IInv, OwnerOK, Owns
  <2>2. \A d \in CPU, m \in Lock :
          m \in Holds(d)' <=> m \in Holds(d) /\ m # l
    BY SMTT(60), <2>1 DEF Holds, Ctx
  <2>3. \A d \in CPU, m \in Lock : lkcpu'[m] = d <=> m \in Holds(d)'
    BY SMTT(60), <2>2, SpinlockAssumption DEF IInv, CpuOK
  <2> QED BY SMTT(60), <2>3 DEF IInv, CpuOK
<1>6. NcliOK'
  <2>2. /\ Cardinality(held[c][Active(c)] \ {l}) =
             Cardinality(held[c][Active(c)]) - 1
        /\ Cardinality(held[c][Active(c)]) \in Nat
    BY SMTT(60), HeldCardinality DEF IInv
  <2>3. ncli[c] = Cardinality(held[c][Active(c)])
    BY <2>2 DEF IInv, NcliOK, Depth, InCall
  <2>4. UNCHANGED <<ncli, ifl, inHandler>>
    BY ZenonT(30) DEF cpuvars
  <2>5. ncli'[c] = Cardinality(held'[c][Active(c)]) +
                     IF where'[c][Active(c)] \in InCall THEN 1 ELSE 0
    BY <2>2, <2>3, <2>4 DEF InCall
  <2>6. ifl[c] => ncli[c] = 0 /\ ~inHandler[c]
    BY ZenonT(30) DEF IInv, NcliOK
  <2> QED BY SMTT(60), <2>4, <2>5, <2>6, NcliLocal
<1>7. IntenaOK'
  BY DEF IInv, IntenaOK, IntenaAt, Ctx, cpuvars
<1> QED BY ONLY ZenonT(30), IInv, <1>0, <1>3, <1>4, <1>5, <1>6, <1>7 DEF IInv

(* ReleaseXchg: release()'s xchg preserves the invariant. *)
LEMMA ReleaseXchgIInv ==
  ASSUME IInv, NEW c \in CPU, ReleaseXchg(c) PROVE IInv'
<1>0. TypeOK' BY ZenonT(30), NextTypeOK DEF IInv, SpinNext
<1>1. /\ Active(c) \in Ctx
      /\ \A d \in CPU, y \in Ctx : where'[d][y] =
           IF d = c /\ y = Active(c) THEN "popcli" ELSE where[d][y]
  BY ZenonT(30), GotoEffect DEF ReleaseXchg, IInv, Labels
<1> DEFINE l == lk[c][Active(c)]
<1>3. /\ UNCHANGED <<lkcpu, cpuvars, lk, eflags, held, inPanic>>
      /\ where[c][Active(c)] = "unlock"
      /\ l \in Lock
      /\ \A m \in Lock : locked'[m] = IF m = l THEN 0 ELSE locked[m]
  BY SMTT(60), <1>1 DEF ReleaseXchg, AtStep, IInv, TypeOK
<1> USE <1>1, <1>3
<1>4. OwnerOK'
  <2>1. Owns(c, Active(c), l) BY ZenonT(30) DEF Owns
  <2>2. l \notin held[c][Active(c)] BY ZenonT(30) DEF IInv, OwnerOK
  <2>3. \A d \in CPU, y \in Ctx : Owns(d, y, l) => d = c /\ y = Active(c)
    BY SMTT(60), <2>1 DEF IInv, OwnerOK
  <2>4. \A d \in CPU, y \in Ctx, m \in Lock :
          Owns(d, y, m)' => Owns(d, y, m) /\ m # l
    BY SMTT(60), <2>2, <2>3 DEF Owns
  <2> QED BY <2>4 DEF IInv, OwnerOK
<1>5. CpuOK'
  BY DEF IInv, CpuOK, Holds, Ctx
<1>6. NcliOK'
  BY ZenonT(30), NcliSame DEF InCall, cpuvars
<1>7. IntenaOK'
  BY ZenonT(30) DEF IInv, IntenaOK, IntenaAt, Ctx, cpuvars
<1> QED BY ONLY ZenonT(30), IInv, <1>0, <1>3, <1>4, <1>5, <1>6, <1>7 DEF IInv

(* Popcli: popcli() preserves the invariant. *)
LEMMA PopcliIInv ==
  ASSUME IInv, NEW c \in CPU, Popcli(c) PROVE IInv'
<1>0. TypeOK' BY ZenonT(30), NextTypeOK DEF IInv, SpinNext
<1>8. /\ StepTo(c, "run") /\ UNCHANGED inPanic
      /\ ncli[c] > 0 /\ ncli' = [ncli EXCEPT ![c] = ncli[c] - 1]
      /\ ifl' = [ifl EXCEPT ![c] = (ncli[c] = 1 /\ intena[c])]
      /\ UNCHANGED <<locked, lkcpu, intena, inHandler, lk, eflags, held,
                     scheduled>>
      /\ where[c][Active(c)] = "popcli"
  <2>1. AtStep(c, "popcli") /\ ~ifl[c] /\ ncli[c] > 0
    BY ZenonT(30), NoPanicNow DEF Popcli
  <2>2. ncli[c] # 0 BY <2>1 DEF IInv, TypeOK
  <2> QED BY <2>1, <2>2, Zenon DEF Popcli, AtStep
<1>1. /\ Active(c) \in Ctx
      /\ \A d \in CPU, y \in Ctx : where'[d][y] =
           IF d = c /\ y = Active(c) THEN "run" ELSE where[d][y]
  BY ZenonT(30), <1>8, GotoEffect DEF Popcli, IInv, Labels
<1>3. /\ \A d \in CPU : ncli'[d] = IF d = c THEN ncli[c] - 1 ELSE ncli[d]
      /\ ncli[c] \in Nat \ {0}
  BY <1>8 DEF IInv, TypeOK
<1>9. /\ \A d \in CPU : d # c => ifl'[d] = ifl[d]
      /\ ifl'[c] <=> ncli[c] = 1 /\ intena[c]
  BY <1>8, Zenon DEF IInv, TypeOK
<1>10. inHandler[c] => ~intena[c]
  BY <1>3 DEF IInv, IntenaOK, IntenaAt
<1> USE <1>1, <1>3, <1>8
<1>4. OwnerOK'
  <2>1. \A d \in CPU, y \in Ctx, m \in Lock :
          Owns(d, y, m)' => Owns(d, y, m) /\ locked'[m] = locked[m]
    BY ZenonT(30) DEF Owns
  <2>2. \A d \in CPU, y \in Ctx :
          where'[d][y] \in {"setcpu", "unlock"} => lk'[d][y] \notin held'[d][y]
    BY DEF IInv, OwnerOK
  <2> QED BY ZenonT(30), <2>1, <2>2, OwnerLocal
<1>5. CpuOK'
  <2>1. CpuOK /\ UNCHANGED <<lkcpu, held, lk>>
    BY ZenonT(30) DEF IInv
  <2>2. \A d \in CPU, y \in Ctx : where'[d][y] \in {where[d][y], "run"}
    BY ONLY ZenonT(30), <1>1
  <2> QED
    BY ONLY ZenonT(30), <2>1, <2>2 DEF CpuOK, Holds
<1>6. NcliOK'
  <2>1. Cardinality(held[c][Active(c)]) \in Nat
    BY ZenonT(30), HeldCardinality DEF IInv
  <2>2. ncli[c] = Cardinality(held[c][Active(c)]) + 1
    BY ZenonT(30) DEF IInv, NcliOK, Depth, InCall
  <2>3. ncli'[c] = Cardinality(held'[c][Active(c)]) +
                     IF where'[c][Active(c)] \in InCall THEN 1 ELSE 0
    BY SMTT(60), <2>1, <2>2 DEF InCall
  <2>4. ifl'[c] => ncli'[c] = 0 /\ ~inHandler[c]
    BY SMTT(60), <1>9, <1>10
  <2>5. /\ inHandler' = inHandler
        /\ \A d \in CPU, y \in Ctx : d # c \/ y # Active(c) =>
             where'[d][y] = where[d][y] /\ held'[d][y] = held[d][y]
        /\ \A d \in CPU : d # c => ncli'[d] = ncli[d] /\ ifl'[d] = ifl[d]
    BY ONLY SMTT(60), <1>1, <1>3, <1>8, <1>9
  <2> QED BY ONLY ZenonT(30), IInv, c \in CPU, <2>3, <2>4, <2>5, NcliLocal
<1>7. IntenaOK'
  <2>1. ASSUME NEW d \in CPU, d # c PROVE IntenaAt(d)'
    <3>1. IntenaAt(d) BY ZenonT(30) DEF IInv, IntenaOK
    <3>2. /\ where'[d]["thread"] = where[d]["thread"]
          /\ where'[d]["handler"] = where[d]["handler"]
          /\ ncli'[d] = ncli[d]
      BY ZenonT(30), <2>1 DEF Ctx
    <3> QED BY ZenonT(30), <1>9, <2>1, <3>1, <3>2 DEF IntenaAt
  <2>2. IntenaAt(c) BY ZenonT(30) DEF IInv, IntenaOK
  <2>3. /\ where'[c]["thread"] = "cli" => where[c]["thread"] = "cli"
        /\ where'[c]["handler"] = "cli" => where[c]["handler"] = "cli"
    BY ZenonT(30) DEF Ctx
  <2>4. scheduled[c] /\ ~inHandler[c] => intena[c]
    BY ZenonT(30), <2>2 DEF IntenaAt
  <2>5. ncli'[c] = 0 => ncli[c] = 1
    OBVIOUS
  <2>6. IntenaAt(c)'
    BY ZenonT(30), <1>9, <1>10, <2>2, <2>3, <2>4, <2>5 DEF IntenaAt
  <2> QED BY ZenonT(30), <2>1, <2>6 DEF IntenaOK
<1> QED BY ONLY ZenonT(30), IInv, <1>0, <1>8, <1>4, <1>5, <1>6, <1>7 DEF IInv

(* Sti: scheduler()'s sti() preserves the invariant. *)
LEMMA StiIInv ==
  ASSUME IInv, NEW c \in CPU, Sti(c) PROVE IInv'
<1>0. TypeOK' BY ZenonT(30), NextTypeOK DEF IInv, SpinNext
<1>1. /\ UNCHANGED <<locked, lkcpu, ncli, intena, inHandler, where, lk, eflags,
                     held, inPanic>>
      /\ where[c]["thread"] = "run" /\ ~inHandler[c] /\ held[c]["thread"] = {}
      /\ \A d \in CPU : d # c => ifl'[d] = ifl[d] /\ scheduled'[d] = scheduled[d]
      /\ ifl'[c] /\ scheduled'[c]
  BY ZenonT(30) DEF Sti, AtStep, Active, Holds, IInv, TypeOK
<1>2. ncli[c] = 0
  <2>1. Active(c) = "thread" BY ZenonT(30), <1>1 DEF Active
  <2>2. Depth(c, "thread") = 0
    BY SMTT(60), <1>1, FS_EmptySet DEF Depth, InCall
  <2> QED BY ZenonT(30), <2>1, <2>2 DEF IInv, NcliOK
<1> USE <1>1, <1>2
<1>4. OwnerOK'
  <2>1. OwnerOK /\ UNCHANGED <<locked, where, lk, held>>
    BY ONLY ZenonT(30), IInv, <1>1 DEF IInv
  <2> QED BY ONLY <2>1 DEF OwnerOK, Owns
<1>5. CpuOK'
  <2>1. CpuOK /\ UNCHANGED <<lkcpu, where, lk, held>>
    BY ONLY ZenonT(30), IInv, <1>1 DEF IInv
  <2> QED BY ONLY <2>1 DEF CpuOK, Holds
<1>6. NcliOK'
  <2>1. \A d \in CPU : /\ Active(d)' = Active(d)
                       /\ Depth(d, Active(d))' = Depth(d, Active(d))
    BY ZenonT(30) DEF Active, Depth
  <2> QED BY <2>1 DEF IInv, NcliOK
<1>7. IntenaOK'
  <2>1. ASSUME NEW d \in CPU, d # c PROVE IntenaAt(d)'
    BY ZenonT(30), <2>1 DEF IInv, IntenaOK, IntenaAt
  <2>2. where[c]["handler"] = "run" BY ZenonT(30) DEF IInv, NcliOK
  <2>3. IntenaAt(c)' BY <2>2 DEF IntenaAt
  <2> QED BY ZenonT(30), <2>1, <2>3 DEF IntenaOK
<1> QED BY ONLY ZenonT(30), IInv, <1>0, <1>1, <1>4, <1>5, <1>6, <1>7 DEF IInv

(* Interrupt: taking an interrupt preserves the invariant. *)
LEMMA InterruptIInv ==
  ASSUME IInv, NEW c \in CPU, Interrupt(c) PROVE IInv'
<1>0. TypeOK' BY ZenonT(30), NextTypeOK DEF IInv, SpinNext
<1>1. /\ UNCHANGED <<locked, lkcpu, ncli, intena, where, lk, eflags, held,
                     scheduled, inPanic>>
      /\ \A d \in CPU : d # c => /\ ifl'[d] = ifl[d]
                                 /\ inHandler'[d] = inHandler[d]
      /\ ifl'[c] = FALSE /\ inHandler'[c] = TRUE
  BY ZenonT(30) DEF Interrupt, IInv, TypeOK
<1>2. Active(c) = "thread" /\ Active(c)' = "handler"
  BY ZenonT(30), <1>1 DEF Active, Interrupt
<1>3. /\ held[c]["thread"] = {} /\ where[c]["thread"] \in {"run", "cli"}
      /\ held[c]["handler"] = {} /\ where[c]["handler"] = "run"
      /\ ncli[c] = 0
  <2>1. ncli[c] = 0 /\ ~inHandler[c]
    BY ZenonT(30) DEF Interrupt, IInv, NcliOK
  <2>2. held[c]["handler"] = {} /\ where[c]["handler"] = "run"
    BY ZenonT(30), <1>2, <2>1 DEF IInv, NcliOK, Ctx
  <2>3. where[c]["thread"] \in Labels /\ Cardinality(held[c]["thread"]) \in Nat
    BY HeldCardinality DEF IInv, TypeOK, Ctx
  <2>4. Depth(c, "thread") = 0
    BY ZenonT(30), <1>2, <2>1 DEF IInv, NcliOK
  <2>5. Cardinality(held[c]["thread"]) = 0 /\ where[c]["thread"] \notin InCall
    BY <2>3, <2>4 DEF Depth
  <2>6. held[c]["thread"] = {}
    BY ZenonT(30), <2>5, HeldCardinality DEF IInv, Ctx
  <2> QED BY ZenonT(30), <2>1, <2>2, <2>3, <2>5, <2>6 DEF Labels, InCall
<1> USE <1>1, <1>2, <1>3
<1>4. OwnerOK'
  <2>1. OwnerOK /\ UNCHANGED <<locked, where, lk, held>>
    BY ONLY ZenonT(30), IInv, <1>1 DEF IInv
  <2> QED BY ONLY <2>1 DEF OwnerOK, Owns
<1>5. CpuOK'
  <2>1. CpuOK /\ UNCHANGED <<lkcpu, where, lk, held>>
    BY ONLY ZenonT(30), IInv, <1>1 DEF IInv
  <2> QED BY ONLY <2>1 DEF CpuOK, Holds
<1>6. NcliOK'
  <2>1. \A d \in CPU : d # c => /\ Active(d)' = Active(d)
                                /\ Depth(d, Active(d))' = Depth(d, Active(d))
    BY ZenonT(30) DEF Active, Depth
  <2>2. Depth(c, "handler")' = 0
    BY FS_EmptySet DEF Depth, InCall
  <2>3. ncli'[c] = Depth(c, Active(c))'
    BY ZenonT(30), <2>2
  <2> QED BY <2>1, <2>3 DEF IInv, NcliOK, Ctx
<1>7. IntenaOK'
  <2>1. ASSUME NEW d \in CPU, d # c PROVE IntenaAt(d)'
    BY ZenonT(30), <2>1 DEF IInv, IntenaOK, IntenaAt
  <2>2. IntenaAt(c)
    BY ONLY ZenonT(30), IInv, c \in CPU DEF IInv, IntenaOK
  <2>3. ~(ncli[c] > 0)
    BY ONLY <1>3
  <2>4. IntenaAt(c)'
    BY ONLY ZenonT(30), <1>1, <1>3, <2>2, <2>3 DEF IntenaAt
  <2> QED BY ONLY ZenonT(30), <2>1, <2>4 DEF IntenaOK
<1> QED BY ONLY ZenonT(30), IInv, <1>0, <1>1, <1>4, <1>5, <1>6, <1>7 DEF IInv

(* Iret: returning from one preserves the invariant. *)
LEMMA IretIInv ==
  ASSUME IInv, NEW c \in CPU, Iret(c) PROVE IInv'
<1>0. TypeOK' BY ZenonT(30), NextTypeOK DEF IInv, SpinNext
<1>1. /\ UNCHANGED <<locked, lkcpu, ncli, intena, where, lk, eflags, held,
                     scheduled, inPanic>>
      /\ \A d \in CPU : d # c => /\ ifl'[d] = ifl[d]
                                 /\ inHandler'[d] = inHandler[d]
      /\ ifl'[c] = TRUE /\ inHandler'[c] = FALSE
  BY ZenonT(30) DEF Iret, IInv, TypeOK
<1>2. Active(c) = "handler" /\ Active(c)' = "thread"
  BY ZenonT(30), <1>1 DEF Active, Iret
<1>3. /\ held[c]["thread"] = {} /\ where[c]["thread"] \in {"run", "cli"}
      /\ held[c]["handler"] = {} /\ where[c]["handler"] = "run"
      /\ ncli[c] = 0
  <2>1. held[c]["thread"] = {} /\ where[c]["thread"] \in {"run", "cli"}
    BY ZenonT(30), <1>2 DEF IInv, NcliOK, Ctx
  <2>2. held[c]["handler"] = {} /\ where[c]["handler"] = "run"
    BY ZenonT(30), <1>2 DEF Iret, AtStep
  <2>3. Depth(c, "handler") = 0
    BY SMTT(60), <2>2, FS_EmptySet DEF Depth, InCall
  <2> QED BY ZenonT(30), <1>2, <2>1, <2>2, <2>3 DEF IInv, NcliOK
<1> USE <1>1, <1>2, <1>3
<1>4. OwnerOK'
  <2>1. OwnerOK /\ UNCHANGED <<locked, where, lk, held>>
    BY ONLY ZenonT(30), IInv, <1>1 DEF IInv
  <2> QED BY ONLY <2>1 DEF OwnerOK, Owns
<1>5. CpuOK'
  <2>1. CpuOK /\ UNCHANGED <<lkcpu, where, lk, held>>
    BY ONLY ZenonT(30), IInv, <1>1 DEF IInv
  <2> QED BY ONLY <2>1 DEF CpuOK, Holds
<1>6. NcliOK'
  <2>1. \A d \in CPU : d # c => /\ Active(d)' = Active(d)
                                /\ Depth(d, Active(d))' = Depth(d, Active(d))
    BY ZenonT(30) DEF Active, Depth
  <2>2. Depth(c, "thread")' = 0
    BY FS_EmptySet DEF Depth, InCall
  <2>3. ncli'[c] = Depth(c, Active(c))'
    BY ZenonT(30), <2>2
  <2> QED BY <2>1, <2>3 DEF IInv, NcliOK, Ctx
<1>7. IntenaOK'
  <2>1. ASSUME NEW d \in CPU, d # c PROVE IntenaAt(d)'
    BY ZenonT(30), <2>1 DEF IInv, IntenaOK, IntenaAt
  <2>2. IntenaAt(c)
    BY ONLY ZenonT(30), IInv, c \in CPU DEF IInv, IntenaOK
  <2>3. ~(ncli[c] > 0)
    BY ONLY <1>3
  <2>4. IntenaAt(c)'
    BY ONLY ZenonT(30), <1>1, <1>3, <2>2, <2>3 DEF IntenaAt
  <2> QED BY ONLY ZenonT(30), <2>1, <2>4 DEF IntenaOK
<1> QED BY ONLY ZenonT(30), IInv, <1>0, <1>1, <1>4, <1>5, <1>6, <1>7 DEF IInv
-----------------------------------------------------------------------------
(* The invariant behind the theorems: every lock word that is 1 has one    *)
(* owner, lk->cpu is right, and ncli and intena say what popcli must do.   *)
THEOREM InductiveInvariant == SpinSpec => []IInv
<1>1. SpinInit => IInv BY InitIInv
<1>2. IInv /\ [SpinNext]_spinvars => IInv'
  <2> SUFFICES ASSUME IInv, [SpinNext]_spinvars PROVE IInv'
      OBVIOUS
  <2>1. CASE UNCHANGED spinvars
    <3> USE <2>1 DEF spinvars, cpuvars, IInv
    <3>1. TypeOK' BY SMTT(60) DEF TypeOK
    <3>2. OwnerOK' BY SMTT(60) DEF OwnerOK, Owns
    <3>3. CpuOK' BY SMTT(60) DEF CpuOK, Holds
    <3>4. NcliOK' BY SMTT(60) DEF NcliOK, Depth, Active
    <3>5. IntenaOK' BY SMTT(60) DEF IntenaOK, IntenaAt
    <3> QED BY SMTT(60), <3>1, <3>2, <3>3, <3>4, <3>5
  <2>2. CASE SpinNext
    BY SMTT(60), <2>2, StiIInv, AcquireCallIInv, PushcliIInv, AcquireCheckIInv,
       AcquireXchgIInv, AcquireSetCpuIInv, ReleaseCallIInv, ReleaseXchgIInv,
       PopcliIInv, InterruptIInv, IretIInv DEF SpinNext
  <2> QED BY <2>1, <2>2
<1> QED BY <1>1, <1>2, PTL DEF SpinSpec

(* Every variable keeps its type; a lock word is never anything but 0 or 1. *)
THEOREM TypesHold == SpinSpec => []TypeOK
<1>1. IInv => TypeOK BY SMTT(60) DEF IInv
<1> QED BY <1>1, InductiveInvariant, PTL

(* acquire() and release() exclude: for any number of CPUs and locks, no   *)
(* two contexts hold a lock at once.                                       *)
THEOREM LocksExclude == SpinSpec => []MutualExclusion
<1>1. IInv => MutualExclusion
  BY DEF IInv, TypeOK, OwnerOK, Owns, MutualExclusion
<1> QED BY <1>1, InductiveInvariant, PTL

(* No panic of acquire, release or popcli is reachable, whatever the       *)
(* interleaving of CPUs and interrupts.                                    *)
THEOREM PanicsUnreachable == SpinSpec => []NoPanic
<1>1. IInv => NoPanic BY SMTT(60) DEF IInv, NoPanic
<1> QED BY <1>1, InductiveInvariant, PTL

(* No handler runs on a CPU whose thread holds a lock.                     *)
THEOREM HandlersFindNoLock == SpinSpec => []NoHandlerOverLock
<1>1. IInv => NoHandlerOverLock
  BY SMTT(60) DEF IInv, NcliOK, NoHandlerOverLock, Active, Ctx
<1> QED BY <1>1, InductiveInvariant, PTL

(* release() of the last lock gives a thread its interrupts back.          *)
THEOREM InterruptsComeBack == SpinSpec => []InterruptsRestored
<1>1. ASSUME IInv, NEW c \in CPU, scheduled[c], ~inHandler[c],
             where[c]["thread"] = "run", held[c]["thread"] = {}
      PROVE  ifl[c]
  <2>1. Active(c) = "thread" BY SMTT(60), <1>1 DEF Active
  <2>2. Depth(c, "thread") = 0
    BY SMTT(60), <1>1, FS_EmptySet DEF Depth, InCall
  <2>3. ncli[c] = 0 BY SMTT(60), <1>1, <2>1, <2>2 DEF IInv, NcliOK
  <2> QED BY <1>1, <2>3 DEF IInv, IntenaOK, IntenaAt
<1>2. IInv => InterruptsRestored BY <1>1 DEF InterruptsRestored
<1> QED BY <1>2, InductiveInvariant, PTL
=============================================================================
