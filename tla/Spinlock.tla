------------------------------ MODULE Spinlock ------------------------------
(***************************************************************************)
(* Spin locks (spinlock.c) on a multiprocessor with interrupts.            *)
(*                                                                         *)
(* Each CPU runs a thread that an interrupt handler may suspend; both call *)
(* acquire and release.  A handler runs with interrupts off until iret     *)
(* (tvinit installs interrupt gates), so handlers do not nest.  Every      *)
(* memory access another CPU or a handler could observe is a step of its   *)
(* own: the read of eflags, cli with the ncli bookkeeping, the xchg of     *)
(* lk->locked and the store to lk->cpu.                                    *)
(*                                                                         *)
(* Locks are numbered in the order in which nested calls take them: the    *)
(* callers of acquire obey one lock order (Notes, "lock order").           *)
(***************************************************************************)
EXTENDS Naturals

CONSTANTS CPU,    \* processors
          NLOCK,  \* number of spin locks
          None    \* the null struct cpu pointer

ASSUME SpinlockAssumption == /\ NLOCK \in Nat \ {0}
                             /\ None \notin CPU

Lock == 1..NLOCK

Ctx == {"thread", "handler"}

VARIABLES
  locked,    \* lk->locked: is the lock held?
  lkcpu,     \* lk->cpu: the CPU recorded as holding it
  ifl,       \* FL_IF of each CPU: are interrupts enabled?
  ncli,      \* cpu->ncli: depth of pushcli nesting
  intena,    \* cpu->intena: were interrupts enabled before pushcli?
  inHandler, \* is the CPU running an interrupt handler?
  where,     \* where each context is in acquire or release
  lk,        \* the argument of the call in progress
  eflags,    \* pushcli's local variable
  held,      \* locks the context has acquired and not yet released
  scheduled, \* has the CPU entered scheduler() and executed its sti()?
  inPanic    \* has a panic been called?

cpuvars == <<ifl, ncli, intena, inHandler, scheduled>>
spinvars == <<locked, lkcpu, cpuvars, where, lk, eflags, held, inPanic>>

Labels == {"run", "cli", "check", "spin", "setcpu", "unlock", "popcli"}

(* The context that executes on CPU c.                                     *)
Active(c) == IF inHandler[c] THEN "handler" ELSE "thread"

Holds(c) == held[c]["thread"] \cup held[c]["handler"]

(* holding(): the test acquire and release make before anything else.      *)
holding(c, l) == locked[l] = 1 /\ lkcpu[l] = c

StepTo(c, label) == where' = [where EXCEPT ![c][Active(c)] = label]

AtStep(c, label) == ~inPanic /\ where[c][Active(c)] = label

-----------------------------------------------------------------------------
(* main() runs with interrupts off; each CPU enables them in scheduler().  *)
SpinInit ==
  /\ locked = [l \in Lock |-> 0]
  /\ lkcpu = [l \in Lock |-> None]
  /\ ifl = [c \in CPU |-> FALSE]
  /\ ncli = [c \in CPU |-> 0]
  /\ intena = [c \in CPU |-> FALSE]
  /\ inHandler = [c \in CPU |-> FALSE]
  /\ where = [c \in CPU |-> [x \in Ctx |-> "run"]]
  /\ lk = [c \in CPU |-> [x \in Ctx |-> 1]]
  /\ eflags = [c \in CPU |-> [x \in Ctx |-> FALSE]]
  /\ held = [c \in CPU |-> [x \in Ctx |-> {}]]
  /\ scheduled = [c \in CPU |-> FALSE]
  /\ inPanic = FALSE

(* scheduler() enables interrupts on its CPU, holding no lock.             *)
Sti(c) ==
  /\ AtStep(c, "run") /\ ~inHandler[c] /\ Holds(c) = {}
  /\ ifl' = [ifl EXCEPT ![c] = TRUE]
  /\ scheduled' = [scheduled EXCEPT ![c] = TRUE]
  /\ UNCHANGED <<locked, lkcpu, ncli, intena, inHandler, where, lk, eflags, held,
                 inPanic>>

(* A caller enters acquire(l): pushcli() reads eflags.                     *)
AcquireCall(c, l) ==
  /\ AtStep(c, "run")
  /\ \A k \in Holds(c) : k < l
  /\ lk' = [lk EXCEPT ![c][Active(c)] = l]
  /\ eflags' = [eflags EXCEPT ![c][Active(c)] = ifl[c]]
  /\ StepTo(c, "cli")
  /\ UNCHANGED <<locked, lkcpu, cpuvars, held, inPanic>>

(* Mutant: pushcli() counts but does not disable interrupts.               *)
PushcliNoCli(c) ==
  /\ AtStep(c, "cli")
  /\ ncli' = [ncli EXCEPT ![c] = @ + 1]
  /\ intena' = IF ncli[c] = 0
               THEN [intena EXCEPT ![c] = eflags[c][Active(c)]]
               ELSE intena
  /\ StepTo(c, "check")
  /\ UNCHANGED <<locked, lkcpu, ifl, inHandler, lk, eflags, held, scheduled,
                 inPanic>>

(* Mutant: pushcli() reads eflags after cli(), when FL_IF is already clear. *)
PushcliReadAfterCli(c) ==
  /\ AtStep(c, "cli")
  /\ ifl' = [ifl EXCEPT ![c] = FALSE]
  /\ ncli' = [ncli EXCEPT ![c] = @ + 1]
  /\ intena' = IF ncli[c] = 0 THEN [intena EXCEPT ![c] = ifl'[c]] ELSE intena
  /\ StepTo(c, "check")
  /\ UNCHANGED <<locked, lkcpu, inHandler, lk, eflags, held, scheduled,
                 inPanic>>

(* pushcli(): cli(), then ncli and intena, which only this CPU accesses.   *)
Pushcli(c) ==
  /\ AtStep(c, "cli")
  /\ ifl' = [ifl EXCEPT ![c] = FALSE]
  /\ ncli' = [ncli EXCEPT ![c] = @ + 1]
  /\ intena' = IF ncli[c] = 0
               THEN [intena EXCEPT ![c] = eflags[c][Active(c)]]
               ELSE intena
  /\ StepTo(c, "check")
  /\ UNCHANGED <<locked, lkcpu, inHandler, lk, eflags, held, scheduled,
                 inPanic>>

(* acquire() panics when this CPU already holds the lock.                  *)
AcquireCheck(c) ==
  /\ AtStep(c, "check")
  /\ IF holding(c, lk[c][Active(c)])
     THEN inPanic' = TRUE /\ UNCHANGED where
     ELSE StepTo(c, "spin") /\ UNCHANGED inPanic
  /\ UNCHANGED <<locked, lkcpu, cpuvars, lk, eflags, held>>

(* Mutant: acquire() stores 1 without testing what the word held.          *)
AcquireXchgNoTest(c) ==
  /\ AtStep(c, "spin")
  /\ locked' = [locked EXCEPT ![lk[c][Active(c)]] = 1]
  /\ StepTo(c, "setcpu")
  /\ UNCHANGED <<lkcpu, cpuvars, lk, eflags, held, inPanic>>

(* The xchg that finds the lock free; the others change nothing.           *)
AcquireXchg(c) ==
  /\ AtStep(c, "spin")
  /\ locked[lk[c][Active(c)]] = 0
  /\ locked' = [locked EXCEPT ![lk[c][Active(c)]] = 1]
  /\ StepTo(c, "setcpu")
  /\ UNCHANGED <<lkcpu, cpuvars, lk, eflags, held, inPanic>>

(* lk->cpu = cpu, and acquire returns.                                     *)
AcquireSetCpu(c) ==
  LET x == Active(c) IN
  /\ AtStep(c, "setcpu")
  /\ lkcpu' = [lkcpu EXCEPT ![lk[c][x]] = c]
  /\ held' = [held EXCEPT ![c][x] = @ \cup {lk[c][x]}]
  /\ StepTo(c, "run")
  /\ UNCHANGED <<locked, cpuvars, lk, eflags, inPanic>>

(* A caller enters release(l) for a lock it acquired.                      *)
ReleaseCall(c, l) ==
  LET x == Active(c) IN
  /\ AtStep(c, "run")
  /\ l \in held[c][x]
  /\ lk' = [lk EXCEPT ![c][x] = l]
  /\ IF holding(c, l)
     THEN /\ lkcpu' = [lkcpu EXCEPT ![l] = None]
          /\ held' = [held EXCEPT ![c][x] = @ \ {l}]
          /\ StepTo(c, "unlock")
          /\ UNCHANGED inPanic
     ELSE inPanic' = TRUE /\ UNCHANGED <<lkcpu, held, where>>
  /\ UNCHANGED <<locked, cpuvars, eflags>>

(* The xchg that frees the lock.                                           *)
ReleaseXchg(c) ==
  /\ AtStep(c, "unlock")
  /\ locked' = [locked EXCEPT ![lk[c][Active(c)]] = 0]
  /\ StepTo(c, "popcli")
  /\ UNCHANGED <<lkcpu, cpuvars, lk, eflags, held, inPanic>>

(* popcli(): two panics, then sti() when the outermost pushcli is undone.  *)
Popcli(c) ==
  /\ AtStep(c, "popcli")
  /\ IF ifl[c] \/ ncli[c] = 0
     THEN inPanic' = TRUE /\ UNCHANGED <<ncli, ifl, where>>
     ELSE /\ ncli' = [ncli EXCEPT ![c] = @ - 1]
          /\ ifl' = [ifl EXCEPT ![c] = ncli[c] = 1 /\ intena[c]]
          /\ StepTo(c, "run")
          /\ UNCHANGED inPanic
  /\ UNCHANGED <<locked, lkcpu, intena, inHandler, lk, eflags, held, scheduled>>

(* An enabled interrupt suspends the thread at any point; the gate clears  *)
(* FL_IF.                                                                  *)
Interrupt(c) ==
  /\ ~inPanic /\ ifl[c] /\ ~inHandler[c]
  /\ inHandler' = [inHandler EXCEPT ![c] = TRUE]
  /\ ifl' = [ifl EXCEPT ![c] = FALSE]
  /\ UNCHANGED <<locked, lkcpu, ncli, intena, where, lk, eflags, held, scheduled,
                 inPanic>>

(* trapret: iret restores the interrupted eflags, whose FL_IF was set.     *)
Iret(c) ==
  /\ inHandler[c] /\ AtStep(c, "run") /\ held[c]["handler"] = {}
  /\ inHandler' = [inHandler EXCEPT ![c] = FALSE]
  /\ ifl' = [ifl EXCEPT ![c] = TRUE]
  /\ UNCHANGED <<locked, lkcpu, ncli, intena, where, lk, eflags, held, scheduled,
                 inPanic>>

SpinNext == \E c \in CPU :
  \/ Sti(c) \/ Pushcli(c) \/ AcquireCheck(c) \/ AcquireXchg(c)
  \/ AcquireSetCpu(c) \/ ReleaseXchg(c) \/ Popcli(c) \/ Interrupt(c) \/ Iret(c)
  \/ \E l \in Lock : AcquireCall(c, l) \/ ReleaseCall(c, l)

SpinSpec == SpinInit /\ [][SpinNext]_spinvars

-----------------------------------------------------------------------------
(* Every variable stays in its type; in particular a lock word is 0 or 1.  *)
TypeOK ==
  /\ locked \in [Lock -> {0, 1}]
  /\ lkcpu \in [Lock -> CPU \cup {None}]
  /\ ifl \in [CPU -> BOOLEAN]
  /\ ncli \in [CPU -> Nat]
  /\ intena \in [CPU -> BOOLEAN]
  /\ inHandler \in [CPU -> BOOLEAN]
  /\ where \in [CPU -> [Ctx -> Labels]]
  /\ lk \in [CPU -> [Ctx -> Lock]]
  /\ eflags \in [CPU -> [Ctx -> BOOLEAN]]
  /\ held \in [CPU -> [Ctx -> SUBSET Lock]]
  /\ scheduled \in [CPU -> BOOLEAN]
  /\ inPanic \in BOOLEAN

(* acquire() gives a lock to one holder at a time: no two contexts, on two  *)
(* CPUs or a thread and the handler that interrupted it, are both between   *)
(* the return of acquire and the call of release.                           *)
MutualExclusion ==
  \A c, d \in CPU : \A x, y \in Ctx :
    <<c, x>> # <<d, y>> => held[c][x] \cap held[d][y] = {}

(* The panics of acquire ("acquire"), release ("release") and popcli        *)
(* ("popcli - interruptible", "popcli") are unreachable: in particular no   *)
(* handler asks for a lock its own CPU holds, and pushcli and popcli match. *)
NoPanic == ~inPanic

(* Interrupts are off from pushcli to popcli, so a handler cannot run, and  *)
(* spin for ever, on a CPU whose thread holds a lock.                       *)
NoHandlerOverLock ==
  \A c \in CPU : inHandler[c] => held[c]["thread"] = {}

(* Once scheduler() has enabled interrupts, a thread that holds no lock and *)
(* is in no call runs with interrupts enabled: no handler that ran between  *)
(* pushcli's read of eflags and its cli makes release() leave them off.     *)
InterruptsRestored ==
  \A c \in CPU :
    (/\ scheduled[c] /\ ~inHandler[c] /\ ~inPanic
     /\ where[c]["thread"] = "run" /\ held[c]["thread"] = {}) => ifl[c]
=============================================================================
