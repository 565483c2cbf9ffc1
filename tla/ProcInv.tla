------------------------------ MODULE ProcInv -------------------------------
(***************************************************************************)
(* The inductive invariant of the process table and the scheduler, for any *)
(* number of slots, CPUs, pids and transactions; what each step does; and  *)
(* the proofs that every step keeps p->state in line with the thread, each *)
(* stack on one CPU, and ptable.lock around swtch.                         *)
(***************************************************************************)
EXTENDS Proc, TLAPS

(* Points at which a thread holds log.lock.                                *)
LogLocked == {"begin_test", "sleep", "commit_wake"}

(* Points at which a thread executes code of its own, outside swtch.       *)
Working == Preemptible \cup LogLocked

(* Points at which fork() has a slot that is not a process yet.            *)
Forking == {"fork_kstack", "fork_copy", "fork_run"}

(* Points of a system call that does not end in exit().                    *)
InSyscall == Forking \cup {"fork", "wait", "wait_swtch", "wait_resume", "kill", "sysret"}

Yielding == {"yield_swtch", "yield_resume"}

(* Where a thread is, a timer interrupt apart.                             *)
Point(p) == IF pc[p] \in Yielding THEN resume[p] ELSE pc[p]

Alive == {"RUNNABLE", "RUNNING", "SLEEPING"}

-----------------------------------------------------------------------------
TypeOK ==
  /\ state \in [Slot -> States]
  /\ pid \in [Slot -> Nat]
  /\ parent \in [Slot -> Slot \cup {0}]
  /\ killed \in [Slot -> BOOLEAN]
  /\ chan \in [Slot -> 0..LOG]
  /\ kstack \in [Slot -> BOOLEAN]
  /\ nextpid \in Nat \ {0}
  /\ ptlock \in CPU \cup {None}
  /\ proc \in [CPU -> Slot \cup {0}]
  /\ scan \in [CPU -> Nat]
  /\ ifl \in [CPU -> BOOLEAN]
  /\ intena \in [CPU -> BOOLEAN]
  /\ pc \in [Slot -> Labels]
  /\ resume \in [Slot -> Preemptible]
  /\ after \in [Slot -> {"sysret", "exit"}]
  /\ np \in [Slot -> Slot \cup {0}]
  /\ sintena \in [Slot -> BOOLEAN]
  /\ loglock \in Slot \cup {0}
  /\ busy \in BOOLEAN
  /\ ntrans \in Nat
  /\ panicked \in BOOLEAN

(* What p->state is at each point of the thread.                           *)
StateOK ==
  \A p \in Slot :
    /\ pc[p] \in Working => state[p] = "RUNNING"
    /\ pc[p] = "yield_swtch" => state[p] = "RUNNABLE"
    /\ pc[p] \in {"wait_swtch", "sleep_swtch"} => state[p] = "SLEEPING"
    /\ pc[p] = "exit_swtch" => state[p] = "ZOMBIE"
    /\ pc[p] = "dead" => state[p] \in {"UNUSED", "EMBRYO", "ZOMBIE"}
    /\ pc[p] = "forkret" => state[p] \in {"EMBRYO", "RUNNABLE", "RUNNING"}
    /\ pc[p] = "yield_resume" => state[p] \in {"RUNNABLE", "RUNNING"}
    /\ pc[p] \in {"wait_resume", "sleep_resume"} => state[p] \in Alive
    /\ state[p] \in Alive \cup {"ZOMBIE"} => kstack[p]

(* A thread is executed by a CPU while it is RUNNING and until it has left *)
(* its stack, and then by one.                                             *)
Executing(p) == state[p] = "RUNNING" \/ pc[p] \in Switching

CpuOK ==
  /\ \A c, d \in CPU : proc[c] # 0 /\ proc[c] = proc[d] => c = d
  /\ \A c \in CPU : proc[c] # 0 => Executing(proc[c])
  /\ \A p \in Slot : Executing(p) => \E c \in CPU : proc[c] = p

(* Around swtch a thread has ptable.lock.                                  *)
LockOK ==
  \A c \in CPU : proc[c] # 0 /\ pc[proc[c]] \in Switching \cup Resuming => ptlock = c

(* log.lock is held exactly between its acquire and release, and log.busy  *)
(* does not change between begin_trans's test and its sleep.               *)
LogOK ==
  /\ \A p \in Slot : pc[p] \in LogLocked <=> loglock = p
  /\ \A p \in Slot : pc[p] = "sleep" => busy

(* fork()'s np is an EMBRYO of its own, as far as it has been built.       *)
ForkOK ==
  /\ \A p \in Slot :
       Point(p) \in Forking =>
         /\ np[p] \in Slot
         /\ state[np[p]] = "EMBRYO"
         /\ Point(p) = "fork_kstack" => pc[np[p]] = "dead" /\ parent[np[p]] = 0
         /\ Point(p) = "fork_copy" =>
              pc[np[p]] = "forkret" /\ kstack[np[p]] /\ parent[np[p]] = 0
         /\ Point(p) = "fork_run" =>
              pc[np[p]] = "forkret" /\ kstack[np[p]] /\ parent[np[p]] = p
  /\ \A p, q \in Slot :
       Point(p) \in Forking /\ Point(q) \in Forking /\ np[p] = np[q] => p = q

(* exit() marks what follows its transaction, and nothing else is marked.  *)
AfterOK == \A p \in Slot : Point(p) \in InSyscall => after[p] = "sysret"

(* init does not exit, and has no parent.                                  *)
InitOK ==
  /\ state[initproc] \in Alive
  /\ Point(initproc) \notin {"exit_lock", "exit_swtch", "dead"}
  /\ after[initproc] = "sysret"
  /\ parent[initproc] = 0

(* What cpu->intena holds, on the CPU or in sched()'s local, is what the   *)
(* thread's next release restores.                                         *)
IntOK ==
  /\ \A c \in CPU : proc[c] # 0 =>
       /\ pc[proc[c]] \in Switching \cup LogLocked => ~ifl[c]
       /\ pc[proc[c]] \in Preemptible => ifl[c] \/ Exiting(proc[c])
       /\ pc[proc[c]] \in {"wait_swtch", "wait_resume"} => intena[c]
       /\ pc[proc[c]] \in LogLocked \cup {"sleep_swtch", "sleep_resume"} =>
            intena[c] \/ after[proc[c]] = "exit"
  /\ \A p \in Slot : ~Executing(p) =>
       /\ pc[p] = "wait_resume" => sintena[p]
       /\ pc[p] = "sleep_resume" => sintena[p] \/ after[p] = "exit"

(* A free slot is nobody's child, and nobody is their own parent.          *)
ParentOK ==
  \A p \in Slot : /\ state[p] = "UNUSED" => parent[p] = 0
                  /\ parent[p] # p

IInv == /\ TypeOK /\ StateOK /\ CpuOK /\ LockOK /\ LogOK /\ ForkOK /\ AfterOK
        /\ InitOK /\ IntOK /\ ParentOK /\ OneTransaction /\ NoLostWakeup
        /\ FamilySound /\ PanicOnlyInitExit

-----------------------------------------------------------------------------
(* The scheduler's own steps that switch to nobody.                        *)
Scans(c) == SchedAcquire(c) \/ SchedRelease(c)

(* The thread of CPU c goes from one point to another, and no other does.  *)
Goes(c, from, to) ==
  /\ proc[c] \in Slot /\ pc[proc[c]] = from /\ pc'[proc[c]] = to
  /\ \A q \in Slot : q # proc[c] => pc'[q] = pc[q]

(* The interrupt flag and cpu->intena of CPU c, and of no other, are set.  *)
Irqs(c, i, n) ==
  /\ ifl'[c] = i /\ intena'[c] = n
  /\ \A d \in CPU : d # c => ifl'[d] = ifl[d] /\ intena'[d] = intena[d]

(* p->state becomes s, and no other slot's changes.                        *)
Becomes(p, s) == state'[p] = s /\ \A q \in Slot : q # p => state'[q] = state[q]

(* Slot numbers, the null slot and the channel of the log.                 *)
LEMMA SlotFacts == /\ 0 \notin Slot /\ initproc \in Slot /\ LOG \notin Slot
                   /\ Slot \subseteq Nat /\ LOG \in Nat
                   /\ Slot \subseteq 0..LOG /\ LOG \in 0..LOG /\ 0 \in 0..LOG
  BY ProcAssumption DEF Slot, initproc, LOG

(* The thread that a CPU executes, and what its point says of it.          *)
LEMMA ThreadFacts ==
  ASSUME TypeOK, CpuOK, StateOK, NEW c \in CPU, proc[c] # 0
  PROVE  /\ proc[c] \in Slot
         /\ pc[proc[c]] # "dead"
         /\ pc[proc[c]] \notin Switching => state[proc[c]] = "RUNNING"
         /\ \A p \in Slot : pc[p] = "dead" \/ state[p] = "EMBRYO" => p # proc[c]
<1>1. proc[c] \in Slot
  BY ZenonT(30) DEF TypeOK
<1>2. Executing(proc[c])
  BY ZenonT(30) DEF CpuOK
<1>3. \A p \in Slot : Executing(p) => pc[p] # "dead" /\ state[p] # "EMBRYO"
  BY ZenonT(30) DEF StateOK, Executing, Switching
<1> QED
  BY ZenonT(30), <1>1, <1>2, <1>3 DEF Executing

(* Whoever has ptable.lock, or finds it free, sees no other thread in      *)
(* swtch.                                                                  *)
LEMMA OthersAway ==
  ASSUME TypeOK, CpuOK, LockOK, NEW c \in CPU, ptlock \in {None, c}
  PROVE  \A p \in Slot :
           p # proc[c] => /\ pc[p] \notin Switching
                          /\ state[p] = "RUNNING" => pc[p] \notin Resuming
  BY SlotFacts, ProcAssumption DEF TypeOK, CpuOK, LockOK, Executing

(* The slot that a forking thread is filling.                              *)
LEMMA EmbryoFacts ==
  ASSUME TypeOK, StateOK, ForkOK, NEW p \in Slot, pc[p] \in Forking
  PROVE  /\ np[p] \in Slot /\ np[p] # p /\ state[p] = "RUNNING" /\ state[np[p]] = "EMBRYO"
         /\ pc[p] = "fork_kstack" => pc[np[p]] = "dead" /\ parent[np[p]] = 0
         /\ pc[p] # "fork_kstack" => pc[np[p]] = "forkret" /\ kstack[np[p]]
         /\ pc[p] = "fork_copy" => parent[np[p]] = 0
         /\ pc[p] = "fork_run" => parent[np[p]] = p
<1>1. Point(p) = pc[p]
  BY ZenonT(30) DEF Point, Yielding, Forking
<1>2. state[p] = "RUNNING"
  BY SMTT(30) DEF StateOK, Working, Preemptible, Forking
<1> QED
  BY ZenonT(30), <1>1, <1>2 DEF ForkOK, Forking

(* None of sched()'s panics is reachable; what it does to the thread.      *)
SchedDoes(c) ==
  /\ TypeOK'
  /\ proc[c] \in Slot
  /\ ptlock = c
  /\ \/ pc[proc[c]] = "yield_swtch" /\ pc'[proc[c]] = "yield_resume"
     \/ pc[proc[c]] = "wait_swtch" /\ pc'[proc[c]] = "wait_resume"
     \/ pc[proc[c]] = "sleep_swtch" /\ pc'[proc[c]] = "sleep_resume"
     \/ pc[proc[c]] = "exit_swtch" /\ pc'[proc[c]] = "dead"
  /\ \A q \in Slot : q # proc[c] => pc'[q] = pc[q] /\ sintena'[q] = sintena[q]
  /\ sintena'[proc[c]] = intena[c]
  /\ proc'[c] = 0 /\ \A d \in CPU : d # c => proc'[d] = proc[d]
  /\ UNCHANGED <<state, pid, parent, killed, chan, kstack, nextpid, ptlock, ifl,
                 intena, resume, after, np, loglock, busy, ntrans, panicked>>

(* What Sched(c) does.                                                   *)
LEMMA SchedFacts ==
  ASSUME TypeOK, StateOK, LockOK, LogOK, IntOK, NEW c \in CPU, Sched(c) PROVE SchedDoes(c)
<1>1. proc[c] \in Slot /\ proc[c] # 0 /\ pc[proc[c]] \in Switching
  BY ZenonT(30) DEF Sched, TypeOK
<1>2. ~(ptlock # c \/ loglock = proc[c] \/ state[proc[c]] = "RUNNING" \/ ifl[c])
  BY ZenonT(30), <1>1 DEF LockOK, LogOK, IntOK, StateOK, Switching, LogLocked
<1>3. /\ sintena' = [sintena EXCEPT ![proc[c]] = intena[c]]
      /\ pc' = [pc EXCEPT ![proc[c]] = ReturnPoint[pc[proc[c]]]]
      /\ proc' = [proc EXCEPT ![c] = 0]
      /\ scan' = [scan EXCEPT ![c] = @ + 1]
      /\ UNCHANGED <<state, pid, parent, killed, chan, kstack, nextpid, ptlock, ifl,
                     intena, resume, after, np, loglock, busy, ntrans, panicked>>
  BY ZenonT(30), <1>2 DEF Sched, Goto, ptable, log
<1>4. /\ ReturnPoint["yield_swtch"] = "yield_resume"
      /\ ReturnPoint["wait_swtch"] = "wait_resume"
      /\ ReturnPoint["sleep_swtch"] = "sleep_resume"
      /\ ReturnPoint["exit_swtch"] = "dead"
  BY ZenonT(30) DEF ReturnPoint
<1>5. ReturnPoint[pc[proc[c]]] \in Labels
  BY ZenonT(30), <1>1, <1>4 DEF Switching, Labels, Resuming
<1>6. pc'[proc[c]] = ReturnPoint[pc[proc[c]]]
  BY ZenonT(30), <1>1, <1>3 DEF TypeOK
<1>7. \/ pc[proc[c]] = "yield_swtch" /\ pc'[proc[c]] = "yield_resume"
      \/ pc[proc[c]] = "wait_swtch" /\ pc'[proc[c]] = "wait_resume"
      \/ pc[proc[c]] = "sleep_swtch" /\ pc'[proc[c]] = "sleep_resume"
      \/ pc[proc[c]] = "exit_swtch" /\ pc'[proc[c]] = "dead"
  BY ONLY ZenonT(30), <1>1, <1>4, <1>6 DEF Switching
<1>8. TypeOK'
  BY <1>1, <1>3, <1>5 DEF TypeOK
<1> QED
  BY <1>1, <1>2, <1>3, <1>7, <1>8 DEF TypeOK, SchedDoes

(* The points and the states that the steps assign.                        *)
LEMMA LabelFacts ==
  /\ \A l \in Preemptible : l \in Labels
  /\ "user" \in Labels /\ "fork_kstack" \in Labels /\ "fork_copy" \in Labels
  /\ "fork_run" \in Labels /\ "begin" \in Labels /\ "relock" \in Labels
  /\ "in_trans" \in Labels /\ "commit" \in Labels /\ "sysret" \in Labels
  /\ "exit" \in Labels /\ "exit_lock" \in Labels /\ "yield_swtch" \in Labels
  /\ "wait_swtch" \in Labels /\ "sleep_swtch" \in Labels /\ "exit_swtch" \in Labels
  /\ "forkret" \in Labels /\ "begin_test" \in Labels /\ "sleep" \in Labels
  /\ "commit_wake" \in Labels /\ "dead" \in Labels
  /\ Calls \subseteq Labels /\ "user" \in Preemptible
  /\ "UNUSED" \in States /\ "EMBRYO" \in States /\ "SLEEPING" \in States
  /\ "RUNNABLE" \in States /\ "RUNNING" \in States /\ "ZOMBIE" \in States
  BY ZenonT(30), ProcAssumption DEF Labels, Preemptible, Switching, Resuming, States

(* allocproc has found a free slot for fork().                             *)
Allocated(c) ==
  /\ np'[proc[c]] \in Slot /\ state[np'[proc[c]]] = "UNUSED"
  /\ Becomes(np'[proc[c]], "EMBRYO")
  /\ nextpid' = nextpid + 1 /\ pid'[np'[proc[c]]] = nextpid
  /\ \A q \in Slot : q # np'[proc[c]] => pid'[q] = pid[q]
  /\ \A q \in Slot : q # proc[c] => np'[q] = np[q]

(* allocproc's scan: no free slot, or one becomes fork()'s EMBRYO.         *)
AllocProcDoes(c) ==
  /\ TypeOK'
  /\ ptlock = None
  /\ \/ Goes(c, "fork", "sysret") /\ UNCHANGED <<state, pid, nextpid, np>>
     \/ Goes(c, "fork", "fork_kstack") /\ Allocated(c)
  /\ UNCHANGED <<parent, killed, chan, kstack, cpus, resume, after, sintena, log, panicked>>

(* What AllocProc(c) does.                                               *)
LEMMA AllocProcFacts ==
  ASSUME TypeOK, NEW c \in CPU, AllocProc(c) PROVE AllocProcDoes(c)
<1> USE SlotFacts, LabelFacts DEF Running, Goto, cpus, log, TypeOK, Goes
<1>1. /\ proc[c] \in Slot /\ pc[proc[c]] = "fork" /\ ptlock = None
      /\ UNCHANGED <<parent, killed, chan, kstack, cpus, resume, after, sintena, log, panicked>>
  BY ZenonT(30) DEF AllocProc
<1>2. CASE Goto(c, "sysret") /\ UNCHANGED <<state, pid, nextpid, np>>
  BY ZenonT(30), <1>1, <1>2 DEF AllocProcDoes
<1>3. CASE \E p \in Slot :
             /\ state[p] = "UNUSED"
             /\ state' = [state EXCEPT ![p] = "EMBRYO"]
             /\ pid' = [pid EXCEPT ![p] = nextpid]
             /\ np' = [np EXCEPT ![proc[c]] = p]
             /\ nextpid' = nextpid + 1
             /\ Goto(c, "fork_kstack")
  <2>1. Goes(c, "fork", "fork_kstack") BY <1>1, <1>3
  <2>2. Allocated(c) BY SMTT(60), <1>1, <1>3 DEF Allocated, Becomes
  <2>3. TypeOK' BY <1>1, <1>3
  <2> HIDE DEF TypeOK, Goes
  <2> QED BY ONLY ZenonT(30), <1>1, <2>1, <2>2, <2>3 DEF AllocProcDoes
<1> HIDE DEF TypeOK, Goes
<1> QED
  BY ZenonT(30), <1>2, <1>3 DEF AllocProc

(* The scheduler takes or gives back ptable.lock.                          *)
ScansDoes(c) ==
  /\ TypeOK'
  /\ proc[c] = 0 /\ ptlock \in {None, c} /\ ptlock' \in {None, c}
  /\ Irqs(c, ifl'[c], intena'[c])
  /\ UNCHANGED <<ptable, proc, pc, locals, log, panicked>>

(* What Scans(c) does.                                                   *)
LEMMA ScanFacts ==
  ASSUME TypeOK, NEW c \in CPU, Scans(c) PROVE ScansDoes(c)
<1> USE DEF TypeOK, ptable, locals, log, Irqs
<1>1. CASE SchedAcquire(c) BY ZenonT(30), <1>1 DEF SchedAcquire, ScansDoes
<1>2. CASE SchedRelease(c) BY ZenonT(30), <1>2 DEF SchedRelease, ScansDoes
<1> HIDE DEF TypeOK, Irqs
<1> QED BY ONLY ZenonT(30), Scans(c), <1>1, <1>2 DEF Scans

(* The scheduler switches to the RUNNABLE process it found.                *)
SchedSwitchDoes(c) ==
  /\ TypeOK'
  /\ proc[c] = 0 /\ ptlock = c
  /\ proc'[c] \in Slot /\ \A d \in CPU : d # c => proc'[d] = proc[d]
  /\ state[proc'[c]] = "RUNNABLE" /\ Becomes(proc'[c], "RUNNING")
  /\ Irqs(c, ifl[c], intena'[c])
  /\ pc[proc'[c]] # "forkret" => intena'[c] = sintena[proc'[c]]
  /\ UNCHANGED <<pid, parent, killed, chan, kstack, nextpid, ptlock, pc, locals, log,
                 panicked>>

(* What SchedSwitch(c) does.                                             *)
LEMMA SwitchFacts ==
  ASSUME TypeOK, NEW c \in CPU, SchedSwitch(c) PROVE SchedSwitchDoes(c)
<1> USE SlotFacts, LabelFacts DEF TypeOK, locals, log
<1>1. PICK p \in Slot :
        /\ state[p] = "RUNNABLE"
        /\ proc' = [proc EXCEPT ![c] = p]
        /\ scan' = [scan EXCEPT ![c] = p]
        /\ state' = [state EXCEPT ![p] = "RUNNING"]
        /\ intena' = IF pc[p] = "forkret" THEN intena ELSE [intena EXCEPT ![c] = sintena[p]]
  BY ZenonT(30) DEF SchedSwitch, First, Ahead
<1>2. /\ proc[c] = 0 /\ ptlock = c
      /\ UNCHANGED <<pid, parent, killed, chan, kstack, nextpid, ptlock, ifl, pc, locals,
                     log, panicked>>
  BY ZenonT(30) DEF SchedSwitch
<1>3. /\ intena' \in [CPU -> BOOLEAN] /\ \A d \in CPU : d # c => intena'[d] = intena[d]
      /\ pc[p] # "forkret" => intena'[c] = sintena[p]
  BY ZenonT(30), <1>1
<1>4. TypeOK'
  BY ZenonT(30), <1>1, <1>2, <1>3
<1>5. /\ proc'[c] = p /\ \A d \in CPU : d # c => proc'[d] = proc[d]
      /\ Becomes(p, "RUNNING") /\ Irqs(c, ifl[c], intena'[c])
  BY <1>1, <1>2, <1>3 DEF Becomes, Irqs
<1> HIDE DEF TypeOK, locals, log
<1> QED BY ONLY ZenonT(30), <1>1, <1>2, <1>3, <1>4, <1>5 DEF SchedSwitchDoes

(* The slot that the fork() of CPU c is filling.                           *)
NewSlot(c) ==
  /\ proc[c] \in Slot /\ np[proc[c]] \in Slot /\ np[proc[c]] # proc[c]
  /\ state[proc[c]] = "RUNNING" /\ state[np[proc[c]]] = "EMBRYO"

(* allocproc has made a stack on which the child starts in forkret.        *)
StackBuilt(c) ==
  /\ pc[proc[c]] = "fork_kstack" /\ pc'[proc[c]] = "fork_copy"
  /\ pc'[np[proc[c]]] = "forkret" /\ kstack'[np[proc[c]]]
  /\ \A q \in Slot : q # np[proc[c]] =>
       kstack'[q] = kstack[q] /\ (q # proc[c] => pc'[q] = pc[q])
  /\ UNCHANGED <<state, np>>

(* allocproc's kalloc fails, or the stack is built for forkret.            *)
AllocKstackDoes(c) ==
  /\ TypeOK'
  /\ NewSlot(c) /\ pc[np[proc[c]]] = "dead" /\ parent[np[proc[c]]] = 0
  /\ \/ /\ Goes(c, "fork_kstack", "sysret") /\ Becomes(np[proc[c]], "UNUSED")
        /\ kstack' = kstack
     \/ StackBuilt(c)
  /\ UNCHANGED <<pid, parent, killed, chan, nextpid, cpus, locals, log, panicked>>

(* What AllocKstack(c) does.                                             *)
LEMMA KstackFacts ==
  ASSUME TypeOK, StateOK, ForkOK, NEW c \in CPU, AllocKstack(c) PROVE AllocKstackDoes(c)
<1>1. /\ proc[c] \in Slot /\ pc[proc[c]] = "fork_kstack"
      /\ UNCHANGED <<pid, parent, killed, chan, nextpid, cpus, locals, log, panicked>>
  BY DEF AllocKstack, TypeOK, Running
<1>2. NewSlot(c) /\ pc[np[proc[c]]] = "dead" /\ parent[np[proc[c]]] = 0
  BY ZenonT(30), <1>1, EmbryoFacts DEF Forking, NewSlot
<1>3. CASE /\ state' = [state EXCEPT ![np[proc[c]]] = "UNUSED"]
           /\ Goto(c, "sysret") /\ UNCHANGED kstack
  <2>1. Goes(c, "fork_kstack", "sysret") /\ Becomes(np[proc[c]], "UNUSED")
    BY ZenonT(30), <1>1, <1>2, <1>3 DEF TypeOK, Goto, Goes, Becomes, NewSlot
  <2>2. TypeOK'
    BY ZenonT(30), <1>1, <1>3, LabelFacts DEF TypeOK, Goto, cpus, locals, log
  <2> QED BY ONLY ZenonT(30), <1>1, <1>2, <1>3, <2>1, <2>2 DEF AllocKstackDoes
<1>4. CASE /\ kstack' = [kstack EXCEPT ![np[proc[c]]] = TRUE] /\ UNCHANGED state
           /\ pc' = [pc EXCEPT ![proc[c]] = "fork_copy", ![np[proc[c]]] = "forkret"]
  <2>1. StackBuilt(c)
    BY ZenonT(30), <1>1, <1>2, <1>4 DEF TypeOK, StackBuilt, NewSlot, locals
  <2>2. TypeOK'
    BY ZenonT(30), <1>1, <1>4, LabelFacts DEF TypeOK, cpus, locals, log
  <2> QED BY ONLY ZenonT(30), <1>1, <1>2, <2>1, <2>2 DEF AllocKstackDoes
<1> QED BY ONLY ZenonT(30), AllocKstack(c), <1>3, <1>4 DEF AllocKstack

(* copyuvm has failed, and the slot is given back.                         *)
CopyFailed(c) ==
  /\ pc[proc[c]] = "fork_copy" /\ pc'[proc[c]] = "sysret"
  /\ pc'[np[proc[c]]] = "dead" /\ Becomes(np[proc[c]], "UNUSED")
  /\ \A q \in Slot : q # np[proc[c]] =>
       kstack'[q] = kstack[q] /\ (q # proc[c] => pc'[q] = pc[q])
  /\ UNCHANGED <<parent, np>>

(* copyuvm fails and the slot is given back, or the child gets its parent. *)
ForkCopyDoes(c) ==
  /\ TypeOK'
  /\ NewSlot(c) /\ pc[np[proc[c]]] = "forkret" /\ kstack[np[proc[c]]]
  /\ parent[np[proc[c]]] = 0
  /\ \/ CopyFailed(c)
     \/ /\ Goes(c, "fork_copy", "fork_run") /\ parent'[np[proc[c]]] = proc[c]
        /\ \A q \in Slot : q # np[proc[c]] => parent'[q] = parent[q]
        /\ UNCHANGED <<kstack, state>>
  /\ UNCHANGED <<pid, killed, chan, nextpid, cpus, locals, log, panicked>>

(* What ForkCopy(c) does.                                                *)
LEMMA ForkCopyFacts ==
  ASSUME TypeOK, StateOK, ForkOK, NEW c \in CPU, ForkCopy(c) PROVE ForkCopyDoes(c)
<1>1. /\ proc[c] \in Slot /\ pc[proc[c]] = "fork_copy"
      /\ UNCHANGED <<pid, killed, chan, nextpid, cpus, locals, log, panicked>>
  BY ZenonT(30) DEF ForkCopy, TypeOK, Running
<1>2. /\ NewSlot(c) /\ pc[np[proc[c]]] = "forkret" /\ kstack[np[proc[c]]]
      /\ parent[np[proc[c]]] = 0
  BY <1>1, EmbryoFacts DEF Forking, NewSlot
<1>3. CASE /\ kstack' = [kstack EXCEPT ![np[proc[c]]] = FALSE]
           /\ state' = [state EXCEPT ![np[proc[c]]] = "UNUSED"]
           /\ pc' = [pc EXCEPT ![proc[c]] = "sysret", ![np[proc[c]]] = "dead"]
           /\ UNCHANGED parent
  <2>1. CopyFailed(c)
    BY ZenonT(30), <1>1, <1>2, <1>3 DEF TypeOK, CopyFailed, Becomes, NewSlot, locals
  <2>2. TypeOK'
    BY ZenonT(30), <1>1, <1>3, LabelFacts DEF TypeOK, cpus, locals, log
  <2> QED BY ONLY ZenonT(30), <1>1, <1>2, <2>1, <2>2 DEF ForkCopyDoes
<1>4. CASE /\ parent' = [parent EXCEPT ![np[proc[c]]] = proc[c]]
           /\ Goto(c, "fork_run") /\ UNCHANGED <<kstack, state>>
  <2>1. /\ Goes(c, "fork_copy", "fork_run") /\ parent'[np[proc[c]]] = proc[c]
        /\ \A q \in Slot : q # np[proc[c]] => parent'[q] = parent[q]
    BY ZenonT(30), <1>1, <1>2, <1>4 DEF TypeOK, Goto, Goes, NewSlot
  <2>2. TypeOK'
    BY ZenonT(30), <1>1, <1>4, LabelFacts DEF TypeOK, Goto, cpus, locals, log
  <2> QED BY ONLY ZenonT(30), <1>1, <1>2, <1>4, <2>1, <2>2 DEF ForkCopyDoes
<1> QED BY ONLY ZenonT(30), ForkCopy(c), <1>3, <1>4 DEF ForkCopy

(* Who exit() of process p wakes, and whose parent changes.                *)
ExitTable(p) ==
  /\ state'[p] = "ZOMBIE"
  /\ \A q \in Slot : q # p =>
       /\ state'[q] = state[q] \/ (state[q] = "SLEEPING" /\ state'[q] = "RUNNABLE")
       /\ chan[q] = parent[p] => state'[q] # "SLEEPING"
       /\ chan[q] = initproc /\ state'[q] = "SLEEPING" =>
            \A k \in Slot : parent[k] = p => state[k] # "ZOMBIE"
  /\ \A k \in Slot : parent'[k] = IF parent[k] = p THEN initproc ELSE parent[k]

(* exit() under ptable.lock.                                               *)
ExitLockedDoes(c) ==
  /\ TypeOK'
  /\ Goes(c, "exit_lock", "exit_swtch") /\ ptlock = None /\ ptlock' = c
  /\ Irqs(c, FALSE, ifl[c]) /\ ExitTable(proc[c])
  /\ UNCHANGED <<pid, killed, chan, kstack, nextpid, proc, scan, locals, log, panicked>>

(* What ExitLocked(c) does.                                              *)
LEMMA ExitFacts ==
  ASSUME TypeOK, NEW c \in CPU, ExitLocked(c) PROVE ExitLockedDoes(c)
<1> DEFINE woken == wakeup1(state, parent[proc[c]])
           adopted == IF \E k \in {k \in Slot : parent[k] = proc[c]} : state[k] = "ZOMBIE"
                      THEN wakeup1(woken, initproc) ELSE woken
<1>1. /\ proc[c] \in Slot /\ pc[proc[c]] = "exit_lock" /\ ptlock = None
      /\ state' = [adopted EXCEPT ![proc[c]] = "ZOMBIE"]
      /\ parent' = [k \in Slot |-> IF k \in {k1 \in Slot : parent[k1] = proc[c]}
                                   THEN initproc ELSE parent[k]]
      /\ ptlock' = c
      /\ ifl' = [ifl EXCEPT ![c] = FALSE]
      /\ intena' = [intena EXCEPT ![c] = ifl[c]]
      /\ pc' = [pc EXCEPT ![proc[c]] = "exit_swtch"]
      /\ UNCHANGED <<pid, killed, chan, kstack, nextpid, proc, scan, locals, log, panicked>>
  BY ZenonT(30) DEF ExitLocked, Running, Goto, TypeOK
<1>2. /\ woken \in [Slot -> States]
      /\ \A q \in Slot : woken[q] = IF state[q] = "SLEEPING" /\ chan[q] = parent[proc[c]]
                                    THEN "RUNNABLE" ELSE state[q]
  BY ZenonT(30), LabelFacts DEF wakeup1, TypeOK
<1> HIDE DEF woken
<1>3. /\ adopted \in [Slot -> States]
      /\ \A q \in Slot : /\ adopted[q] = woken[q] \/ (woken[q] = "SLEEPING" /\ adopted[q] = "RUNNABLE")
                         /\ chan[q] = initproc /\ adopted[q] = "SLEEPING" =>
                              \A k \in Slot : parent[k] = proc[c] => state[k] # "ZOMBIE"
  <2>1. CASE \E k \in {k \in Slot : parent[k] = proc[c]} : state[k] = "ZOMBIE"
    <3>1. adopted = wakeup1(woken, initproc) BY ZenonT(30), <2>1
    <3> HIDE DEF adopted
    <3> QED BY ONLY ZenonT(30), <1>2, <3>1, LabelFacts DEF wakeup1
  <2>2. CASE ~\E k \in {k \in Slot : parent[k] = proc[c]} : state[k] = "ZOMBIE"
    <3>1. adopted = woken BY ZenonT(30), <2>2
    <3>2. \A k \in Slot : parent[k] = proc[c] => state[k] # "ZOMBIE" BY ZenonT(30), <2>2
    <3> HIDE DEF adopted
    <3> QED BY ONLY ZenonT(30), <1>2, <3>1, <3>2
  <2> QED BY ZenonT(30), <2>1, <2>2
<1> HIDE DEF adopted
<1>4. TypeOK' BY ZenonT(30), <1>1, <1>3, SlotFacts, LabelFacts DEF TypeOK, locals, log
<1>5. Goes(c, "exit_lock", "exit_swtch") /\ Irqs(c, FALSE, ifl[c])
  BY ZenonT(30), <1>1 DEF Goes, Irqs, TypeOK
<1>6. ExitTable(proc[c])
  <2>1. state'[proc[c]] = "ZOMBIE" /\ \A q \in Slot : q # proc[c] => state'[q] = adopted[q]
    BY ONLY ZenonT(30), <1>1, <1>3
  <2>2. \A k \in Slot : parent'[k] = IF parent[k] = proc[c] THEN initproc ELSE parent[k]
    BY ONLY ZenonT(30), <1>1
  <2> QED BY ONLY <1>2, <1>3, <2>1, <2>2 DEF ExitTable
<1> QED BY ONLY ZenonT(30), <1>1, <1>4, <1>5, <1>6 DEF ExitLockedDoes

(* wait() of process p reaps a child, or there is nothing to wait for.     *)
Reaps(p) ==
  \/ UNCHANGED <<state, parent, pid, kstack>>
  \/ \E z \in Slot :
       /\ parent[z] = p /\ state[z] = "ZOMBIE" /\ Becomes(z, "UNUSED") /\ parent'[z] = 0
       /\ \A q \in Slot : q # z => /\ parent'[q] = parent[q] /\ pid'[q] = pid[q]
                                  /\ kstack'[q] = kstack[q]

(* wait() of process p has children to wait for, and no zombie.            *)
Awaits(p) == /\ \E k \in Slot : parent[k] = p
             /\ \A k \in Slot : parent[k] = p => state[k] # "ZOMBIE"

(* wait() returns, or goes to sleep.                                       *)
WaitReturns(c) ==
  /\ pc'[proc[c]] = "sysret" /\ ptlock' = None /\ Reaps(proc[c])
  /\ Irqs(c, IF ptlock = c THEN intena[c] ELSE ifl[c], intena[c])

WaitSleeps(c) ==
  /\ pc'[proc[c]] = "wait_swtch" /\ ptlock' = c /\ Awaits(proc[c])
  /\ Irqs(c, FALSE, ptlock # c \/ intena[c])
  /\ Becomes(proc[c], "SLEEPING") /\ chan'[proc[c]] = proc[c]
  /\ UNCHANGED <<kstack, pid, parent>>

(* wait()'s scan: a child is reaped, there is nothing to wait for, or the  *)
(* process goes to sleep.                                                  *)
WaitScanDoes(c) ==
  /\ TypeOK'
  /\ Goes(c, pc[proc[c]], pc'[proc[c]])
  /\ \/ pc[proc[c]] = "wait" /\ ptlock = None
     \/ pc[proc[c]] = "wait_resume" /\ ptlock = c
  /\ WaitReturns(c) \/ WaitSleeps(c)
  /\ \A q \in Slot : q # proc[c] => chan'[q] = chan[q]
  /\ UNCHANGED <<nextpid, proc, scan, locals, log, panicked>>

(* What WaitScan(c) does.                                                *)
LEMMA WaitFacts ==
  ASSUME TypeOK, LockOK, NEW c \in CPU, WaitScan(c) PROVE WaitScanDoes(c)
<1> DEFINE Reap(z) ==
             /\ parent[z] = proc[c] /\ state[z] = "ZOMBIE"
             /\ kstack' = [kstack EXCEPT ![z] = FALSE]
             /\ state' = [state EXCEPT ![z] = "UNUSED"]
             /\ pid' = [pid EXCEPT ![z] = 0]
             /\ parent' = [parent EXCEPT ![z] = 0]
             /\ killed' = [killed EXCEPT ![z] = FALSE]
             /\ chan' = [chan EXCEPT ![proc[c]] = 0]
             /\ Goto(c, "sysret")
             /\ ptlock' = None
             /\ ifl' = [ifl EXCEPT ![c] = IF ptlock = c THEN intena[c] ELSE @]
             /\ UNCHANGED intena
           Nobody ==
             /\ chan' = [chan EXCEPT ![proc[c]] = 0]
             /\ Goto(c, "sysret")
             /\ ptlock' = None
             /\ ifl' = [ifl EXCEPT ![c] = IF ptlock = c THEN intena[c] ELSE @]
             /\ UNCHANGED <<kstack, state, pid, parent, killed, intena>>
           Sleeps ==
             /\ \E k \in Slot : parent[k] = proc[c]
             /\ \A k \in Slot : parent[k] = proc[c] => state[k] # "ZOMBIE"
             /\ chan' = [chan EXCEPT ![proc[c]] = proc[c]]
             /\ state' = [state EXCEPT ![proc[c]] = "SLEEPING"]
             /\ Goto(c, "wait_swtch")
             /\ ptlock' = c
             /\ ifl' = [ifl EXCEPT ![c] = FALSE]
             /\ intena' = IF ptlock = c THEN intena ELSE [intena EXCEPT ![c] = TRUE]
             /\ UNCHANGED <<kstack, pid, parent, killed>>
<1>1. /\ proc[c] \in Slot
      /\ \/ pc[proc[c]] = "wait" /\ ptlock = None
         \/ pc[proc[c]] = "wait_resume" /\ ptlock = c
      /\ UNCHANGED <<nextpid, proc, scan, locals, log, panicked>>
  BY ZenonT(30) DEF WaitScan, TypeOK, LockOK, Resuming
<1>2. CASE \E z \in Slot : Reap(z)
  <2>1. PICK z \in Slot : Reap(z)
    BY ZenonT(30), <1>2
  <2>2. TypeOK' BY ZenonT(30), <1>1, <2>1, SlotFacts, LabelFacts DEF TypeOK, Goto, locals, log
  <2>3. Goes(c, pc[proc[c]], pc'[proc[c]]) /\ \A q \in Slot : q # proc[c] => chan'[q] = chan[q]
    BY ZenonT(30), <1>1, <2>1 DEF TypeOK, Goto, Goes
  <2>4. pc'[proc[c]] = "sysret" /\ Irqs(c, IF ptlock = c THEN intena[c] ELSE ifl[c], intena[c])
    BY ZenonT(30), <1>1, <2>1 DEF TypeOK, Goto, Irqs
  <2>5. Reaps(proc[c])
    BY ZenonT(30), <2>1 DEF TypeOK, Reaps, Becomes
  <2> QED BY ONLY ZenonT(30), <1>1, <2>1, <2>2, <2>3, <2>4, <2>5 DEF WaitReturns, WaitScanDoes
<1>3. CASE Nobody
  <2>2. TypeOK' BY ZenonT(30), <1>1, <1>3, SlotFacts, LabelFacts DEF TypeOK, Goto, locals, log
  <2>3. Goes(c, pc[proc[c]], pc'[proc[c]]) /\ \A q \in Slot : q # proc[c] => chan'[q] = chan[q]
    BY ZenonT(30), <1>1, <1>3 DEF TypeOK, Goto, Goes
  <2>4. pc'[proc[c]] = "sysret" /\ Irqs(c, IF ptlock = c THEN intena[c] ELSE ifl[c], intena[c])
    BY ZenonT(30), <1>1, <1>3 DEF TypeOK, Goto, Irqs
  <2> QED BY ONLY ZenonT(30), <1>1, <1>3, <2>2, <2>3, <2>4 DEF WaitReturns, Reaps, WaitScanDoes
<1>4. CASE Sleeps
  <2>1. intena' \in [CPU -> BOOLEAN] /\ Irqs(c, FALSE, ptlock # c \/ intena[c])
    BY ZenonT(30), <1>4 DEF TypeOK, Irqs
  <2>2. TypeOK' BY ZenonT(30), <1>1, <1>4, <2>1, SlotFacts, LabelFacts DEF TypeOK, Goto, locals, log
  <2>3. Goes(c, pc[proc[c]], pc'[proc[c]]) /\ \A q \in Slot : q # proc[c] => chan'[q] = chan[q]
    BY ZenonT(30), <1>1, <1>4 DEF TypeOK, Goto, Goes
  <2>4. /\ pc'[proc[c]] = "wait_swtch" /\ Becomes(proc[c], "SLEEPING")
        /\ chan'[proc[c]] = proc[c]
    BY ZenonT(30), <1>1, <1>4 DEF TypeOK, Goto, Becomes
  <2> QED BY ONLY ZenonT(30), <1>1, <1>4, <2>1, <2>2, <2>3, <2>4 DEF WaitSleeps, Awaits, WaitScanDoes
<1> QED BY ONLY ZenonT(30), WaitScan(c), <1>2, <1>3, <1>4 DEF WaitScan, First

(* kill(): nobody stops sleeping but to become RUNNABLE.                   *)
KillDoes(c) ==
  /\ TypeOK'
  /\ Goes(c, "kill", "sysret") /\ ptlock = None
  /\ \A q \in Slot :
       state'[q] = state[q] \/ (state[q] = "SLEEPING" /\ state'[q] = "RUNNABLE")
  /\ UNCHANGED <<pid, parent, chan, kstack, nextpid, cpus, locals, log, panicked>>

(* What Kill(c) does.                                                    *)
LEMMA KillFacts ==
  ASSUME TypeOK, NEW c \in CPU, Kill(c) PROVE KillDoes(c)
<1>1. /\ Goes(c, "kill", "sysret") /\ ptlock = None /\ pc' \in [Slot -> Labels]
      /\ UNCHANGED <<pid, parent, chan, kstack, nextpid, cpus, locals, log, panicked>>
  BY LabelFacts DEF Kill, Running, Goto, Goes, TypeOK
<1>2. CASE UNCHANGED <<killed, state>>
  BY ZenonT(30), <1>1, <1>2 DEF TypeOK, cpus, locals, log, KillDoes
<1>3. CASE \E p \in Slot :
             /\ killed' = [killed EXCEPT ![p] = TRUE]
             /\ state' = [state EXCEPT ![p] = IF @ = "SLEEPING" THEN "RUNNABLE" ELSE @]
  BY <1>1, <1>3, LabelFacts DEF TypeOK, cpus, locals, log, KillDoes
<1> QED BY ONLY ZenonT(30), Kill(c), <1>2, <1>3 DEF Kill

(* The timer takes the CPU from a thread that runs.                        *)
YieldDoes(c) ==
  /\ TypeOK'
  /\ pc[proc[c]] \in Preemptible /\ Goes(c, pc[proc[c]], "yield_swtch")
  /\ ptlock = None /\ ptlock' = c /\ ifl[c] /\ Irqs(c, FALSE, FALSE)
  /\ state[proc[c]] = "RUNNING" /\ Becomes(proc[c], "RUNNABLE")
  /\ resume'[proc[c]] = pc[proc[c]]
  /\ \A q \in Slot : q # proc[c] => resume'[q] = resume[q]
  /\ UNCHANGED <<pid, parent, killed, chan, kstack, nextpid, proc, after, np, sintena, log,
                 panicked>>

(* What Yield(c) does.                                                   *)
LEMMA YieldFacts ==
  ASSUME TypeOK, NEW c \in CPU, Yield(c) PROVE YieldDoes(c)
<1>1. TypeOK'
  BY ZenonT(30), LabelFacts DEF Yield, Goto, TypeOK, log
<1>2. /\ Goes(c, pc[proc[c]], "yield_swtch") /\ Irqs(c, FALSE, FALSE) /\ Becomes(proc[c], "RUNNABLE")
      /\ resume'[proc[c]] = pc[proc[c]]
      /\ \A q \in Slot : q # proc[c] => resume'[q] = resume[q]
  BY ZenonT(30) DEF Yield, Goto, TypeOK, Goes, Irqs, Becomes
<1> QED
  BY ZenonT(30), <1>1, <1>2 DEF Yield, YieldDoes

(* yield() returns to where the timer found the thread, or to exit().      *)
YieldReturnDoes(c) ==
  /\ TypeOK'
  /\ Goes(c, "yield_resume", pc'[proc[c]]) /\ resume[proc[c]] \in Preemptible
  /\ \/ pc'[proc[c]] = resume[proc[c]] /\ Irqs(c, TRUE, intena[c])
     \/ /\ resume[proc[c]] = "user" /\ pc'[proc[c]] = "exit"
        /\ Irqs(c, intena[c], intena[c])
  /\ ptlock = c /\ ptlock' = None
  /\ \A q \in Slot : q # proc[c] => resume'[q] = resume[q]
  /\ UNCHANGED <<ptable, proc, after, np, sintena, log, panicked>>

(* What YieldReturn(c) does.                                             *)
LEMMA YieldReturnFacts ==
  ASSUME TypeOK, LockOK, NEW c \in CPU, YieldReturn(c) PROVE YieldReturnDoes(c)
<1>1. /\ proc[c] \in Slot /\ pc[proc[c]] = "yield_resume" /\ resume[proc[c]] \in Preemptible
      /\ \/ /\ pc' = [pc EXCEPT ![proc[c]] = resume[proc[c]]]
            /\ ifl' = [ifl EXCEPT ![c] = TRUE]
         \/ /\ resume[proc[c]] = "user"
            /\ pc' = [pc EXCEPT ![proc[c]] = "exit"]
            /\ ifl' = [ifl EXCEPT ![c] = intena[c]]
      /\ ptlock' = None /\ resume' = [resume EXCEPT ![proc[c]] = "user"]
      /\ UNCHANGED <<ptable, proc, scan, intena, after, np, sintena, log, panicked>>
  BY ZenonT(30) DEF YieldReturn, Running, Goto, TypeOK
<1>2. TypeOK'
  <2>1. /\ pc' \in [Slot -> Labels] /\ ifl' \in [CPU -> BOOLEAN]
        /\ resume' \in [Slot -> Preemptible]
    <3>1. CASE /\ pc' = [pc EXCEPT ![proc[c]] = resume[proc[c]]]
               /\ ifl' = [ifl EXCEPT ![c] = TRUE]
      BY ZenonT(30), <1>1, <3>1, LabelFacts DEF TypeOK
    <3>2. CASE /\ pc' = [pc EXCEPT ![proc[c]] = "exit"]
               /\ ifl' = [ifl EXCEPT ![c] = intena[c]]
      BY ZenonT(30), <1>1, <3>2, LabelFacts DEF TypeOK
    <3> QED BY ONLY ZenonT(30), <1>1, <3>1, <3>2
  <2> QED
    BY ZenonT(30), <1>1, <2>1 DEF TypeOK, ptable, log
<1>3. /\ Goes(c, "yield_resume", pc'[proc[c]])
      /\ \A q \in Slot : q # proc[c] => resume'[q] = resume[q]
  BY SMTT(60), <1>1 DEF TypeOK, Goes
<1>4. \/ pc'[proc[c]] = resume[proc[c]] /\ Irqs(c, TRUE, intena[c])
      \/ /\ resume[proc[c]] = "user" /\ pc'[proc[c]] = "exit"
         /\ Irqs(c, intena[c], intena[c])
  BY <1>1 DEF TypeOK, Irqs
<1>5. ptlock = c
  BY ZenonT(30), <1>1, SlotFacts DEF LockOK, Resuming
<1> QED
  BY ONLY ZenonT(30), <1>1, <1>2, <1>3, <1>4, <1>5 DEF YieldReturnDoes

(* forkret() releases ptable.lock for the child's first run.               *)
ForkretDoes(c) ==
  /\ TypeOK'
  /\ Goes(c, "forkret", "user") /\ ptlock = c /\ ptlock' = None /\ Irqs(c, TRUE, intena[c])
  /\ UNCHANGED <<ptable, proc, locals, log, panicked>>

(* What Forkret(c) does.                                                 *)
LEMMA ForkretFacts ==
  ASSUME TypeOK, LockOK, NEW c \in CPU, Forkret(c) PROVE ForkretDoes(c)
<1>1. TypeOK'
  BY ZenonT(30), LabelFacts DEF Forkret, Goto, TypeOK, ptable, locals, log
<1>2. Goes(c, "forkret", "user") /\ Irqs(c, TRUE, intena[c])
  BY ZenonT(30) DEF Forkret, Running, Goto, TypeOK, Goes, Irqs
<1>3. ptlock = c
  BY ZenonT(30), <1>2, SlotFacts DEF Goes, LockOK, Resuming
<1> QED
  BY ZenonT(30), <1>1, <1>2, <1>3 DEF Forkret, ForkretDoes

(* fork() makes its child RUNNABLE.                                        *)
ForkRunDoes(c) ==
  /\ TypeOK'
  /\ Goes(c, "fork_run", "sysret") /\ NewSlot(c)
  /\ pc[np[proc[c]]] = "forkret" /\ kstack[np[proc[c]]] /\ parent[np[proc[c]]] = proc[c]
  /\ Becomes(np[proc[c]], "RUNNABLE")
  /\ \A q \in Slot : q # proc[c] => np'[q] = np[q]
  /\ UNCHANGED <<pid, parent, killed, chan, kstack, nextpid, cpus, resume, after, sintena,
                 log, panicked>>

(* What ForkRun(c) does.                                                 *)
LEMMA ForkRunFacts ==
  ASSUME TypeOK, StateOK, ForkOK, NEW c \in CPU, ForkRun(c) PROVE ForkRunDoes(c)
<1>1. proc[c] \in Slot /\ pc[proc[c]] = "fork_run"
  BY DEF ForkRun, Running, TypeOK
<1>2. /\ NewSlot(c) /\ pc[np[proc[c]]] = "forkret" /\ kstack[np[proc[c]]]
      /\ parent[np[proc[c]]] = proc[c]
  BY <1>1, EmbryoFacts DEF Forking, NewSlot
<1>3. TypeOK'
  BY ZenonT(30), LabelFacts DEF ForkRun, Goto, TypeOK, cpus, log
<1>4. /\ Goes(c, "fork_run", "sysret") /\ Becomes(np[proc[c]], "RUNNABLE")
      /\ \A q \in Slot : q # proc[c] => np'[q] = np[q]
  BY ZenonT(30), <1>1, <1>2 DEF ForkRun, Goto, TypeOK, Goes, Becomes, NewSlot
<1> QED
  BY ZenonT(30), <1>2, <1>3, <1>4 DEF ForkRun, ForkRunDoes

(* sleep() on the log, up to its sched().                                  *)
SleepDoes(c) ==
  /\ TypeOK'
  /\ Goes(c, "sleep", "sleep_swtch") /\ ptlock = None /\ ptlock' = c /\ loglock' = 0
  /\ Becomes(proc[c], "SLEEPING") /\ chan'[proc[c]] = LOG
  /\ \A q \in Slot : q # proc[c] => chan'[q] = chan[q]
  /\ UNCHANGED <<pid, parent, killed, kstack, nextpid, proc, ifl, intena, locals, busy,
                 ntrans, panicked>>

(* What Sleep(c) does.                                                   *)
LEMMA SleepFacts ==
  ASSUME TypeOK, NEW c \in CPU, Sleep(c) PROVE SleepDoes(c)
<1>1. TypeOK'
  BY ZenonT(30), SlotFacts, LabelFacts DEF Sleep, Running, Goto, TypeOK, locals
<1>2. /\ Goes(c, "sleep", "sleep_swtch") /\ Becomes(proc[c], "SLEEPING") /\ chan'[proc[c]] = LOG
      /\ \A q \in Slot : q # proc[c] => chan'[q] = chan[q]
  BY ZenonT(30) DEF Sleep, Running, Goto, TypeOK, Goes, Becomes
<1> QED
  BY ZenonT(30), <1>1, <1>2 DEF Sleep, SleepDoes

(* sleep() after its sched().                                              *)
SleepReturnDoes(c) ==
  /\ TypeOK'
  /\ Goes(c, "sleep_resume", "relock") /\ ptlock = c /\ ptlock' = None
  /\ Irqs(c, intena[c], intena[c])
  /\ chan'[proc[c]] = 0 /\ \A q \in Slot : q # proc[c] => chan'[q] = chan[q]
  /\ UNCHANGED <<state, pid, parent, killed, kstack, nextpid, proc, locals, log, panicked>>

(* What SleepReturn(c) does.                                             *)
LEMMA SleepReturnFacts ==
  ASSUME TypeOK, LockOK, NEW c \in CPU, SleepReturn(c) PROVE SleepReturnDoes(c)
<1>1. TypeOK'
  BY ZenonT(30), SlotFacts, LabelFacts DEF SleepReturn, Running, Goto, TypeOK, locals, log
<1>2. /\ Goes(c, "sleep_resume", "relock") /\ Irqs(c, intena[c], intena[c])
      /\ chan'[proc[c]] = 0 /\ \A q \in Slot : q # proc[c] => chan'[q] = chan[q]
  BY DEF SleepReturn, Running, Goto, TypeOK, Goes, Irqs
<1>3. ptlock = c
  BY ZenonT(30), <1>2, SlotFacts DEF Goes, LockOK, Resuming
<1> QED
  BY ZenonT(30), <1>1, <1>2, <1>3 DEF SleepReturn, SleepReturnDoes

(* commit_trans() wakes whoever sleeps on the log and releases log.lock.   *)
CommitWakeupDoes(c) ==
  /\ TypeOK'
  /\ Goes(c, "commit_wake", after[proc[c]]) /\ after[proc[c]] \in {"sysret", "exit"}
  /\ ptlock = None /\ ptlock' = None /\ loglock' = 0 /\ Irqs(c, intena[c], intena[c])
  /\ \A q \in Slot : state'[q] = IF state[q] = "SLEEPING" /\ chan[q] = LOG
                                THEN "RUNNABLE" ELSE state[q]
  /\ UNCHANGED <<pid, parent, killed, chan, kstack, nextpid, proc, locals, busy, ntrans,
                 panicked>>

(* What CommitWakeup(c) does.                                            *)
LEMMA WakeupFacts ==
  ASSUME TypeOK, NEW c \in CPU, CommitWakeup(c) PROVE CommitWakeupDoes(c)
<1>1. /\ proc[c] \in Slot /\ pc[proc[c]] = "commit_wake" /\ after[proc[c]] \in {"sysret", "exit"}
      /\ pc' = [pc EXCEPT ![proc[c]] = after[proc[c]]]
      /\ ptlock = None /\ loglock' = 0 /\ ifl' = [ifl EXCEPT ![c] = intena[c]]
      /\ state' = wakeup1(state, LOG)
      /\ UNCHANGED <<pid, parent, killed, chan, kstack, nextpid, ptlock, proc, scan, intena, locals,
                     busy, ntrans, panicked>>
  BY ZenonT(30) DEF CommitWakeup, Running, Goto, TypeOK
<1>2. /\ state' \in [Slot -> States]
      /\ \A q \in Slot : state'[q] = IF state[q] = "SLEEPING" /\ chan[q] = LOG
                                    THEN "RUNNABLE" ELSE state[q]
  BY ZenonT(30), <1>1, LabelFacts DEF TypeOK, wakeup1
<1>3. Goes(c, "commit_wake", after[proc[c]]) /\ Irqs(c, intena[c], intena[c])
  BY ZenonT(30), <1>1 DEF TypeOK, Goes, Irqs
<1>4. TypeOK'
  BY ZenonT(30), <1>1, <1>2, LabelFacts DEF TypeOK, locals
<1> QED
  BY ONLY ZenonT(30), <1>1, <1>2, <1>3, <1>4 DEF CommitWakeupDoes

(* begin_trans() takes log.lock.                                           *)
AcquireLogDoes(c) ==
  /\ TypeOK'
  /\ pc[proc[c]] \in {"begin", "relock"} /\ Goes(c, pc[proc[c]], "begin_test")
  /\ loglock = 0 /\ loglock' = proc[c] /\ Irqs(c, FALSE, ifl[c])
  /\ UNCHANGED <<ptable, ptlock, proc, scan, locals, busy, ntrans, panicked>>

(* What AcquireLog(c) does.                                              *)
LEMMA AcquireFacts ==
  ASSUME TypeOK, NEW c \in CPU, AcquireLog(c) PROVE AcquireLogDoes(c)
<1>1. TypeOK'
  BY ZenonT(30), LabelFacts DEF AcquireLog, Goto, TypeOK, ptable, locals
<1>2. Goes(c, pc[proc[c]], "begin_test") /\ Irqs(c, FALSE, ifl[c])
  BY ZenonT(30) DEF AcquireLog, Goto, TypeOK, Goes, Irqs
<1> QED
  BY ZenonT(30), <1>1, <1>2 DEF AcquireLog, AcquireLogDoes

(* begin_trans's test: the thread goes to sleep, or gets the log.          *)
BeginTestDoes(c) ==
  /\ TypeOK'
  /\ \/ /\ busy /\ Goes(c, "begin_test", "sleep") /\ Irqs(c, ifl[c], intena[c])
        /\ UNCHANGED <<busy, loglock>>
     \/ /\ ~busy /\ busy' /\ Goes(c, "begin_test", "in_trans") /\ loglock' = 0
        /\ Irqs(c, intena[c], intena[c])
  /\ UNCHANGED <<ptable, ptlock, proc, scan, locals, ntrans, panicked>>

(* What BeginTest(c) does.                                               *)
LEMMA BeginFacts ==
  ASSUME TypeOK, NEW c \in CPU, BeginTest(c) PROVE BeginTestDoes(c)
<1>1. /\ proc[c] \in Slot /\ pc[proc[c]] = "begin_test"
      /\ UNCHANGED <<ptable, ptlock, proc, scan, intena, locals, ntrans, panicked>>
  BY ZenonT(30) DEF BeginTest, Running, TypeOK
<1>2. CASE busy /\ Goto(c, "sleep") /\ UNCHANGED <<busy, loglock, ifl>>
  <2>1. TypeOK'
    BY ZenonT(30), <1>1, <1>2, LabelFacts DEF Goto, TypeOK, ptable, locals
  <2>2. Goes(c, "begin_test", "sleep") /\ Irqs(c, ifl[c], intena[c])
    BY ZenonT(30), <1>1, <1>2 DEF Goto, TypeOK, Goes, Irqs
  <2> QED BY ONLY ZenonT(30), <1>1, <1>2, <2>1, <2>2 DEF BeginTestDoes
<1>3. CASE /\ ~busy /\ busy' = TRUE /\ loglock' = 0 /\ Goto(c, "in_trans")
           /\ ifl' = [ifl EXCEPT ![c] = intena[c]]
  <2>1. TypeOK'
    BY ZenonT(30), <1>1, <1>3, LabelFacts DEF Goto, TypeOK, ptable, locals
  <2>2. Goes(c, "begin_test", "in_trans") /\ Irqs(c, intena[c], intena[c])
    BY ZenonT(30), <1>1, <1>3 DEF Goto, TypeOK, Goes, Irqs
  <2> QED BY ONLY ZenonT(30), <1>1, <1>3, <2>1, <2>2 DEF BeginTestDoes
<1> QED
  BY ONLY ZenonT(30), BeginTest(c), <1>2, <1>3 DEF BeginTest

(* The system call works inside its transaction.                           *)
InTransDoes(c) ==
  /\ TypeOK'
  /\ Goes(c, "in_trans", "commit")
  /\ UNCHANGED <<ptable, cpus, locals, log, panicked>>

(* What InTrans(c) does.                                                 *)
LEMMA InTransFacts ==
  ASSUME TypeOK, NEW c \in CPU, InTrans(c) PROVE InTransDoes(c)
<1>1. TypeOK'
  BY ZenonT(30), LabelFacts DEF InTrans, Goto, TypeOK, ptable, cpus, locals, log
<1>2. Goes(c, "in_trans", "commit")
  BY ZenonT(30) DEF InTrans, Running, Goto, TypeOK, Goes
<1> QED
  BY ZenonT(30), <1>1, <1>2 DEF InTrans, InTransDoes

(* commit_trans() takes log.lock and gives the log up.                     *)
CommitDoes(c) ==
  /\ TypeOK'
  /\ Goes(c, "commit", "commit_wake") /\ loglock = 0 /\ loglock' = proc[c] /\ ~busy'
  /\ Irqs(c, FALSE, ifl[c])
  /\ UNCHANGED <<ptable, ptlock, proc, scan, locals, ntrans, panicked>>

(* What Commit(c) does.                                                  *)
LEMMA CommitFacts ==
  ASSUME TypeOK, NEW c \in CPU, Commit(c) PROVE CommitDoes(c)
<1>1. TypeOK'
  BY ZenonT(30), LabelFacts DEF Commit, Running, Goto, TypeOK, ptable, locals
<1>2. Goes(c, "commit", "commit_wake") /\ Irqs(c, FALSE, ifl[c])
  BY ZenonT(30) DEF Commit, Running, Goto, TypeOK, Goes, Irqs
<1> QED
  BY ZenonT(30), <1>1, <1>2 DEF Commit, CommitDoes

(* A user program makes a system call.                                     *)
SyscallDoes(c) ==
  /\ TypeOK'
  /\ Goes(c, "user", pc'[proc[c]])
  /\ pc'[proc[c]] \in {"fork", "exit", "wait", "kill", "begin"}
  /\ after'[proc[c]] = "sysret" /\ \A q \in Slot : q # proc[c] => after'[q] = after[q]
  /\ UNCHANGED <<ptable, cpus, resume, np, sintena, loglock, busy, panicked>>

(* What Syscall(c) does.                                                 *)
LEMMA SyscallFacts ==
  ASSUME TypeOK, NEW c \in CPU, Syscall(c) PROVE SyscallDoes(c)
<1>1. PICK call \in (IF proc[c] = initproc THEN InitCalls ELSE Calls) :
        /\ ntrans' = IF call = "begin" THEN ntrans + 1 ELSE ntrans
        /\ Goto(c, call)
  BY ZenonT(30) DEF Syscall
<1>2. call \in {"fork", "exit", "wait", "kill", "begin"} /\ call \in Labels
  BY ZenonT(30), ProcAssumption, LabelFacts
<1>3. /\ proc[c] \in Slot /\ pc[proc[c]] = "user"
      /\ after' = [after EXCEPT ![proc[c]] = "sysret"]
      /\ UNCHANGED <<ptable, cpus, resume, np, sintena, loglock, busy, panicked>>
  BY ZenonT(30) DEF Syscall, Running, TypeOK
<1>4. TypeOK'
  BY SMTT(60), <1>1, <1>2, <1>3 DEF Goto, TypeOK, ptable, cpus
<1>5. /\ Goes(c, "user", call) /\ pc'[proc[c]] = call
      /\ after'[proc[c]] = "sysret" /\ \A q \in Slot : q # proc[c] => after'[q] = after[q]
  BY ZenonT(30), <1>1, <1>3 DEF Goto, TypeOK, Goes
<1> QED
  BY ONLY ZenonT(30), <1>2, <1>3, <1>4, <1>5 DEF SyscallDoes

(* trap() exits a killed process.                                          *)
UserKilledDoes(c) ==
  /\ TypeOK'
  /\ Goes(c, "user", "exit") /\ killed[proc[c]] /\ Irqs(c, ifl'[c], intena[c])
  /\ UNCHANGED <<ptable, ptlock, proc, scan, locals, log, panicked>>

(* What UserKilled(c) does.                                              *)
LEMMA UserKilledFacts ==
  ASSUME TypeOK, NEW c \in CPU, UserKilled(c) PROVE UserKilledDoes(c)
<1>1. TypeOK'
  BY ZenonT(30), LabelFacts DEF UserKilled, Running, Goto, TypeOK, ptable, locals, log
<1>2. Goes(c, "user", "exit") /\ Irqs(c, ifl'[c], intena[c])
  BY ZenonT(30) DEF UserKilled, Running, Goto, TypeOK, Goes, Irqs
<1> QED
  BY ZenonT(30), <1>1, <1>2 DEF UserKilled, UserKilledDoes

(* trap() kills and exits a process that faults.                           *)
FaultDoes(c) ==
  /\ TypeOK'
  /\ Goes(c, "user", "exit") /\ proc[c] # initproc /\ Irqs(c, FALSE, intena[c])
  /\ UNCHANGED <<state, pid, parent, chan, kstack, nextpid, ptlock, proc, scan, locals, log,
                 panicked>>

(* What Fault(c) does.                                                   *)
LEMMA FaultFacts ==
  ASSUME TypeOK, NEW c \in CPU, Fault(c) PROVE FaultDoes(c)
<1>1. TypeOK'
  BY ZenonT(30), LabelFacts DEF Fault, Running, Goto, TypeOK, locals, log
<1>2. Goes(c, "user", "exit") /\ Irqs(c, FALSE, intena[c])
  BY ZenonT(30) DEF Fault, Running, Goto, TypeOK, Goes, Irqs
<1> QED
  BY ZenonT(30), <1>1, <1>2 DEF Fault, FaultDoes

(* trap() after the system call.                                           *)
SysReturnDoes(c) ==
  /\ TypeOK'
  /\ Goes(c, "sysret", pc'[proc[c]])
  /\ pc'[proc[c]] = "user" \/ (killed[proc[c]] /\ pc'[proc[c]] = "exit")
  /\ UNCHANGED <<ptable, cpus, locals, log, panicked>>

(* What SysReturn(c) does.                                               *)
LEMMA SysReturnFacts ==
  ASSUME TypeOK, NEW c \in CPU, SysReturn(c) PROVE SysReturnDoes(c)
<1>1. TypeOK'
  BY ZenonT(30), LabelFacts DEF SysReturn, Running, Goto, TypeOK, ptable, cpus, locals, log
<1>2. /\ Goes(c, "sysret", pc'[proc[c]])
      /\ pc'[proc[c]] = "user" \/ (killed[proc[c]] /\ pc'[proc[c]] = "exit")
  BY ZenonT(30) DEF SysReturn, Running, Goto, TypeOK, Goes
<1> QED
  BY ZenonT(30), <1>1, <1>2 DEF SysReturn, SysReturnDoes

(* exit() up to its lock: init panics, the others may close an inode in a  *)
(* transaction.                                                            *)
ExitDoes(c) ==
  /\ TypeOK'
  /\ Goes(c, "exit", pc'[proc[c]])
  /\ \/ /\ proc[c] = initproc /\ pc'[proc[c]] = "exit" /\ panicked' /\ after' = after
     \/ /\ proc[c] # initproc /\ pc'[proc[c]] = "exit_lock" /\ UNCHANGED <<after, panicked>>
     \/ /\ proc[c] # initproc /\ pc'[proc[c]] = "begin" /\ after'[proc[c]] = "exit"
        /\ panicked' = panicked
  /\ \A q \in Slot : q # proc[c] => after'[q] = after[q]
  /\ UNCHANGED <<ptable, cpus, resume, np, sintena, loglock, busy>>

(* What Exit(c) does.                                                    *)
LEMMA ExitCallFacts ==
  ASSUME TypeOK, NEW c \in CPU, Exit(c) PROVE ExitDoes(c)
<1> USE LabelFacts DEF TypeOK, Goto, Goes
<1>1. /\ proc[c] \in Slot /\ pc[proc[c]] = "exit"
      /\ UNCHANGED <<ptable, cpus, resume, np, sintena, loglock, busy>>
  BY ZenonT(30) DEF Exit, Running
<1>2. CASE proc[c] = initproc /\ panicked' = TRUE /\ UNCHANGED <<pc, after, ntrans>>
  BY ZenonT(30), <1>1, <1>2 DEF ptable, cpus, ExitDoes
<1>3. CASE proc[c] # initproc /\ Goto(c, "exit_lock") /\ UNCHANGED <<after, ntrans, panicked>>
  BY ZenonT(30), <1>1, <1>3 DEF ptable, cpus, ExitDoes
<1>4. CASE /\ proc[c] # initproc /\ Goto(c, "begin") /\ ntrans' = ntrans + 1
           /\ after' = [after EXCEPT ![proc[c]] = "exit"] /\ panicked' = panicked
  BY <1>1, <1>4 DEF ptable, cpus, ExitDoes
<1> HIDE DEF TypeOK, Goto, Goes
<1> QED
  BY ONLY ZenonT(30), Exit(c), <1>2, <1>3, <1>4 DEF Exit

-----------------------------------------------------------------------------
(* The steps that move a thread from one point of its own to another and   *)
(* touch neither the process table nor ptable.lock, and what they have in  *)
(* common.                                                                 *)
MoveEffect(c) == \/ SyscallDoes(c) \/ UserKilledDoes(c) \/ FaultDoes(c) \/ SysReturnDoes(c)
                 \/ ExitDoes(c) \/ AcquireLogDoes(c) \/ BeginTestDoes(c) \/ InTransDoes(c)
                 \/ CommitDoes(c)

MovesDoes(c) ==
  /\ TypeOK'
  /\ Goes(c, pc[proc[c]], pc'[proc[c]])
  /\ pc[proc[c]] \in Working \ Forking /\ pc'[proc[c]] \in Working \ Forking
  /\ Irqs(c, ifl'[c], intena'[c])
  /\ \A q \in Slot : q # proc[c] => after'[q] = after[q]
  /\ UNCHANGED <<state, pid, parent, chan, kstack, nextpid, ptlock, proc, np, resume, sintena>>

(* Each of these steps does so.                                            *)
LEMMA MoveFacts ==
  ASSUME NEW c \in CPU, MoveEffect(c) PROVE MovesDoes(c)
<1>a. {"user", "fork", "wait", "kill", "begin", "relock", "in_trans", "commit", "sysret", "exit",
       "exit_lock", "begin_test", "sleep", "commit_wake"} \subseteq Working \ Forking
  BY ZenonT(30) DEF Working, Preemptible, LogLocked, Forking
<1>1. SyscallDoes(c) => MovesDoes(c)
  BY ONLY <1>a DEF SyscallDoes, Irqs, MovesDoes, Goes, ptable, cpus, locals
<1>2. UserKilledDoes(c) => MovesDoes(c)
  BY ONLY ZenonT(30), <1>a DEF UserKilledDoes, Irqs, MovesDoes, Goes, ptable, cpus, locals
<1>3. FaultDoes(c) => MovesDoes(c)
  BY ONLY ZenonT(30), <1>a DEF FaultDoes, Irqs, MovesDoes, Goes, ptable, cpus, locals
<1>4. SysReturnDoes(c) => MovesDoes(c)
  BY ONLY ZenonT(30), <1>a DEF SysReturnDoes, Irqs, MovesDoes, Goes, ptable, cpus, locals
<1>5. ExitDoes(c) => MovesDoes(c)
  BY ONLY ZenonT(30), <1>a DEF ExitDoes, Irqs, MovesDoes, Goes, ptable, cpus, locals
<1>6. AcquireLogDoes(c) => MovesDoes(c)
  BY ONLY ZenonT(30), <1>a DEF AcquireLogDoes, Irqs, MovesDoes, Goes, ptable, cpus, locals
<1>7. BeginTestDoes(c) => MovesDoes(c)
  BY ONLY ZenonT(30), <1>a DEF BeginTestDoes, Irqs, MovesDoes, Goes, ptable, cpus, locals
<1>8. InTransDoes(c) => MovesDoes(c)
  BY ONLY ZenonT(30), <1>a DEF InTransDoes, Irqs, MovesDoes, Goes, ptable, cpus, locals
<1>9. CommitDoes(c) => MovesDoes(c)
  BY ONLY ZenonT(30), <1>a DEF CommitDoes, Irqs, MovesDoes, Goes, ptable, cpus, locals
<1> QED
  BY ONLY ZenonT(30), MoveEffect(c), <1>1, <1>2, <1>3, <1>4, <1>5, <1>6, <1>7, <1>8, <1>9
          DEF MoveEffect

(* What a step of CPU c does.                                              *)
Effect(c) ==
  /\ ~panicked
  /\ \/ MoveEffect(c) \/ ScansDoes(c) \/ SchedSwitchDoes(c) \/ SchedDoes(c)
     \/ YieldDoes(c) \/ YieldReturnDoes(c) \/ ForkretDoes(c) \/ AllocProcDoes(c)
     \/ AllocKstackDoes(c) \/ ForkCopyDoes(c) \/ ForkRunDoes(c) \/ ExitLockedDoes(c)
     \/ WaitScanDoes(c) \/ KillDoes(c) \/ SleepDoes(c) \/ SleepReturnDoes(c)
     \/ CommitWakeupDoes(c)

(* Every step of the system is panic() looping, or a step of some CPU.     *)
LEMMA Effects ==
  ASSUME IInv, Next PROVE Panic \/ \E c \in CPU : Effect(c)
<1>0. TypeOK /\ StateOK /\ LockOK /\ LogOK /\ IntOK /\ ForkOK
  BY ZenonT(30) DEF IInv
<1> SUFFICES ASSUME NEW c \in CPU,
                    \/ Scheduler(c) \/ Thread(c) \/ Yield(c) \/ Syscall(c) \/ Fault(c)
             PROVE  Effect(c)
  BY ZenonT(30) DEF Next
<1>p. Scheduler(c) \/ Yield(c) \/ Syscall(c) \/ Fault(c) => ~panicked
  BY ONLY ZenonT(30) DEF Scheduler, SchedAcquire, SchedSwitch, SchedRelease, Yield, Syscall, Fault, Running
<1>q. UserKilled(c) \/ SysReturn(c) \/ Exit(c) \/ AcquireLog(c) \/ BeginTest(c) => ~panicked
  BY ONLY ZenonT(30) DEF UserKilled, SysReturn, Exit, AcquireLog, BeginTest, Running
<1>r. InTrans(c) \/ Commit(c) \/ Sched(c) \/ YieldReturn(c) \/ Forkret(c) => ~panicked
  BY ONLY ZenonT(30) DEF InTrans, Commit, Sched, YieldReturn, Forkret, Running
<1>s. AllocProc(c) \/ AllocKstack(c) \/ ForkCopy(c) \/ ForkRun(c) \/ ExitLocked(c) => ~panicked
  BY ONLY ZenonT(30) DEF AllocProc, AllocKstack, ForkCopy, ForkRun, ExitLocked, Running
<1>t. WaitScan(c) \/ Kill(c) \/ Sleep(c) \/ SleepReturn(c) \/ CommitWakeup(c) => ~panicked
  BY ONLY ZenonT(30) DEF WaitScan, Kill, Sleep, SleepReturn, CommitWakeup, Running
<1>1. Scheduler(c) => Effect(c)
  BY ONLY ZenonT(30), <1>0, <1>p, c \in CPU, ScanFacts, SwitchFacts DEF Scheduler, Scans, Effect
<1>2. Yield(c) \/ Syscall(c) \/ Fault(c) => Effect(c)
  BY ONLY ZenonT(30), <1>0, <1>p, c \in CPU, YieldFacts, SyscallFacts, FaultFacts DEF Effect, MoveEffect
<1>3. UserKilled(c) \/ SysReturn(c) \/ Exit(c) => Effect(c)
  BY ONLY ZenonT(30), <1>0, <1>q, c \in CPU, UserKilledFacts, SysReturnFacts, ExitCallFacts
          DEF Effect, MoveEffect
<1>4. AcquireLog(c) \/ BeginTest(c) \/ InTrans(c) \/ Commit(c) => Effect(c)
  BY ONLY ZenonT(30), <1>0, <1>q, <1>r, c \in CPU, AcquireFacts, BeginFacts, InTransFacts, CommitFacts
          DEF Effect, MoveEffect
<1>5. Sched(c) \/ YieldReturn(c) \/ Forkret(c) \/ AllocProc(c) \/ AllocKstack(c) => Effect(c)
  BY ONLY ZenonT(30), <1>0, <1>r, <1>s, c \in CPU, SchedFacts, YieldReturnFacts, ForkretFacts, AllocProcFacts,
          KstackFacts DEF Effect
<1>6. ForkCopy(c) \/ ForkRun(c) \/ ExitLocked(c) \/ WaitScan(c) => Effect(c)
  BY ONLY ZenonT(30), <1>0, <1>s, <1>t, c \in CPU, ForkCopyFacts, ForkRunFacts, ExitFacts, WaitFacts DEF Effect
<1>7. Kill(c) \/ Sleep(c) \/ SleepReturn(c) \/ CommitWakeup(c) => Effect(c)
  BY ONLY ZenonT(30), <1>0, <1>t, c \in CPU, KillFacts, SleepFacts, SleepReturnFacts, WakeupFacts
          DEF Effect
<1> QED
  BY ZenonT(30), <1>1, <1>2, <1>3, <1>4, <1>5, <1>6, <1>7 DEF Thread

(* Every variable keeps its type.                                          *)
LEMMA TypeStep ==
  ASSUME NEW c \in CPU, Effect(c) PROVE TypeOK'
<1>1. MoveEffect(c) => TypeOK'
  BY ONLY ZenonT(30), c \in CPU, MoveFacts DEF MovesDoes
<1>2. ScansDoes(c) \/ SchedSwitchDoes(c) \/ SchedDoes(c) \/ YieldDoes(c) => TypeOK'
  BY ONLY ZenonT(30) DEF ScansDoes, SchedSwitchDoes, SchedDoes, YieldDoes
<1>3. YieldReturnDoes(c) \/ ForkretDoes(c) \/ AllocProcDoes(c) \/ AllocKstackDoes(c) => TypeOK'
  BY ONLY ZenonT(30) DEF YieldReturnDoes, ForkretDoes, AllocProcDoes, AllocKstackDoes
<1>4. ForkCopyDoes(c) \/ ForkRunDoes(c) \/ ExitLockedDoes(c) \/ WaitScanDoes(c) => TypeOK'
  BY ONLY ZenonT(30) DEF ForkCopyDoes, ForkRunDoes, ExitLockedDoes, WaitScanDoes
<1>5. KillDoes(c) \/ SleepDoes(c) \/ SleepReturnDoes(c) \/ CommitWakeupDoes(c) => TypeOK'
  BY ONLY ZenonT(30) DEF KillDoes, SleepDoes, SleepReturnDoes, CommitWakeupDoes
<1> QED
  BY ONLY ZenonT(30), Effect(c), <1>1, <1>2, <1>3, <1>4, <1>5 DEF Effect

(* Which points are a thread's own, and which are in swtch.                *)
LEMMA PointFacts ==
  /\ "dead" \notin Working /\ "forkret" \notin Working
  /\ "yield_swtch" \notin Working /\ "yield_resume" \notin Working
  /\ "wait_swtch" \notin Working /\ "wait_resume" \notin Working
  /\ "sleep_swtch" \notin Working /\ "sleep_resume" \notin Working
  /\ "exit_swtch" \notin Working
  /\ \A l \in Preemptible : l \in Working
  /\ "user" \in Working /\ "fork" \in Working /\ "fork_kstack" \in Working
  /\ "fork_copy" \in Working /\ "fork_run" \in Working /\ "wait" \in Working
  /\ "kill" \in Working /\ "relock" \in Working /\ "sysret" \in Working
  /\ "exit" \in Working /\ "exit_lock" \in Working /\ "sleep" \in Working /\ "commit_wake" \in Working
  BY ZenonT(30) DEF Working, Preemptible, LogLocked

(* What StateOK says of one slot.                                          *)
Fits(p) ==
  /\ pc[p] \in Working => state[p] = "RUNNING"
  /\ pc[p] = "yield_swtch" => state[p] = "RUNNABLE"
  /\ pc[p] \in {"wait_swtch", "sleep_swtch"} => state[p] = "SLEEPING"
  /\ pc[p] = "exit_swtch" => state[p] = "ZOMBIE"
  /\ pc[p] = "dead" => state[p] \in {"UNUSED", "EMBRYO", "ZOMBIE"}
  /\ pc[p] = "forkret" => state[p] \in {"EMBRYO", "RUNNABLE", "RUNNING"}
  /\ pc[p] = "yield_resume" => state[p] \in {"RUNNABLE", "RUNNING"}
  /\ pc[p] \in {"wait_resume", "sleep_resume"} => state[p] \in Alive
  /\ state[p] \in Alive \cup {"ZOMBIE"} => kstack[p]

(* A slot whose state, point and stack stay fits as before.                *)
LEMMA FitsKept ==
  ASSUME StateOK, NEW p \in Slot, UNCHANGED <<state[p], pc[p], kstack[p]>> PROVE Fits(p)'
  BY ZenonT(30) DEF StateOK, Fits

(* A slot that stays or is woken fits: it is at a return from sleep.       *)
LEMMA FitsWoken ==
  ASSUME TypeOK, StateOK, NEW p \in Slot, pc[p] \notin Switching, UNCHANGED <<pc[p], kstack[p]>>,
         state'[p] = state[p] \/ (state[p] = "SLEEPING" /\ state'[p] = "RUNNABLE")
  PROVE  Fits(p)'
<1>1. CASE state[p] = "SLEEPING" /\ state'[p] = "RUNNABLE"
  <2>1. pc[p] \notin Working /\ pc[p] # "dead" /\ pc[p] # "forkret" /\ pc[p] # "yield_resume"
    BY ZenonT(30), <1>1 DEF StateOK, Alive
  <2>2. pc[p] \in Labels /\ kstack[p]
    BY ZenonT(30), <1>1 DEF TypeOK, StateOK, Alive
  <2>3. pc[p] \in {"wait_resume", "sleep_resume"}
    BY ONLY ZenonT(30), <2>1, <2>2, pc[p] \notin Switching DEF Labels, Resuming, Working, LogLocked
  <2> QED
    BY ZenonT(30), <1>1, <2>2, <2>3, PointFacts DEF Fits, Alive
<1> QED
  BY ZenonT(30), <1>1, FitsKept

(* A process at a point that goes with its state, or no process.           *)
Placed(p) ==
  \/ /\ kstack[p]
     /\ \/ pc[p] \in Working /\ state[p] = "RUNNING"
        \/ pc[p] = "yield_swtch" /\ state[p] = "RUNNABLE"
        \/ pc[p] \in {"wait_swtch", "sleep_swtch"} /\ state[p] = "SLEEPING"
        \/ pc[p] = "exit_swtch" /\ state[p] = "ZOMBIE"
        \/ pc[p] \in Resuming /\ state[p] \in {"RUNNABLE", "RUNNING"}
  \/ pc[p] = "dead" /\ state[p] \in {"UNUSED", "EMBRYO"}
  \/ pc[p] = "forkret" /\ state[p] = "EMBRYO"

(* Such a slot fits.                                                       *)
LEMMA PlacedFits == ASSUME NEW p \in Slot PROVE Placed(p)' => Fits(p)'
  BY ZenonT(30), PointFacts DEF Placed, Fits, Alive, Resuming

(* What StateOK says of a thread that runs, a zombie and a free slot.      *)
LEMMA FitsFacts ==
  ASSUME TypeOK, StateOK, NEW p \in Slot
  PROVE  /\ state[p] \in {"RUNNING", "RUNNABLE", "SLEEPING", "ZOMBIE"} => kstack[p]
         /\ state[p] = "UNUSED" => pc[p] = "dead"
         /\ state[p] = "ZOMBIE" /\ pc[p] \notin Switching => pc[p] = "dead"
         /\ state[p] = "RUNNABLE" /\ pc[p] \notin Switching => pc[p] \in Resuming
         /\ pc[p] \in Working => state[p] = "RUNNING"
<1>1. Fits(p) /\ pc[p] \in Labels
  BY ZenonT(30) DEF StateOK, Fits, TypeOK
<1>2. pc[p] \in Working \/ pc[p] \in Switching \/ pc[p] \in Resuming \/ pc[p] = "dead"
  BY ZenonT(30), <1>1 DEF Labels, Working, LogLocked
<1> QED
  BY ONLY ZenonT(30), <1>1, <1>2 DEF Fits, Alive, Switching, Resuming

(* p->state fits the point of the thread after every step.                 *)
LEMMA StateStep ==
  ASSUME IInv, NEW c \in CPU, Effect(c) PROVE StateOK'
<1>0. TypeOK /\ StateOK /\ CpuOK /\ LockOK
  BY ZenonT(30) DEF IInv
<1> SUFFICES ASSUME NEW p \in Slot PROVE Fits(p)'
  BY ZenonT(30) DEF StateOK, Fits
<1>a. /\ 0 \notin Slot
      /\ proc[c] # 0 /\ pc[proc[c]] \notin Switching =>
           state[proc[c]] = "RUNNING" /\ kstack[proc[c]]
  BY ONLY ZenonT(30), <1>0, c \in CPU, ThreadFacts, FitsFacts, SlotFacts
<1>k. /\ UNCHANGED <<state[p], pc[p], kstack[p]>> => Fits(p)'
      /\ Placed(p)' => Fits(p)'
  BY ZenonT(30), <1>0, FitsKept, PlacedFits
<1>l. /\ {"relock", "sysret", "user", "exit", "exit_lock", "fork_kstack", "fork_copy", "fork_run",
          "fork", "kill", "sleep", "commit_wake"} \subseteq Working
      /\ \A l \in Preemptible : l \in Working
      /\ \A l \in Working : l \notin Switching
      /\ {"yield_resume", "wait_resume", "sleep_resume", "forkret", "wait"} \cap Switching = {}
  BY ZenonT(30) DEF Working, Preemptible, LogLocked, Switching
<1>1. MoveEffect(c) => Fits(p)'
  BY ONLY ZenonT(30), <1>a, <1>k, <1>l, c \in CPU, MoveFacts DEF MovesDoes, Goes, Placed
<1>2. ScansDoes(c) => Fits(p)'
  BY ONLY ZenonT(30), <1>k DEF ScansDoes, ptable
<1>3. ForkretDoes(c) => Fits(p)'
  BY ONLY ZenonT(30), <1>a, <1>k, <1>l DEF ForkretDoes, Goes, ptable, Placed
<1>4. YieldReturnDoes(c) => Fits(p)'
  BY ONLY ZenonT(30), <1>a, <1>k, <1>l DEF YieldReturnDoes, Goes, ptable, Placed
<1>5. SleepReturnDoes(c) => Fits(p)'
  BY ONLY ZenonT(30), <1>a, <1>k, <1>l DEF SleepReturnDoes, Goes, Placed
<1>6. SleepDoes(c) => Fits(p)'
  BY ONLY ZenonT(30), <1>a, <1>k, <1>l DEF SleepDoes, Goes, Becomes, Placed
<1>7. YieldDoes(c) => Fits(p)'
  BY ONLY ZenonT(30), <1>a, <1>k, <1>l DEF YieldDoes, Goes, Becomes, Placed
<1>8. ASSUME SchedDoes(c) PROVE Fits(p)'
  <2>1. CASE p # proc[c]
    BY ONLY ZenonT(30), <1>k, <1>8, <2>1, p \in Slot DEF SchedDoes
  <2>2. CASE p = proc[c]
    <3>1. /\ UNCHANGED <<state[p], kstack[p]>>
          /\ \/ pc[p] = "yield_swtch" /\ pc'[p] = "yield_resume"
             \/ pc[p] = "wait_swtch" /\ pc'[p] = "wait_resume"
             \/ pc[p] = "sleep_swtch" /\ pc'[p] = "sleep_resume"
             \/ pc[p] = "exit_swtch" /\ pc'[p] = "dead"
      BY ONLY ZenonT(30), <1>8, <2>2 DEF SchedDoes
    <3>2. Fits(p)
      BY ONLY ZenonT(30), <1>0, p \in Slot DEF StateOK, Fits
    <3> QED
      BY ONLY ZenonT(30), <3>1, <3>2, PointFacts DEF Fits, Alive
  <2> QED
    BY ONLY ZenonT(30), <2>1, <2>2
<1>b. ptlock \in {None, c} /\ p # proc[c] => pc[p] \notin Switching
  BY ZenonT(30), <1>0, OthersAway
<1>f. /\ state[p] \in {"RUNNING", "RUNNABLE", "SLEEPING", "ZOMBIE"} => kstack[p]
      /\ state[p] = "UNUSED" => pc[p] = "dead"
      /\ state[p] = "ZOMBIE" /\ pc[p] \notin Switching => pc[p] = "dead"
      /\ state[p] = "RUNNABLE" /\ pc[p] \notin Switching => pc[p] \in Resuming
  BY ZenonT(30), <1>0, FitsFacts
<1>9. SchedSwitchDoes(c) => Fits(p)'
  BY ONLY ZenonT(30), <1>a, <1>k, <1>b, <1>f DEF SchedSwitchDoes, Becomes, Placed
<1>10. AllocProcDoes(c) => Fits(p)'
  BY ONLY SMTT(60), <1>a, <1>k, <1>l, <1>f DEF AllocProcDoes, Goes, Allocated, Becomes, Placed
<1>11. AllocKstackDoes(c) => Fits(p)'
  BY ONLY ZenonT(30), <1>a, <1>k, <1>l DEF AllocKstackDoes, NewSlot, StackBuilt, Goes, Becomes, Placed
<1>12. ForkCopyDoes(c) => Fits(p)'
  BY ONLY ZenonT(30), <1>a, <1>k, <1>l DEF ForkCopyDoes, NewSlot, CopyFailed, Goes, Becomes, Placed
<1>13. ForkRunDoes(c) => Fits(p)'
  BY ONLY SMTT(60), <1>a, <1>k, <1>l DEF ForkRunDoes, NewSlot, Goes, Becomes, Resuming, Placed
<1>w. /\ pc[p] \notin Switching /\ UNCHANGED <<pc[p], kstack[p]>>
      /\ state'[p] = state[p] \/ (state[p] = "SLEEPING" /\ state'[p] = "RUNNABLE")
      => Fits(p)'
  BY ZenonT(30), <1>0, FitsWoken
<1>14. ExitLockedDoes(c) => Fits(p)'
  BY ONLY ZenonT(30), <1>a, <1>k, <1>l, <1>b, <1>w DEF ExitLockedDoes, Goes, ExitTable, Placed
<1>15. KillDoes(c) => Fits(p)'
  BY ONLY ZenonT(30), <1>a, <1>k, <1>l, <1>b, <1>w DEF KillDoes, Goes, Placed
<1>16. CommitWakeupDoes(c) => Fits(p)'
  BY ONLY SMTT(60), <1>a, <1>k, <1>l, <1>b, <1>w DEF CommitWakeupDoes, Goes, Placed
<1>17. ASSUME WaitScanDoes(c) PROVE Fits(p)'
  <2>1. /\ ptlock \in {None, c} /\ proc[c] \in Slot /\ (p # proc[c] => pc'[p] = pc[p])
        /\ pc[proc[c]] \in {"wait", "wait_resume"} /\ (WaitReturns(c) \/ WaitSleeps(c))
    BY ONLY ZenonT(30), <1>17 DEF WaitScanDoes, Goes
  <2>2. CASE p = proc[c]
    BY ONLY ZenonT(30), <1>a, <1>k, <1>l, <2>1, <2>2 DEF WaitReturns, WaitSleeps, Reaps, Becomes, Placed
  <2>3. CASE p # proc[c]
    BY ONLY ZenonT(30), <1>k, <1>b, <1>f, <2>1, <2>3 DEF WaitReturns, WaitSleeps, Reaps, Becomes, Placed
  <2> QED
    BY ONLY ZenonT(30), <2>2, <2>3
<1> QED
  BY ONLY ZenonT(30), Effect(c), <1>1, <1>2, <1>3, <1>4, <1>5, <1>6, <1>7, <1>8, <1>9, <1>10, <1>11,
          <1>12, <1>13, <1>14, <1>15, <1>16, <1>17 DEF Effect

(* What a step of CPU c keeps of the other CPUs.                           *)
CpusKept(c) ==
  \A d \in CPU : d # c => /\ proc'[d] = proc[d] /\ ifl'[d] = ifl[d]
                         /\ intena'[d] = intena[d] /\ (ptlock = d => ptlock' = d)

(* What a step of CPU c keeps of the threads that it does not execute: all *)
(* but the point of an EMBRYO.                                             *)
ThreadsKept(c) ==
  \A q \in Slot : q # proc[c] =>
    /\ after'[q] = after[q] /\ resume'[q] = resume[q]
    /\ sintena'[q] = sintena[q] /\ np'[q] = np[q]
    /\ pc'[q] = pc[q] \/ (state[q] = "EMBRYO" /\ pc'[q] \in {"forkret", "dead"})

(* A step of one CPU leaves the other CPUs and the other threads alone,    *)
(* the EMBRYO that it builds apart.                                        *)
LEMMA Others ==
  ASSUME NEW c \in CPU, Effect(c) PROVE CpusKept(c) /\ ThreadsKept(c)
<1> DEFINE Kept == CpusKept(c) /\ ThreadsKept(c)
<1>b. None \notin CPU /\ 0 \notin Slot
  BY ZenonT(30), ProcAssumption, SlotFacts
<1> USE DEF CpusKept, ThreadsKept, Goes, Irqs, cpus, locals
<1>1. MoveEffect(c) => Kept
  BY ONLY ZenonT(30), <1>b, c \in CPU, MoveFacts DEF MovesDoes
<1>2. ScansDoes(c) => Kept
  BY ONLY ZenonT(30), <1>b DEF ScansDoes
<1>3. SchedSwitchDoes(c) => Kept
  BY ONLY ZenonT(30), <1>b DEF SchedSwitchDoes
<1>4. SchedDoes(c) => Kept
  BY ONLY ZenonT(30), <1>b DEF SchedDoes
<1>5. AllocProcDoes(c) => Kept
  BY ONLY ZenonT(30), <1>b DEF AllocProcDoes, Allocated
<1>6. AllocKstackDoes(c) => Kept
  BY ONLY ZenonT(30), <1>b DEF AllocKstackDoes, NewSlot, StackBuilt
<1>7. ForkCopyDoes(c) => Kept
  BY ONLY ZenonT(30), <1>b DEF ForkCopyDoes, NewSlot, CopyFailed
<1>8. ForkRunDoes(c) => Kept
  BY ONLY ZenonT(30), <1>b DEF ForkRunDoes
<1>9. ExitLockedDoes(c) => Kept
  BY ONLY ZenonT(30), <1>b DEF ExitLockedDoes
<1>10. WaitScanDoes(c) => Kept
  BY ONLY ZenonT(30), <1>b DEF WaitScanDoes, WaitReturns, WaitSleeps
<1>11. KillDoes(c) => Kept
  BY ONLY ZenonT(30), <1>b DEF KillDoes
<1>12. YieldDoes(c) => Kept
  BY ONLY ZenonT(30), <1>b DEF YieldDoes
<1>13. SleepDoes(c) => Kept
  BY ONLY ZenonT(30), <1>b DEF SleepDoes
<1>14. CommitWakeupDoes(c) => Kept
  BY ONLY ZenonT(30), <1>b DEF CommitWakeupDoes
<1>15. YieldReturnDoes(c) => Kept
  BY ONLY ZenonT(30), <1>b DEF YieldReturnDoes
<1>16. ForkretDoes(c) => Kept
  BY ONLY ZenonT(30), <1>b DEF ForkretDoes
<1>17. SleepReturnDoes(c) => Kept
  BY ONLY ZenonT(30), <1>b DEF SleepReturnDoes
<1> HIDE DEF CpusKept, ThreadsKept
<1> QED
  BY ONLY ZenonT(30), Effect(c), <1>1, <1>2, <1>3, <1>4, <1>5, <1>6, <1>7, <1>8, <1>9, <1>10, <1>11,
          <1>12, <1>13, <1>14, <1>15, <1>16, <1>17 DEF Effect

(* What the other CPUs execute stays as it was.                            *)
LEMMA OtherCpus ==
  ASSUME IInv, NEW c \in CPU, Effect(c), NEW d \in CPU, d # c
  PROVE  /\ proc'[d] = proc[d] /\ ifl'[d] = ifl[d] /\ intena'[d] = intena[d]
         /\ ptlock = d => ptlock' = d
         /\ proc[d] # 0 => /\ proc[d] \in Slot
                           /\ pc'[proc[d]] = pc[proc[d]]
                           /\ after'[proc[d]] = after[proc[d]]
<1>0. TypeOK /\ StateOK /\ CpuOK
  BY ZenonT(30) DEF IInv
<1>1. proc[d] # 0 => proc[d] \in Slot /\ proc[d] # proc[c] /\ state[proc[d]] # "EMBRYO"
  BY ZenonT(30), <1>0, ThreadFacts DEF CpuOK
<1> QED
  BY ZenonT(30), <1>1, Others DEF CpusKept, ThreadsKept

(* The CPUs execute the threads they did.                                  *)
SameExecuting == proc' = proc /\ \A q \in Slot : Executing(q)' <=> Executing(q)

(* Only swtch changes which threads are executed.                          *)
LEMMA ExecutingStep ==
  ASSUME IInv, NEW c \in CPU, Effect(c) PROVE SchedSwitchDoes(c) \/ SchedDoes(c) \/ SameExecuting
<1>0. TypeOK /\ StateOK /\ CpuOK
  BY ZenonT(30) DEF IInv
<1>a. /\ 0 \notin Slot
      /\ proc[c] # 0 /\ pc[proc[c]] \notin Switching => state[proc[c]] = "RUNNING"
  BY ZenonT(30), <1>0, ThreadFacts, SlotFacts
<1>k. /\ \A l \in Working : l \notin Switching
      /\ \A l \in Preemptible : l \notin Switching
      /\ {"fork", "fork_kstack", "fork_copy", "fork_run", "sysret", "exit", "exit_lock", "user", "kill",
          "wait", "sleep", "commit_wake", "relock", "dead", "forkret", "yield_resume", "wait_resume",
          "sleep_resume"} \cap Switching = {}
      /\ {"yield_swtch", "wait_swtch", "sleep_swtch", "exit_swtch"} \subseteq Switching
  BY ZenonT(30) DEF Working, Preemptible, LogLocked, Switching
<1> USE DEF SameExecuting, Executing, Goes, Becomes, ptable, cpus
<1>1. MoveEffect(c) => SameExecuting
  BY ONLY ZenonT(30), <1>a, <1>k, c \in CPU, MoveFacts DEF MovesDoes
<1>2. ScansDoes(c) => SameExecuting
  BY ONLY ZenonT(30), <1>a DEF ScansDoes
<1>3. YieldReturnDoes(c) => SameExecuting
  BY ONLY ZenonT(30), <1>a, <1>k DEF YieldReturnDoes
<1>4. ForkretDoes(c) => SameExecuting
  BY ONLY ZenonT(30), <1>a, <1>k DEF ForkretDoes
<1>5. SleepReturnDoes(c) => SameExecuting
  BY ONLY ZenonT(30), <1>a, <1>k DEF SleepReturnDoes
<1>6. SleepDoes(c) => SameExecuting
  BY ONLY ZenonT(30), <1>a, <1>k DEF SleepDoes
<1>7. YieldDoes(c) => SameExecuting
  BY ONLY ZenonT(30), <1>a, <1>k DEF YieldDoes
<1>8. ExitLockedDoes(c) => SameExecuting
  BY ONLY <1>a, <1>k DEF ExitLockedDoes, ExitTable
<1>9. ASSUME WaitScanDoes(c) PROVE SameExecuting
  <2>1. CASE WaitReturns(c)
    BY ONLY ZenonT(30), <1>a, <1>k, <1>9, <2>1 DEF WaitScanDoes, WaitReturns, Reaps
  <2>2. CASE WaitSleeps(c)
    BY ONLY ZenonT(30), <1>a, <1>k, <1>9, <2>2 DEF WaitScanDoes, WaitSleeps
  <2> QED
    BY ONLY ZenonT(30), <1>9, <2>1, <2>2 DEF WaitScanDoes
<1>10. CommitWakeupDoes(c) => SameExecuting
  BY ONLY ZenonT(30), <1>a, <1>k DEF CommitWakeupDoes
<1>11. KillDoes(c) => SameExecuting
  BY ONLY ZenonT(30), <1>a, <1>k DEF KillDoes
<1>12. AllocProcDoes(c) => SameExecuting
  BY ONLY ZenonT(30), <1>a, <1>k DEF AllocProcDoes, Allocated
<1>13. AllocKstackDoes(c) => SameExecuting
  BY ONLY ZenonT(30), <1>a, <1>k DEF AllocKstackDoes, NewSlot, StackBuilt
<1>14. ForkCopyDoes(c) => SameExecuting
  BY ONLY SMTT(60), <1>a, <1>k DEF ForkCopyDoes, NewSlot, CopyFailed
<1>15. ForkRunDoes(c) => SameExecuting
  BY ONLY ZenonT(30), <1>a, <1>k DEF ForkRunDoes, NewSlot
<1> HIDE DEF SameExecuting
<1> QED
  BY ONLY ZenonT(30), Effect(c), <1>1, <1>2, <1>3, <1>4, <1>5, <1>6, <1>7, <1>8, <1>9, <1>10, <1>11,
          <1>12, <1>13, <1>14, <1>15 DEF Effect

(* Each thread that is executed is executed by one CPU.                    *)
LEMMA CpuStep ==
  ASSUME IInv, NEW c \in CPU, Effect(c) PROVE CpuOK'
<1>0. TypeOK /\ StateOK /\ CpuOK /\ LockOK
  BY ZenonT(30) DEF IInv
<1>a. 0 \notin Slot /\ \A d \in CPU : proc[d] # 0 => proc[d] \in Slot
  BY ZenonT(30), <1>0, SlotFacts DEF TypeOK
<1>1. SameExecuting => CpuOK'
  BY ONLY ZenonT(30), <1>0, <1>a DEF SameExecuting, CpuOK
<1>2. ASSUME SchedSwitchDoes(c) PROVE CpuOK'
  <2>1. PICK p \in Slot :
          /\ proc[c] = 0 /\ proc'[c] = p /\ \A d \in CPU : d # c => proc'[d] = proc[d]
          /\ ptlock = c /\ state[p] = "RUNNABLE" /\ state'[p] = "RUNNING" /\ pc' = pc
          /\ \A q \in Slot : q # p => state'[q] = state[q]
    BY ONLY ZenonT(30), <1>2 DEF SchedSwitchDoes, Becomes
  <2>2. ~Executing(p)
    BY ZenonT(30), <1>0, <1>a, <2>1, OthersAway DEF Executing
  <2>3. Executing(p)' /\ \A q \in Slot : q # p => (Executing(q)' <=> Executing(q))
    BY ONLY ZenonT(30), <2>1 DEF Executing
  <2> QED
    BY ONLY SMTT(60), <1>0, <1>a, <2>1, <2>2, <2>3 DEF CpuOK
<1>3. ASSUME SchedDoes(c) PROVE CpuOK'
  <2>1. PICK p \in Slot :
          /\ proc[c] = p /\ proc'[c] = 0 /\ \A d \in CPU : d # c => proc'[d] = proc[d]
          /\ pc[p] \in Switching /\ pc'[p] \notin Switching /\ state' = state
          /\ \A q \in Slot : q # p => pc'[q] = pc[q]
    BY ONLY ZenonT(30), <1>3 DEF SchedDoes, Switching
  <2>2. ~Executing(p)'
    BY ONLY ZenonT(30), <1>0, <2>1 DEF Executing, StateOK, Switching
  <2>3. \A q \in Slot : q # p => (Executing(q)' <=> Executing(q))
    BY ONLY ZenonT(30), <2>1 DEF Executing
  <2> QED
    BY ONLY SMTT(60), <1>0, <1>a, <2>1, <2>2, <2>3 DEF CpuOK
<1> QED
  BY ZenonT(30), <1>1, <1>2, <1>3, ExecutingStep

(* Around swtch the thread keeps ptable.lock.                              *)
LEMMA LockStep ==
  ASSUME IInv, NEW c \in CPU, Effect(c) PROVE LockOK'
<1>0. LockOK
  BY ZenonT(30) DEF IInv
<1>1. ASSUME NEW d \in CPU, d # c, proc'[d] # 0, pc'[proc'[d]] \in Switching \cup Resuming
      PROVE  ptlock' = d
  BY ZenonT(30), <1>0, <1>1, OtherCpus DEF LockOK
<1> DEFINE Held == proc'[c] # 0 /\ pc'[proc'[c]] \in Switching \cup Resuming => ptlock' = c
<1>a. 0 \notin Slot
  BY ZenonT(30), SlotFacts
<1>k. /\ \A l \in Working \cup Preemptible : l \notin Switching \cup Resuming
      /\ \A l \in {"sysret", "exit", "exit_lock", "user", "fork_kstack", "fork_copy", "fork_run",
                   "relock"} : l \in Working
  BY ZenonT(30) DEF Working, Preemptible, LogLocked, Switching, Resuming
<1>h. proc'[c] # 0 /\ (pc'[proc'[c]] \in Working \cup Preemptible \/ ptlock' = c) => Held
  BY ONLY ZenonT(30), <1>k
<1>z. proc'[c] = 0 => Held
  BY ZenonT(30)
<1> HIDE DEF Held
<1> USE DEF Goes, cpus
<1>2. MoveEffect(c) => Held
  BY ONLY ZenonT(30), <1>a, <1>h, c \in CPU, MoveFacts DEF MovesDoes
<1>3. ScansDoes(c) \/ SchedSwitchDoes(c) \/ SchedDoes(c) => Held
  BY ONLY ZenonT(30), <1>a, <1>h, <1>z DEF ScansDoes, SchedSwitchDoes, SchedDoes
<1>4. YieldDoes(c) \/ ExitLockedDoes(c) \/ SleepDoes(c) => Held
  BY ONLY ZenonT(30), <1>a, <1>h DEF YieldDoes, ExitLockedDoes, SleepDoes
<1>5. AllocProcDoes(c) \/ KillDoes(c) \/ ForkRunDoes(c) => Held
  BY ONLY ZenonT(30), <1>a, <1>k, <1>h DEF AllocProcDoes, KillDoes, ForkRunDoes
<1>6. AllocKstackDoes(c) \/ ForkCopyDoes(c) => Held
  BY ONLY ZenonT(30), <1>a, <1>k, <1>h DEF AllocKstackDoes, ForkCopyDoes, NewSlot, StackBuilt, CopyFailed
<1>7. WaitScanDoes(c) => Held
  BY ONLY ZenonT(30), <1>a, <1>k, <1>h DEF WaitScanDoes, WaitReturns, WaitSleeps
<1>8. YieldReturnDoes(c) => Held
  BY ONLY ZenonT(30), <1>a, <1>k, <1>h DEF YieldReturnDoes
<1>9. ForkretDoes(c) \/ SleepReturnDoes(c) \/ CommitWakeupDoes(c) => Held
  BY ONLY ZenonT(30), <1>a, <1>k, <1>h DEF ForkretDoes, SleepReturnDoes, CommitWakeupDoes
<1>10. Held
  BY ONLY ZenonT(30), Effect(c), <1>2, <1>3, <1>4, <1>5, <1>6, <1>7, <1>8, <1>9 DEF Effect
<1> QED
  BY ONLY ZenonT(30), <1>1, <1>10 DEF LockOK, Held
=============================================================================
