----------------------------- MODULE ProcProofs -----------------------------
(***************************************************************************)
(* Every step of the process table and the scheduler keeps the log         *)
(* exclusive, and the control flow, the interrupt state, fork()'s slots    *)
(* and the family tree sound; the theorems of Proc, for any number of      *)
(* slots, CPUs, pids and transactions.                                     *)
(***************************************************************************)
EXTENDS ProcInv

(* The steps of begin_trans, commit_trans and their sleep.                 *)
LogStep(c) == \/ AcquireLogDoes(c) \/ BeginTestDoes(c) \/ SleepDoes(c) \/ InTransDoes(c)
              \/ CommitDoes(c) \/ CommitWakeupDoes(c)

(* The log's fields and who is at work on it stay, and nobody is put to    *)
(* sleep on it.                                                            *)
LogKept ==
  /\ UNCHANGED <<loglock, busy>>
  /\ \A q \in Slot :
       /\ pc[q] \in LogLocked \/ pc'[q] \in LogLocked => pc'[q] = pc[q]
       /\ InTransaction(q)' <=> InTransaction(q)
       /\ state'[q] = "SLEEPING" /\ chan'[q] = LOG =>
            state[q] = "SLEEPING" /\ chan[q] = LOG

(* Points at which a thread has neither log.lock nor the log.              *)
Elsewhere == {"user", "fork", "fork_kstack", "fork_copy", "fork_run", "wait", "wait_swtch",
              "wait_resume", "kill", "begin", "relock", "sleep_swtch", "sleep_resume", "sysret",
              "exit", "exit_lock", "exit_swtch", "forkret", "dead"}

(* The thread of CPU c stays elsewhere, or is where it was, the timer      *)
(* apart.                                                                  *)
Apart(p) ==
  \/ pc'[p] = pc[p] /\ resume'[p] = resume[p]
  \/ pc[p] \in Elsewhere /\ pc'[p] \in Elsewhere
  \/ pc[p] \in Preemptible /\ pc'[p] = "yield_swtch" /\ resume'[p] = pc[p]
  \/ pc[p] = "yield_swtch" /\ pc'[p] = "yield_resume" /\ resume'[p] = resume[p]
  \/ pc[p] = "yield_resume" /\ resume[p] \in Preemptible /\ pc'[p] = resume[p]
  \/ pc[p] = "yield_resume" /\ resume[p] = "user" /\ pc'[p] = "exit"

(* Such a thread neither takes nor gives up log.lock or the log.           *)
LEMMA ApartFacts ==
  ASSUME NEW p, Apart(p)
  PROVE  /\ pc[p] \in LogLocked \/ pc'[p] \in LogLocked => pc'[p] = pc[p]
         /\ InTransaction(p)' <=> InTransaction(p)
  BY ZenonT(30) DEF Apart, Elsewhere, Preemptible, LogLocked, InTransaction

(* Nobody is put to sleep on the log.                                      *)
NoneSleeps ==
  \A q \in Slot : state'[q] = "SLEEPING" /\ chan'[q] = LOG => state[q] = "SLEEPING" /\ chan[q] = LOG

(* The other steps keep the log.                                           *)
LEMMA LogQuiet ==
  ASSUME IInv, NEW c \in CPU, Effect(c) PROVE LogStep(c) \/ LogKept
<1>0. TypeOK /\ StateOK /\ CpuOK
  BY ZenonT(30) DEF IInv
<1>a. 0 \notin Slot /\ LOG \notin Slot /\ LOG # 0
  BY SMTT(60), ProcAssumption, SlotFacts DEF LOG
<1>l. {"user", "fork", "fork_kstack", "fork_copy", "fork_run", "wait", "wait_swtch", "wait_resume",
       "kill", "begin", "relock", "sleep_swtch", "sleep_resume", "sysret", "exit", "exit_lock",
       "exit_swtch", "forkret", "dead"} \subseteq Elsewhere
  BY ZenonT(30) DEF Elsewhere
<1> DEFINE Quiet == /\ UNCHANGED <<loglock, busy>> /\ NoneSleeps
                    /\ proc[c] # 0 => Apart(proc[c])
<1> USE DEF Goes, Becomes, ptable, cpus, locals, log, Apart, NoneSleeps
<1>1. SyscallDoes(c) \/ UserKilledDoes(c) \/ FaultDoes(c) => Quiet
  BY ONLY ZenonT(30), <1>a, <1>l DEF SyscallDoes, UserKilledDoes, FaultDoes
<1>2. SysReturnDoes(c) \/ ExitDoes(c) => Quiet
  BY ONLY ZenonT(30), <1>a, <1>l DEF SysReturnDoes, ExitDoes
<1>3. ScansDoes(c) => Quiet
  BY ONLY ZenonT(30), <1>a DEF ScansDoes
<1>4. SchedSwitchDoes(c) => Quiet
  BY ONLY ZenonT(30), <1>a DEF SchedSwitchDoes
<1>5. SchedDoes(c) => Quiet
  BY ONLY ZenonT(30), <1>a, <1>l DEF SchedDoes
<1>6. AllocProcDoes(c) => Quiet
  BY ONLY ZenonT(30), <1>a, <1>l DEF AllocProcDoes, Allocated
<1>7. AllocKstackDoes(c) => Quiet
  BY ONLY ZenonT(30), <1>a, <1>l DEF AllocKstackDoes, NewSlot, StackBuilt
<1>8. ForkCopyDoes(c) => Quiet
  BY ONLY ZenonT(30), <1>a, <1>l DEF ForkCopyDoes, NewSlot, CopyFailed
<1>9. ExitLockedDoes(c) => Quiet
  BY ONLY ZenonT(30), <1>a, <1>l DEF ExitLockedDoes, ExitTable
<1>10. ASSUME WaitScanDoes(c) PROVE Quiet
  <2>1. /\ proc[c] \in Slot /\ pc[proc[c]] \in {"wait", "wait_resume"} /\ UNCHANGED <<loglock, busy>>
        /\ \A q \in Slot : q # proc[c] => chan'[q] = chan[q]
        /\ WaitReturns(c) \/ WaitSleeps(c)
    BY ONLY ZenonT(30), <1>10 DEF WaitScanDoes
  <2>2. state[proc[c]] = "RUNNING"
    BY ZenonT(30), <1>0, <1>a, <2>1, ThreadFacts DEF Switching
  <2>3. Apart(proc[c])
    BY ONLY ZenonT(30), <1>l, <2>1 DEF WaitReturns, WaitSleeps
  <2>4. NoneSleeps
    BY ONLY ZenonT(30), <1>a, <2>1, <2>2 DEF WaitReturns, WaitSleeps, Reaps
  <2> QED
    BY ONLY ZenonT(30), <2>1, <2>3, <2>4
<1>11. KillDoes(c) => Quiet
  BY ONLY ZenonT(30), <1>a, <1>l DEF KillDoes
<1>12. YieldDoes(c) => Quiet
  BY ONLY ZenonT(30), <1>a DEF YieldDoes
<1>13. YieldReturnDoes(c) => Quiet
  BY ONLY ZenonT(30), <1>a DEF YieldReturnDoes
<1>14. ForkretDoes(c) => Quiet
  BY ONLY ZenonT(30), <1>a, <1>l DEF ForkretDoes
<1>18. SleepReturnDoes(c) => Quiet
  BY ONLY ZenonT(30), <1>a, <1>l DEF SleepReturnDoes
<1>15. ForkRunDoes(c) => Quiet
  BY ONLY ZenonT(30), <1>a, <1>l DEF ForkRunDoes, NewSlot
<1> HIDE DEF Apart, NoneSleeps
<1>16. LogStep(c) \/ Quiet
  BY ONLY ZenonT(30), Effect(c), <1>1, <1>2, <1>3, <1>4, <1>5, <1>6, <1>7, <1>8, <1>9, <1>10, <1>11,
          <1>12, <1>13, <1>14, <1>15, <1>18 DEF Effect, MoveEffect, LogStep
<1>17. \A q \in Slot : q # proc[c] => Apart(q)
  <2>1. \A q \in Slot : state[q] = "EMBRYO" => pc[q] \in {"dead", "forkret"}
    BY ZenonT(30), <1>0 DEF StateOK, TypeOK, Labels, Working, LogLocked, Switching, Resuming, Alive
  <2>2. ThreadsKept(c)
    BY ZenonT(30), Others
  <2> QED
    BY ONLY ZenonT(30), <2>1, <2>2, <1>l DEF ThreadsKept, Apart
<1> QED
  BY ONLY ZenonT(30), <1>a, <1>16, <1>17, ApartFacts DEF LogKept, NoneSleeps

(* log.lock has one owner, and log.busy stays set until it has slept.      *)
LEMMA LogLockStep ==
  ASSUME IInv, NEW c \in CPU, Effect(c) PROVE LogOK'
<1>0. LogOK /\ 0 \notin Slot
  BY ZenonT(30), SlotFacts DEF IInv
<1>1. LogKept => LogOK'
  BY ONLY <1>0 DEF LogKept, LogOK, LogLocked
<1> USE DEF Goes, LogOK, LogLocked, log
<1>2. AcquireLogDoes(c) => LogOK'
  BY ONLY ZenonT(30), <1>0 DEF AcquireLogDoes
<1>3. BeginTestDoes(c) => LogOK'
  BY ONLY <1>0 DEF BeginTestDoes
<1>4. SleepDoes(c) => LogOK'
  BY ONLY ZenonT(30), <1>0 DEF SleepDoes
<1>5. InTransDoes(c) => LogOK'
  BY ONLY <1>0 DEF InTransDoes
<1>6. CommitDoes(c) => LogOK'
  BY ONLY ZenonT(30), <1>0 DEF CommitDoes
<1>7. CommitWakeupDoes(c) => LogOK'
  BY ONLY ZenonT(30), <1>0 DEF CommitWakeupDoes
<1> HIDE DEF LogOK
<1> QED
  BY ZenonT(30), <1>1, <1>2, <1>3, <1>4, <1>5, <1>6, <1>7, LogQuiet DEF LogStep

(* log.busy is set by the one that enters a transaction, and cleared by    *)
(* the one that leaves it.                                                 *)
LEMMA TransactionStep ==
  ASSUME IInv, NEW c \in CPU, Effect(c) PROVE OneTransaction'
<1>0. OneTransaction /\ 0 \notin Slot
  BY ZenonT(30), SlotFacts DEF IInv
<1>1. LogKept => OneTransaction'
  BY ONLY <1>0 DEF LogKept, OneTransaction
<1> USE DEF Goes, OneTransaction, InTransaction, log, locals
<1>2. AcquireLogDoes(c) => OneTransaction'
  BY ONLY SMTT(60), <1>0 DEF AcquireLogDoes
<1>3. BeginTestDoes(c) => OneTransaction'
  BY ONLY SMTT(60), <1>0 DEF BeginTestDoes
<1>4. SleepDoes(c) => OneTransaction'
  BY ONLY SMTT(60), <1>0 DEF SleepDoes
<1>5. InTransDoes(c) => OneTransaction'
  BY ONLY <1>0 DEF InTransDoes
<1>6. CommitDoes(c) => OneTransaction'
  BY ONLY ZenonT(30), <1>0 DEF CommitDoes
<1>7. CommitWakeupDoes(c) => OneTransaction'
  BY ONLY SMTT(60), <1>0 DEF CommitWakeupDoes
<1> HIDE DEF OneTransaction
<1> QED
  BY ZenonT(30), <1>1, <1>2, <1>3, <1>4, <1>5, <1>6, <1>7, LogQuiet DEF LogStep

(* A thread asleep on the log will be woken.                               *)
LEMMA WakeupStep ==
  ASSUME IInv, NEW c \in CPU, Effect(c) PROVE NoLostWakeup'
<1>0. NoLostWakeup /\ LogOK
  BY ZenonT(30) DEF IInv
<1>1. LogKept => NoLostWakeup'
  BY ONLY SMTT(60), <1>0 DEF LogKept, NoLostWakeup, LogLocked
<1> USE DEF Goes, NoLostWakeup, log, ptable
<1>2. AcquireLogDoes(c) => NoLostWakeup'
  BY ONLY SMTT(60), <1>0 DEF AcquireLogDoes
<1>3. BeginTestDoes(c) => NoLostWakeup'
  BY ONLY SMTT(60), <1>0 DEF BeginTestDoes
<1>4. SleepDoes(c) => NoLostWakeup'
  BY ONLY SMTT(60), <1>0 DEF SleepDoes, LogOK, Becomes
<1>5. InTransDoes(c) => NoLostWakeup'
  BY ONLY SMTT(60), <1>0 DEF InTransDoes
<1>6. CommitDoes(c) => NoLostWakeup'
  BY ONLY ZenonT(30), <1>0 DEF CommitDoes
<1>7. CommitWakeupDoes(c) => NoLostWakeup'
  BY ONLY ZenonT(30), <1>0 DEF CommitWakeupDoes
<1> HIDE DEF NoLostWakeup
<1> QED
  BY ZenonT(30), <1>1, <1>2, <1>3, <1>4, <1>5, <1>6, <1>7, LogQuiet DEF LogStep

-----------------------------------------------------------------------------
(* The control flow of a thread: where it may go from its point.           *)
Onward(p, from, to) ==
  \/ from = "user" /\ to \in {"fork", "exit", "wait", "kill", "begin"}
  \/ from = "forkret" /\ to = "user"
  \/ from = "sysret" /\ to \in {"user", "exit"}
  \/ from = "fork" /\ to \in {"sysret", "fork_kstack"}
  \/ from = "fork_kstack" /\ to \in {"sysret", "fork_copy"}
  \/ from = "fork_copy" /\ to \in {"sysret", "fork_run"}
  \/ from \in {"fork_run", "kill"} /\ to = "sysret"
  \/ from \in {"wait", "wait_resume"} /\ to \in {"sysret", "wait_swtch"}
  \/ from = "wait_swtch" /\ to = "wait_resume"
  \/ from = "exit" /\ to \in {"exit_lock", "begin"} /\ p # initproc
  \/ from = "exit_lock" /\ to = "exit_swtch"
  \/ from = "exit_swtch" /\ to = "dead"
  \/ from \in {"begin", "relock"} /\ to = "begin_test"
  \/ from = "begin_test" /\ to \in {"sleep", "in_trans"}
  \/ from = "sleep" /\ to = "sleep_swtch"
  \/ from = "sleep_swtch" /\ to = "sleep_resume"
  \/ from = "sleep_resume" /\ to = "relock"
  \/ from = "in_trans" /\ to = "commit"
  \/ from = "commit" /\ to = "commit_wake"
  \/ from = "commit_wake" /\ to = after[p]

(* What a thread at a point does next: it stays or goes on, and what       *)
(* follows its transaction is set where it enters one.                     *)
Leads(p, from, to) ==
  /\ to = from \/ Onward(p, from, to)
  /\ \/ after'[p] = after[p]
     \/ from = "user" /\ after'[p] = "sysret"
     \/ from = "exit" /\ p # initproc
  /\ from = "user" /\ to \notin {"user", "exit"} => after'[p] = "sysret"

(* A thread goes on, timer interrupts apart.                               *)
GoesOn(p) == Leads(p, Point(p), Point(p)')

(* The thread that a step moves goes on.                                   *)
LEMMA PointStep ==
  ASSUME NEW c \in CPU, Effect(c), NEW p \in Slot, p = proc[c] PROVE GoesOn(p)
<1>0. 0 \notin Slot /\ p \in Slot /\ p = proc[c]
  BY ZenonT(30), SlotFacts
<1>p. \A l \in Preemptible : l \notin Yielding
  BY ZenonT(30) DEF Preemptible, Yielding
<1>q. pc[p] \notin Yielding /\ pc'[p] \notin Yielding /\ Leads(p, pc[p], pc'[p]) => GoesOn(p)
  BY ZenonT(30) DEF Point, GoesOn
<1> USE DEF Goes, Leads, Onward, Yielding, locals
<1>1. ScansDoes(c) \/ SchedSwitchDoes(c) => GoesOn(p)
  BY ONLY ZenonT(30), <1>0 DEF ScansDoes, SchedSwitchDoes
<1>2. ASSUME SchedDoes(c) PROVE GoesOn(p)
  <2>1. CASE pc[p] = "yield_swtch"
    BY ONLY ZenonT(30), <1>0, <1>2, <2>1 DEF SchedDoes, GoesOn, Point
  <2>2. CASE pc[p] # "yield_swtch"
    BY ONLY ZenonT(30), <1>0, <1>q, <1>2, <2>2 DEF SchedDoes
  <2> QED
    BY ONLY ZenonT(30), <2>1, <2>2
<1>3. AllocProcDoes(c) => GoesOn(p)
  BY ONLY ZenonT(30), <1>0, <1>q DEF AllocProcDoes
<1>4. WaitScanDoes(c) => GoesOn(p)
  BY ONLY ZenonT(30), <1>0, <1>q DEF WaitScanDoes, WaitReturns, WaitSleeps
<1>5. KillDoes(c) => GoesOn(p)
  BY ONLY ZenonT(30), <1>0, <1>q DEF KillDoes
<1>6. AllocKstackDoes(c) => GoesOn(p)
  BY ONLY ZenonT(30), <1>0, <1>q DEF AllocKstackDoes, StackBuilt
<1>7. ForkCopyDoes(c) => GoesOn(p)
  BY ONLY ZenonT(30), <1>0, <1>q DEF ForkCopyDoes, CopyFailed
<1>8. ExitLockedDoes(c) => GoesOn(p)
  BY ONLY ZenonT(30), <1>0, <1>q DEF ExitLockedDoes
<1>9. BeginTestDoes(c) => GoesOn(p)
  BY ONLY ZenonT(30), <1>0, <1>q DEF BeginTestDoes
<1>10. SyscallDoes(c) => GoesOn(p)
  BY ONLY ZenonT(30), <1>0, <1>q DEF SyscallDoes
<1>11. UserKilledDoes(c) \/ FaultDoes(c) => GoesOn(p)
  BY ONLY ZenonT(30), <1>0, <1>q DEF UserKilledDoes, FaultDoes
<1>12. SysReturnDoes(c) => GoesOn(p)
  BY ONLY ZenonT(30), <1>0, <1>q DEF SysReturnDoes
<1>13. ExitDoes(c) => GoesOn(p)
  BY ONLY ZenonT(30), <1>0, <1>q DEF ExitDoes
<1>14. AcquireLogDoes(c) => GoesOn(p)
  BY ONLY ZenonT(30), <1>0, <1>q DEF AcquireLogDoes
<1>15. InTransDoes(c) \/ CommitDoes(c) => GoesOn(p)
  BY ONLY ZenonT(30), <1>0, <1>q DEF InTransDoes, CommitDoes
<1>16. ForkretDoes(c) \/ SleepReturnDoes(c) => GoesOn(p)
  BY ONLY ZenonT(30), <1>0, <1>q DEF ForkretDoes, SleepReturnDoes
<1>17. SleepDoes(c) \/ ForkRunDoes(c) => GoesOn(p)
  BY ONLY ZenonT(30), <1>0, <1>q DEF SleepDoes, ForkRunDoes
<1>18. CommitWakeupDoes(c) => GoesOn(p)
  BY ONLY ZenonT(30), <1>0, <1>q DEF CommitWakeupDoes
<1> HIDE DEF Leads, Onward, Yielding
<1>19. ASSUME YieldDoes(c) PROVE GoesOn(p)
  <2>1. Point(p) = pc[p] /\ Point(p)' = pc[p] /\ after' = after
    BY ONLY ZenonT(30), <1>0, <1>p, <1>19 DEF YieldDoes, Point, Yielding
  <2> QED
    BY ONLY ZenonT(30), <2>1 DEF GoesOn, Leads
<1>20. ASSUME YieldReturnDoes(c) PROVE GoesOn(p)
  <2>1. /\ Point(p) = resume[p] /\ Point(p)' = pc'[p] /\ after' = after
        /\ pc'[p] = resume[p] \/ (resume[p] = "user" /\ pc'[p] = "exit")
    BY ONLY ZenonT(30), <1>0, <1>p, <1>20 DEF YieldReturnDoes, Point, Yielding
  <2> QED
    BY ONLY ZenonT(30), <2>1 DEF GoesOn, Leads, Onward
<1> QED
  BY ONLY ZenonT(30), Effect(c), <1>1, <1>2, <1>3, <1>4, <1>5, <1>6, <1>7, <1>8, <1>9, <1>10, <1>11,
          <1>12, <1>13, <1>14, <1>15, <1>16, <1>17, <1>18, <1>19, <1>20 DEF Effect, MoveEffect

(* What follows a transaction is exit() only for a process that exits.     *)
LEMMA AfterStep ==
  ASSUME IInv, NEW c \in CPU, Effect(c) PROVE AfterOK'
<1>0. AfterOK
  BY ZenonT(30) DEF IInv
<1>1. ASSUME NEW q \in Slot, q # proc[c], Point(q)' \in InSyscall PROVE after'[q] = "sysret"
  <2>1. ThreadsKept(c)
    BY ZenonT(30), Others
  <2> QED
    BY ONLY ZenonT(30), <1>0, <1>1, <2>1 DEF ThreadsKept, AfterOK, Point, Yielding, InSyscall, Forking
<1>2. ASSUME NEW p \in Slot, p = proc[c], Point(p)' \in InSyscall PROVE after'[p] = "sysret"
  <2>1. GoesOn(p) /\ after[p] \in {"sysret", "exit"}
    BY ZenonT(30), <1>2, PointStep DEF IInv, TypeOK
  <2>2. Point(p) \in InSyscall => after[p] = "sysret"
    BY ONLY ZenonT(30), <1>0, <1>2 DEF AfterOK
  <2> QED
    BY ONLY ZenonT(30), <1>2, <2>1, <2>2 DEF GoesOn, Leads, Onward, InSyscall, Forking
<1> QED
  BY ONLY ZenonT(30), <1>1, <1>2 DEF AfterOK

(* Nobody but init panics.                                                 *)
LEMMA PanicStep ==
  ASSUME NEW c \in CPU, Effect(c) PROVE PanicOnlyInitExit'
<1>0. ~panicked
  BY ZenonT(30) DEF Effect
<1>1. UNCHANGED panicked => PanicOnlyInitExit'
  BY ONLY ZenonT(30), <1>0 DEF PanicOnlyInitExit
<1>2. ExitDoes(c) => PanicOnlyInitExit'
  BY ONLY ZenonT(30), <1>0, <1>1 DEF ExitDoes, PanicOnlyInitExit
<1>3. SyscallDoes(c) \/ UserKilledDoes(c) \/ FaultDoes(c) \/ SysReturnDoes(c) => UNCHANGED panicked
  BY ONLY ZenonT(30) DEF SyscallDoes, UserKilledDoes, FaultDoes, SysReturnDoes
<1>4. AcquireLogDoes(c) \/ BeginTestDoes(c) \/ InTransDoes(c) \/ CommitDoes(c) => UNCHANGED panicked
  BY ONLY ZenonT(30) DEF AcquireLogDoes, BeginTestDoes, InTransDoes, CommitDoes
<1>5. ScansDoes(c) \/ SchedSwitchDoes(c) \/ SchedDoes(c) \/ YieldDoes(c) => UNCHANGED panicked
  BY ONLY ZenonT(30) DEF ScansDoes, SchedSwitchDoes, SchedDoes, YieldDoes
<1>6. \/ YieldReturnDoes(c) \/ ForkretDoes(c) \/ AllocProcDoes(c) \/ AllocKstackDoes(c)
      => UNCHANGED panicked
  BY ONLY ZenonT(30) DEF YieldReturnDoes, ForkretDoes, AllocProcDoes, AllocKstackDoes
<1>7. ForkCopyDoes(c) \/ ForkRunDoes(c) \/ ExitLockedDoes(c) \/ WaitScanDoes(c) => UNCHANGED panicked
  BY ONLY ZenonT(30) DEF ForkCopyDoes, ForkRunDoes, ExitLockedDoes, WaitScanDoes
<1>8. KillDoes(c) \/ SleepDoes(c) \/ SleepReturnDoes(c) \/ CommitWakeupDoes(c) => UNCHANGED panicked
  BY ONLY ZenonT(30) DEF KillDoes, SleepDoes, SleepReturnDoes, CommitWakeupDoes
<1> QED
  BY ONLY ZenonT(30), Effect(c), <1>1, <1>2, <1>3, <1>4, <1>5, <1>6, <1>7, <1>8 DEF Effect, MoveEffect

(* What IntOK says of one CPU.                                             *)
IntAt(c) ==
  proc[c] # 0 =>
    /\ pc[proc[c]] \in Switching \cup LogLocked => ~ifl[c]
    /\ pc[proc[c]] \in Preemptible => ifl[c] \/ Exiting(proc[c])
    /\ pc[proc[c]] \in {"wait_swtch", "wait_resume"} => intena[c]
    /\ pc[proc[c]] \in LogLocked \cup {"sleep_swtch", "sleep_resume"} =>
         intena[c] \/ after[proc[c]] = "exit"

(* The thread that a step moves has its interrupt state with it.           *)
LEMMA OwnIntStep ==
  ASSUME IInv, NEW c \in CPU, Effect(c) PROVE IntAt(c)'
<1>0. TypeOK /\ StateOK /\ CpuOK /\ LockOK /\ IntOK /\ AfterOK
  BY ZenonT(30) DEF IInv
<1>a. None \notin CPU /\ 0 \notin Slot /\ c \in CPU
  BY ZenonT(30), SlotFacts, ProcAssumption
<1>i. IntAt(c)
  BY ZenonT(30), <1>0 DEF IntOK, IntAt
<1>s. proc[c] \in Slot /\ pc[proc[c]] \in {"sysret", "wait", "kill", "fork"} => after[proc[c]] = "sysret"
  BY ONLY ZenonT(30), <1>0 DEF AfterOK, Point, Yielding, InSyscall
<1>1. ScansDoes(c) \/ SchedDoes(c) => IntAt(c)'
  BY ONLY ZenonT(30), <1>a DEF ScansDoes, SchedDoes, IntAt
<1>2. ASSUME SchedSwitchDoes(c) PROVE IntAt(c)'
  <2>1. PICK p \in Slot : /\ p = proc'[c] /\ pc' = pc /\ after' = after /\ ptlock = c /\ proc[c] = 0
                          /\ pc[p] # "forkret" => intena'[c] = sintena[p]
                          /\ state[p] = "RUNNABLE"
    BY ONLY ZenonT(30), <1>2 DEF SchedSwitchDoes, locals
  <2>2. ~Executing(p)
    BY ZenonT(30), <1>0, <1>a, <2>1, OthersAway DEF Executing
  <2>3. pc[p] \notin Working \cup Switching
    BY ONLY ZenonT(30), <1>0, <2>1, <2>2 DEF StateOK, Executing
  <2> QED
    BY ONLY ZenonT(30), <1>0, <2>1, <2>2, <2>3 DEF IntAt, IntOK, Working, Preemptible, LogLocked, Switching, Exiting
<1> USE DEF IntAt, Preemptible, LogLocked, Switching, Exiting, Goes, Irqs, cpus, locals
<1>3. AllocProcDoes(c) => IntAt(c)'
  BY ONLY ZenonT(30), <1>a, <1>i DEF AllocProcDoes
<1>4. AllocKstackDoes(c) => IntAt(c)'
  BY ONLY ZenonT(30), <1>a, <1>i DEF AllocKstackDoes, StackBuilt
<1>5. ForkCopyDoes(c) => IntAt(c)'
  BY ONLY ZenonT(30), <1>a, <1>i DEF ForkCopyDoes, CopyFailed
<1>6. ForkRunDoes(c) => IntAt(c)'
  BY ONLY ZenonT(30), <1>a, <1>i DEF ForkRunDoes
<1>7. ExitLockedDoes(c) => IntAt(c)'
  BY ONLY ZenonT(30), <1>a DEF ExitLockedDoes
<1>8. WaitScanDoes(c) => IntAt(c)'
  BY ONLY ZenonT(30), <1>a, <1>i, <1>s DEF WaitScanDoes, WaitReturns, WaitSleeps
<1>9. KillDoes(c) => IntAt(c)'
  BY ONLY ZenonT(30), <1>a, <1>i DEF KillDoes
<1>10. BeginTestDoes(c) => IntAt(c)'
  BY ONLY ZenonT(30), <1>a, <1>i DEF BeginTestDoes
<1>11. SyscallDoes(c) => IntAt(c)'
  BY ONLY ZenonT(30), <1>a, <1>i DEF SyscallDoes
<1>12. UserKilledDoes(c) \/ FaultDoes(c) => IntAt(c)'
  BY ONLY ZenonT(30), <1>a DEF UserKilledDoes, FaultDoes
<1>13. SysReturnDoes(c) => IntAt(c)'
  BY ONLY ZenonT(30), <1>a, <1>i, <1>s DEF SysReturnDoes
<1>14. ExitDoes(c) => IntAt(c)'
  BY ONLY ZenonT(30), <1>a DEF ExitDoes
<1>15. AcquireLogDoes(c) => IntAt(c)'
  BY ONLY ZenonT(30), <1>a, <1>i DEF AcquireLogDoes
<1>16. InTransDoes(c) => IntAt(c)'
  BY ONLY ZenonT(30), <1>a, <1>i DEF InTransDoes
<1>17. CommitDoes(c) => IntAt(c)'
  BY ONLY ZenonT(30), <1>a, <1>i DEF CommitDoes
<1>18. YieldDoes(c) => IntAt(c)'
  BY ONLY ZenonT(30), <1>a DEF YieldDoes
<1>19. YieldReturnDoes(c) => IntAt(c)'
  BY ONLY ZenonT(30), <1>a DEF YieldReturnDoes
<1>20. ForkretDoes(c) => IntAt(c)'
  BY ONLY ZenonT(30), <1>a DEF ForkretDoes
<1>21. SleepDoes(c) => IntAt(c)'
  BY ONLY ZenonT(30), <1>a, <1>i DEF SleepDoes
<1>22. SleepReturnDoes(c) => IntAt(c)'
  BY ONLY ZenonT(30), <1>a, <1>i DEF SleepReturnDoes
<1>23. CommitWakeupDoes(c) => IntAt(c)'
  BY ONLY ZenonT(30), <1>a, <1>i DEF CommitWakeupDoes
<1> HIDE DEF IntAt
<1> QED
  BY ONLY ZenonT(30), Effect(c), <1>1, <1>2, <1>3, <1>4, <1>5, <1>6, <1>7, <1>8, <1>9, <1>10, <1>11,
          <1>12, <1>13, <1>14, <1>15, <1>16, <1>17, <1>18, <1>19, <1>20, <1>21, <1>22, <1>23
          DEF Effect, MoveEffect

(* The interrupt state follows every thread, on its CPU or switched away.  *)
LEMMA IntStep ==
  ASSUME IInv, NEW c \in CPU, Effect(c) PROVE IntOK'
<1>0. TypeOK /\ CpuOK /\ IntOK /\ 0 \notin Slot
  BY ZenonT(30), SlotFacts DEF IInv
<1>1. \A d \in CPU : d # c => IntAt(d)'
  BY SMTT(60), <1>0, OtherCpus DEF IntAt, IntOK, Exiting
<1>2. ASSUME NEW p \in Slot, ~Executing(p)'
      PROVE  /\ pc'[p] = "wait_resume" => sintena'[p]
             /\ pc'[p] = "sleep_resume" => sintena'[p] \/ after'[p] = "exit"
  <2>0. SchedSwitchDoes(c) \/ SchedDoes(c) \/ SameExecuting
    BY ZenonT(30), ExecutingStep
  <2>1. CASE p # proc[c]
    <3>1. ~Executing(p)
      <4>1. SchedSwitchDoes(c) => ~Executing(p)
        BY ONLY ZenonT(30), <1>2 DEF SchedSwitchDoes, Becomes, Executing
      <4>2. SchedDoes(c) => ~Executing(p)
        BY ONLY ZenonT(30), <1>2, <2>1 DEF SchedDoes, Executing
      <4> QED
        BY ONLY ZenonT(30), <1>2, <2>0, <4>1, <4>2 DEF SameExecuting
    <3>2. ThreadsKept(c)
      BY ZenonT(30), Others
    <3> QED
      BY ONLY ZenonT(30), <1>0, <1>2, <2>1, <3>1, <3>2 DEF ThreadsKept, IntOK
  <2>2. CASE p = proc[c] /\ SchedDoes(c)
    BY ONLY ZenonT(30), <1>0, <1>2, <2>2, c \in CPU DEF SchedDoes, IntOK
  <2>3. CASE p = proc[c] /\ SameExecuting
    BY ONLY ZenonT(30), <1>0, <1>2, <2>3, c \in CPU DEF SameExecuting, CpuOK
  <2>4. CASE p = proc[c] /\ SchedSwitchDoes(c)
    BY ONLY ZenonT(30), <1>0, <1>2, <2>4 DEF SchedSwitchDoes
  <2> QED
    BY ONLY ZenonT(30), <2>0, <2>1, <2>2, <2>3, <2>4
<1>3. IntAt(c)'
  BY ZenonT(30), OwnIntStep
<1> QED
  BY ONLY ZenonT(30), <1>1, <1>2, <1>3 DEF IntOK, IntAt

(* Slot n stays as it is, but that the exit() of its parent hands it over. *)
LeftAlone(c, n) ==
  /\ state'[n] = "EMBRYO" /\ pc'[n] = pc[n] /\ kstack'[n] = kstack[n]
  /\ \/ parent'[n] = parent[n]
     \/ proc[c] \in Slot /\ pc[proc[c]] = "exit_lock" /\ parent[n] = proc[c]

(* Nobody but the fork() that builds it touches an EMBRYO.                 *)
LEMMA EmbryoStep ==
  ASSUME IInv, NEW c \in CPU, Effect(c), NEW n \in Slot, state[n] = "EMBRYO",
         ~(proc[c] \in Slot /\ pc[proc[c]] \in Forking /\ n = np[proc[c]]
           /\ pc'[proc[c]] # "yield_swtch")
  PROVE  LeftAlone(c, n)
<1>0. TypeOK /\ StateOK /\ CpuOK
  BY ZenonT(30) DEF IInv
<1>a. 0 \notin Slot /\ n \in Slot /\ state[n] = "EMBRYO" /\ n # proc[c]
  BY ZenonT(30), <1>0, SlotFacts, ThreadFacts
<1>n. ~(proc[c] \in Slot /\ pc[proc[c]] \in Forking /\ n = np[proc[c]] /\ pc'[proc[c]] # "yield_swtch")
  BY ZenonT(30)
<1>f. "fork_kstack" \in Forking /\ "fork_copy" \in Forking /\ "fork_run" \in Forking
  BY ZenonT(30) DEF Forking
<1> USE DEF LeftAlone, Goes, Becomes, ptable
<1>1. MoveEffect(c) => LeftAlone(c, n)
  BY ONLY ZenonT(30), <1>a, c \in CPU, MoveFacts DEF MovesDoes
<1>2. ScansDoes(c) \/ SchedSwitchDoes(c) => LeftAlone(c, n)
  BY ONLY ZenonT(30), <1>a DEF ScansDoes, SchedSwitchDoes
<1>3. SchedDoes(c) \/ YieldDoes(c) => LeftAlone(c, n)
  BY ONLY ZenonT(30), <1>a DEF SchedDoes, YieldDoes
<1>4. YieldReturnDoes(c) \/ ForkretDoes(c) \/ SleepReturnDoes(c) => LeftAlone(c, n)
  BY ONLY ZenonT(30), <1>a DEF YieldReturnDoes, ForkretDoes, SleepReturnDoes
<1>5. AllocKstackDoes(c) => LeftAlone(c, n)
  BY ONLY ZenonT(30), <1>a, <1>f, <1>n DEF AllocKstackDoes, NewSlot, StackBuilt
<1>6. ForkCopyDoes(c) => LeftAlone(c, n)
  BY ONLY ZenonT(30), <1>a, <1>f, <1>n DEF ForkCopyDoes, NewSlot, CopyFailed
<1>7. ForkRunDoes(c) => LeftAlone(c, n)
  BY ONLY ZenonT(30), <1>a, <1>f, <1>n DEF ForkRunDoes, NewSlot
<1>8. AllocProcDoes(c) => LeftAlone(c, n)
  BY ONLY ZenonT(30), <1>a DEF AllocProcDoes, Allocated
<1>9. ExitLockedDoes(c) => LeftAlone(c, n)
  BY ONLY ZenonT(30), <1>a DEF ExitLockedDoes, ExitTable
<1>10. WaitScanDoes(c) => LeftAlone(c, n)
  BY ONLY ZenonT(30), <1>a DEF WaitScanDoes, WaitReturns, WaitSleeps, Reaps
<1>11. KillDoes(c) \/ CommitWakeupDoes(c) => LeftAlone(c, n)
  BY ONLY ZenonT(30), <1>a DEF KillDoes, CommitWakeupDoes
<1>12. SleepDoes(c) => LeftAlone(c, n)
  BY ONLY ZenonT(30), <1>a DEF SleepDoes
<1> HIDE DEF LeftAlone
<1> QED
  BY ONLY ZenonT(30), Effect(c), <1>1, <1>2, <1>3, <1>4, <1>5, <1>6, <1>7, <1>8, <1>9, <1>10, <1>11,
          <1>12 DEF Effect

(* What ForkOK says of one thread.                                         *)
ForkAt(p) ==
  /\ np[p] \in Slot
  /\ state[np[p]] = "EMBRYO"
  /\ Point(p) = "fork_kstack" => pc[np[p]] = "dead" /\ parent[np[p]] = 0
  /\ Point(p) = "fork_copy" => pc[np[p]] = "forkret" /\ kstack[np[p]] /\ parent[np[p]] = 0
  /\ Point(p) = "fork_run" => pc[np[p]] = "forkret" /\ kstack[np[p]] /\ parent[np[p]] = p

(* A fork() that goes on keeps its slot, or has just taken a free one.     *)
OwnSlot(p) == /\ ForkAt(p)'
              /\ \/ Point(p) \in Forking /\ np'[p] = np[p]
                 \/ state[np'[p]] = "UNUSED"

(* A thread that goes on with fork(), or begins it, has a slot of its own. *)
LEMMA OwnForkStep ==
  ASSUME IInv, NEW c \in CPU, Effect(c), NEW p \in Slot, p = proc[c], Point(p)' \in Forking
  PROVE  OwnSlot(p)
<1>0. TypeOK /\ StateOK /\ CpuOK /\ ForkOK /\ ParentOK
  BY ZenonT(30) DEF IInv
<1>a. 0 \notin Slot /\ p \in Slot /\ p = proc[c] /\ Point(p)' \in Forking
  BY ZenonT(30), SlotFacts
<1>1. ASSUME AllocProcDoes(c) PROVE OwnSlot(p)
  <2>1. /\ pc'[p] = "fork_kstack" /\ np'[p] \in Slot /\ state[np'[p]] = "UNUSED"
        /\ state'[np'[p]] = "EMBRYO" /\ parent' = parent
        /\ \A q \in Slot : q # p => pc'[q] = pc[q]
        /\ pc[p] = "fork"
    BY ONLY ZenonT(30), <1>a, <1>1 DEF AllocProcDoes, Allocated, Goes, Becomes, Point, Forking, Yielding
  <2>2. pc[np'[p]] = "dead" /\ parent[np'[p]] = 0
    BY ONLY ZenonT(30), <1>0, <2>1, FitsFacts DEF ParentOK
  <2> QED
    BY ONLY ZenonT(30), <2>1, <2>2 DEF OwnSlot, ForkAt, Point, Yielding
<1>2. AllocKstackDoes(c) => OwnSlot(p)
  BY ONLY ZenonT(30), <1>a DEF AllocKstackDoes, NewSlot, StackBuilt, Goes, Becomes, OwnSlot, ForkAt, Point, Forking, Yielding, locals
<1>3. ForkCopyDoes(c) => OwnSlot(p)
  BY ONLY ZenonT(30), <1>a DEF ForkCopyDoes, NewSlot, CopyFailed, Goes, Becomes, OwnSlot, ForkAt, Point, Forking, Yielding, locals
<1>4. ASSUME YieldDoes(c) \/ YieldReturnDoes(c) \/ SchedDoes(c) PROVE OwnSlot(p)
  <2>0. \A l \in Preemptible : l \notin Yielding
    BY ZenonT(30) DEF Preemptible, Yielding
  <2>1. /\ Point(p)' = Point(p) /\ np' = np /\ pc[p] # "exit_lock"
        /\ ~(pc[p] \in Forking /\ pc'[p] # "yield_swtch")
    <3>1. CASE SchedDoes(c) BY ONLY ZenonT(30), <1>a, <3>1 DEF SchedDoes, Point, Yielding, Forking
    <3>2. CASE YieldDoes(c) BY ONLY ZenonT(30), <1>a, <2>0, <3>2 DEF YieldDoes, Goes, Point, Yielding, Forking
    <3>3. CASE YieldReturnDoes(c)
      BY ONLY ZenonT(30), <1>a, <2>0, <3>3 DEF YieldReturnDoes, Goes, Point, Yielding, Forking
    <3> QED BY ONLY ZenonT(30), <1>4, <3>1, <3>2, <3>3
  <2>2. Point(p) \in Forking /\ ForkAt(p)
    BY ONLY ZenonT(30), <1>0, <1>a, <2>1 DEF ForkOK, ForkAt
  <2>3. LeftAlone(c, np[p])
    BY ZenonT(30), <1>a, <2>1, <2>2, EmbryoStep DEF ForkAt
  <2> QED
    BY ONLY ZenonT(30), <1>a, <2>1, <2>2, <2>3 DEF OwnSlot, ForkAt, LeftAlone
<1>6. \/ AllocProcDoes(c) \/ AllocKstackDoes(c) \/ ForkCopyDoes(c)
      \/ YieldDoes(c) \/ YieldReturnDoes(c) \/ SchedDoes(c)
  <2> USE DEF Goes, Point, Forking, Yielding
  <2>1. ~MoveEffect(c)
    BY ONLY ZenonT(30), <1>a, c \in CPU, MoveFacts DEF MovesDoes, Working, Preemptible, LogLocked
  <2>2. ~(ScansDoes(c) \/ SchedSwitchDoes(c))
    BY ONLY ZenonT(30), <1>a DEF ScansDoes, SchedSwitchDoes
  <2>3. ~(ExitLockedDoes(c) \/ KillDoes(c) \/ ForkRunDoes(c))
    BY ONLY ZenonT(30), <1>a DEF ExitLockedDoes, KillDoes, ForkRunDoes
  <2>4. ~WaitScanDoes(c)
    BY ONLY ZenonT(30), <1>a DEF WaitScanDoes, WaitReturns, WaitSleeps
  <2>5. ~(ForkretDoes(c) \/ SleepDoes(c) \/ SleepReturnDoes(c) \/ CommitWakeupDoes(c))
    BY ONLY ZenonT(30), <1>a DEF ForkretDoes, SleepDoes, SleepReturnDoes, CommitWakeupDoes
  <2> QED
    BY ONLY ZenonT(30), Effect(c), <2>1, <2>2, <2>3, <2>4, <2>5 DEF Effect
<1> QED
  BY ONLY ZenonT(30), <1>1, <1>2, <1>3, <1>4, <1>6

(* fork()'s slots stay embryos, each of one thread.                        *)
LEMMA ForkStep ==
  ASSUME IInv, NEW c \in CPU, Effect(c) PROVE ForkOK'
<1>0. TypeOK /\ StateOK /\ CpuOK /\ ForkOK /\ 0 \notin Slot
  BY ZenonT(30), SlotFacts DEF IInv
<1>1. ASSUME NEW q \in Slot, q # proc[c], Point(q)' \in Forking
      PROVE  ForkAt(q)' /\ Point(q) \in Forking /\ np'[q] = np[q]
  <2>0. ThreadsKept(c)
    BY ZenonT(30), Others
  <2>1. Point(q)' = Point(q) /\ np'[q] = np[q]
    BY ONLY ZenonT(30), <1>1, <2>0 DEF ThreadsKept, Point, Forking, Yielding
  <2>2. Point(q) \in Forking /\ ForkAt(q)
    BY ONLY ZenonT(30), <1>0, <1>1, <2>1 DEF ForkOK, ForkAt
  <2>3. pc[proc[c]] \in Forking /\ proc[c] \in Slot => np[q] # np[proc[c]]
    BY ONLY ZenonT(30), <1>0, <1>1, <2>2 DEF ForkOK, Point, Forking, Yielding
  <2>4. proc[c] \in Slot => parent[np[q]] # proc[c]
    BY ONLY ZenonT(30), <1>0, <1>1, <2>2 DEF ForkAt, Forking
  <2>5. LeftAlone(c, np[q])
    BY ZenonT(30), <2>2, <2>3, EmbryoStep DEF ForkAt
  <2> QED
    BY ONLY ZenonT(30), <2>1, <2>2, <2>4, <2>5 DEF ForkAt, LeftAlone
<1>2. \A p \in Slot : p = proc[c] /\ Point(p)' \in Forking => OwnSlot(p)
  BY ZenonT(30), OwnForkStep
<1>3. ASSUME NEW p \in Slot, NEW q \in Slot, Point(p)' \in Forking, Point(q)' \in Forking,
             np'[p] = np'[q]
      PROVE  p = q
  <2>1. CASE p # proc[c] /\ q # proc[c]
    BY ONLY ZenonT(30), <1>0, <1>1, <1>3, <2>1 DEF ForkOK
  <2>2. \A r, s \in Slot : /\ r = proc[c] /\ s # proc[c]
                           /\ Point(r)' \in Forking /\ Point(s)' \in Forking
                           => np'[r] # np'[s]
    BY ONLY SMTT(60), <1>0, <1>1, <1>2 DEF ForkOK, OwnSlot
  <2> QED
    BY ONLY ZenonT(30), <1>3, <2>1, <2>2
<1> QED
  BY ONLY ZenonT(30), <1>1, <1>2, <1>3 DEF ForkOK, ForkAt, OwnSlot

(* The steps that change the family tree.                                  *)
FamilySteps(c) == \/ AllocProcDoes(c) \/ AllocKstackDoes(c) \/ ForkCopyDoes(c) \/ ForkRunDoes(c)
                  \/ ExitLockedDoes(c) \/ WaitScanDoes(c)

(* No process is made or unmade, and nobody goes to sleep in wait().       *)
FamilyKept ==
  /\ UNCHANGED <<parent, pid, nextpid>>
  /\ \A q \in Slot :
       /\ state'[q] = state[q] \/ (state[q] \in Alive /\ state'[q] \in Alive)
       /\ state'[q] = "SLEEPING" /\ chan'[q] = q => state[q] = "SLEEPING" /\ chan[q] = q

(* The other steps neither make nor unmake a process.                      *)
LEMMA FamilyQuiet ==
  ASSUME IInv, NEW c \in CPU, Effect(c) PROVE FamilySteps(c) \/ FamilyKept
<1>0. TypeOK /\ StateOK /\ CpuOK
  BY ZenonT(30) DEF IInv
<1>a. 0 \notin Slot /\ LOG \notin Slot
  BY ZenonT(30), SlotFacts
<1>r. proc[c] # 0 /\ pc[proc[c]] = "sleep" => state[proc[c]] = "RUNNING"
  BY ZenonT(30), <1>0, ThreadFacts DEF Switching
<1> USE DEF FamilyKept, Goes, Becomes, ptable, Alive
<1>1. MoveEffect(c) => FamilyKept
  BY ONLY ZenonT(30), c \in CPU, MoveFacts DEF MovesDoes
<1>2. ScansDoes(c) \/ SchedDoes(c) => FamilyKept
  BY ONLY ZenonT(30), <1>a DEF ScansDoes, SchedDoes
<1>3. KillDoes(c) \/ CommitWakeupDoes(c) => FamilyKept
  BY ONLY ZenonT(30), <1>a DEF KillDoes, CommitWakeupDoes
<1>4. SchedSwitchDoes(c) => FamilyKept
  BY ONLY ZenonT(30), <1>a DEF SchedSwitchDoes
<1>5. YieldReturnDoes(c) \/ ForkretDoes(c) => FamilyKept
  BY ONLY ZenonT(30), <1>a DEF YieldReturnDoes, ForkretDoes
<1>6. YieldDoes(c) => FamilyKept
  BY ONLY ZenonT(30), <1>a DEF YieldDoes
<1>7. SleepDoes(c) => FamilyKept
  BY ONLY ZenonT(30), <1>a, <1>r DEF SleepDoes
<1>8. SleepReturnDoes(c) => FamilyKept
  BY ONLY ZenonT(30), <1>a DEF SleepReturnDoes
<1> HIDE DEF FamilyKept
<1> QED
  BY ONLY ZenonT(30), Effect(c), <1>1, <1>2, <1>3, <1>4, <1>5, <1>6, <1>7, <1>8 DEF Effect, FamilySteps

(* init stays what userinit made it.                                       *)
LEMMA InitStep ==
  ASSUME IInv, NEW c \in CPU, Effect(c) PROVE InitOK'
<1>0. InitOK /\ initproc \in Slot /\ 0 \notin Slot
  BY ZenonT(30), SlotFacts DEF IInv
<1>a. state[initproc] \in Alive /\ parent[initproc] = 0 /\ pc[initproc] # "exit_lock"
  BY ONLY ZenonT(30), <1>0 DEF InitOK, Point, Yielding
<1> DEFINE Stays == state'[initproc] \in Alive /\ parent'[initproc] = 0
<1> USE DEF Alive
<1>1. FamilyKept => Stays
  BY ONLY ZenonT(30), <1>0, <1>a DEF FamilyKept
<1>2. AllocKstackDoes(c) => Stays
  BY ONLY ZenonT(30), <1>0, <1>a DEF AllocKstackDoes, NewSlot, StackBuilt, Becomes
<1>3. ForkCopyDoes(c) => Stays
  BY ONLY ZenonT(30), <1>0, <1>a DEF ForkCopyDoes, NewSlot, CopyFailed, Becomes
<1>4. ForkRunDoes(c) => Stays
  BY ONLY ZenonT(30), <1>0, <1>a DEF ForkRunDoes, NewSlot, Becomes
<1>5. AllocProcDoes(c) => Stays
  BY ONLY ZenonT(30), <1>0, <1>a DEF AllocProcDoes, Allocated, Becomes
<1>6. WaitScanDoes(c) => Stays
  BY ONLY ZenonT(30), <1>0, <1>a DEF WaitScanDoes, WaitReturns, WaitSleeps, Reaps, Becomes
<1>7. ExitLockedDoes(c) => Stays
  BY ONLY ZenonT(30), <1>0, <1>a DEF ExitLockedDoes, ExitTable, Goes
<1>8. Stays
  <2>1. FamilySteps(c) \/ FamilyKept
    BY ZenonT(30), FamilyQuiet
  <2> QED
    BY ONLY ZenonT(30), <2>1, <1>1, <1>2, <1>3, <1>4, <1>5, <1>6, <1>7 DEF FamilySteps
<1>9. CASE initproc # proc[c]
  <2>1. ThreadsKept(c)
    BY ZenonT(30), Others
  <2> QED
    BY ONLY ZenonT(30), <1>0, <1>a, <1>8, <1>9, <2>1 DEF ThreadsKept, InitOK, Point, Yielding
<1>10. CASE initproc = proc[c]
  <2>1. GoesOn(initproc)
    BY ZenonT(30), <1>0, <1>10, PointStep
  <2> QED
    BY ONLY ZenonT(30), <1>0, <1>8, <2>1 DEF InitOK, GoesOn, Leads, Onward
<1> QED
  BY ONLY ZenonT(30), <1>9, <1>10

(* A slot that fork() or wait() gives back has no parent, and exit() makes *)
(* nobody their own parent.                                                *)
LEMMA ParentStep ==
  ASSUME IInv, NEW c \in CPU, Effect(c) PROVE ParentOK'
<1>0. InitOK /\ ParentOK /\ 0 \notin Slot
  BY ZenonT(30), SlotFacts DEF IInv
<1> USE DEF ParentOK, Becomes
<1>1. FamilyKept => ParentOK'
  BY ONLY ZenonT(30), <1>0 DEF FamilyKept, Alive
<1>2. AllocProcDoes(c) => ParentOK'
  BY ONLY ZenonT(30), <1>0 DEF AllocProcDoes, Allocated
<1>3. AllocKstackDoes(c) => ParentOK'
  BY ONLY SMTT(60), <1>0 DEF AllocKstackDoes, NewSlot, StackBuilt
<1>4. ForkCopyDoes(c) => ParentOK'
  BY ONLY <1>0 DEF ForkCopyDoes, NewSlot, CopyFailed, Goes
<1>5. ForkRunDoes(c) => ParentOK'
  BY ONLY ZenonT(30), <1>0 DEF ForkRunDoes, NewSlot
<1>6. ExitLockedDoes(c) => ParentOK'
  BY ONLY <1>0 DEF ExitLockedDoes, ExitTable, InitOK, Goes
<1>7. ASSUME WaitScanDoes(c) PROVE ParentOK'
  <2>1. CASE UNCHANGED <<state, parent, pid, kstack>>
    BY ONLY ZenonT(30), <1>0, <2>1
  <2>2. ASSUME NEW z \in Slot, Becomes(z, "UNUSED"), parent'[z] = 0,
               \A q \in Slot : q # z => parent'[q] = parent[q]
        PROVE  ParentOK'
    BY ONLY ZenonT(30), <1>0, <2>2
  <2>3. CASE WaitSleeps(c)
    BY ONLY ZenonT(30), <1>0, <2>3 DEF WaitSleeps
  <2> HIDE DEF ParentOK, Becomes
  <2> QED
    BY ONLY ZenonT(30), <1>7, <2>1, <2>2, <2>3 DEF WaitScanDoes, WaitReturns, Reaps
<1> HIDE DEF ParentOK
<1>8. FamilySteps(c) \/ FamilyKept
  BY ZenonT(30), FamilyQuiet
<1> QED
  BY ONLY ZenonT(30), <1>1, <1>2, <1>3, <1>4, <1>5, <1>6, <1>7, <1>8 DEF FamilySteps

(* The family tree stays sound.                                            *)
LEMMA FamilyStep ==
  ASSUME IInv, NEW c \in CPU, Effect(c) PROVE FamilySound'
<1>0. InitOK /\ ParentOK /\ NoLostChild /\ NoOrphans /\ UniquePids
  BY ZenonT(30) DEF IInv, FamilySound
<1>a. /\ 0 \notin Slot /\ initproc \in Slot
      /\ nextpid \in Nat \ {0} /\ pid \in [Slot -> Nat] /\ parent \in [Slot -> Slot \cup {0}]
  BY ZenonT(30), SlotFacts DEF IInv, TypeOK
<1>r. proc[c] # 0 /\ pc[proc[c]] \notin Switching => state[proc[c]] = "RUNNING"
  BY ZenonT(30), ThreadFacts DEF IInv
<1>1. FamilyKept => FamilySound'
  BY ONLY SMTT(60), <1>0, <1>a DEF FamilyKept, FamilySound, NoLostChild, NoOrphans, UniquePids, Alive
<1>2. ASSUME AllocProcDoes(c) PROVE FamilySound'
  <2>1. NoLostChild' /\ NoOrphans'
    BY ONLY SMTT(60), <1>0, <1>a, <1>2 DEF AllocProcDoes, Allocated, Becomes, NoLostChild, NoOrphans
  <2>2. UniquePids'
    <3>1. CASE UNCHANGED <<state, pid, nextpid>>
      BY ONLY ZenonT(30), <1>0, <3>1 DEF UniquePids
    <3>2. CASE Allocated(c)
      <4>1. PICK n \in Slot :
              /\ nextpid' = nextpid + 1 /\ pid'[n] = nextpid
              /\ \A q \in Slot : q # n => state'[q] = state[q] /\ pid'[q] = pid[q]
        BY ONLY ZenonT(30), <3>2 DEF Allocated, Becomes
      <4>2. nextpid \in 1..nextpid' - 1
        BY ONLY SMTT(60), <1>a, <4>1
      <4>3. \A q \in Slot : q # n /\ state'[q] # "UNUSED" =>
              pid'[q] \in 1..nextpid' - 1 /\ pid'[q] # nextpid
        BY ONLY SMTT(60), <1>0, <1>a, <4>1 DEF UniquePids
      <4> QED
        BY ONLY SMTT(60), <1>0, <4>1, <4>2, <4>3 DEF UniquePids
    <3> QED
      BY ONLY ZenonT(30), <1>2, <3>1, <3>2 DEF AllocProcDoes
  <2> QED BY ONLY ZenonT(30), <2>1, <2>2 DEF FamilySound
<1> USE DEF Becomes, FamilySound, NoLostChild, NoOrphans, UniquePids
<1>3. AllocKstackDoes(c) => FamilySound'
  BY ONLY SMTT(60), <1>0, <1>a DEF AllocKstackDoes, NewSlot, StackBuilt
<1>4. ForkCopyDoes(c) => FamilySound'
  BY ONLY SMTT(60), <1>0, <1>a DEF ForkCopyDoes, NewSlot, CopyFailed
<1>5. ForkRunDoes(c) => FamilySound'
  BY ONLY SMTT(60), <1>0, <1>a DEF ForkRunDoes, NewSlot
<1> HIDE DEF FamilySound, NoLostChild, NoOrphans, UniquePids
<1>6. ASSUME ExitLockedDoes(c) PROVE FamilySound'
  <2>1. PICK p \in Slot :
          /\ p = proc[c] /\ p # initproc /\ state[p] = "RUNNING" /\ ExitTable(p)
          /\ UNCHANGED <<pid, nextpid, chan>>
    BY ONLY SMTT(60), <1>0, <1>a, <1>r, <1>6 DEF ExitLockedDoes, Goes, InitOK, Point, Yielding, Switching
  <2>2. NoLostChild'
    BY ONLY SMTT(60), <1>0, <1>a, <2>1 DEF ExitTable, NoLostChild, ParentOK
  <2>3. NoOrphans'
    BY ONLY SMTT(60), <1>0, <1>a, <2>1 DEF ExitTable, NoOrphans, ParentOK, InitOK, Alive
  <2>4. UniquePids'
    BY ONLY SMTT(60), <1>0, <1>a, <2>1 DEF ExitTable, UniquePids
  <2> QED BY ONLY ZenonT(30), <2>2, <2>3, <2>4 DEF FamilySound
<1>7. ASSUME WaitScanDoes(c) PROVE FamilySound'
  <2>1. /\ state[proc[c]] = "RUNNING" /\ proc[c] \in Slot /\ nextpid' = nextpid
        /\ \A q \in Slot : q # proc[c] => chan'[q] = chan[q]
    BY ONLY ZenonT(30), <1>a, <1>r, <1>7 DEF WaitScanDoes, Goes, Switching
  <2>2. ASSUME UNCHANGED <<state, parent, pid, kstack>> PROVE FamilySound'
    BY ONLY SMTT(60), <1>0, <1>a, <2>1, <2>2 DEF FamilySound, NoLostChild, NoOrphans, UniquePids
  <2>3. ASSUME NEW z \in Slot, parent[z] = proc[c], state[z] = "ZOMBIE", Becomes(z, "UNUSED"),
               parent'[z] = 0,
               \A q \in Slot : q # z => parent'[q] = parent[q] /\ pid'[q] = pid[q]
        PROVE  FamilySound'
    <3>1. NoLostChild'
      BY ONLY SMTT(60), <1>0, <1>a, <2>1, <2>3 DEF NoLostChild
    <3>2. NoOrphans'
      BY ONLY SMTT(60), <1>0, <1>a, <2>1, <2>3 DEF NoOrphans
    <3>3. UniquePids'
      BY ONLY SMTT(60), <1>0, <1>a, <2>1, <2>3 DEF UniquePids
    <3> QED BY ONLY SMTT(60), <3>1, <3>2, <3>3 DEF FamilySound
  <2>4. ASSUME WaitSleeps(c) PROVE FamilySound'
    <3>1. NoLostChild'
      BY ONLY SMTT(60), <1>0, <1>a, <2>1, <2>4 DEF WaitSleeps, Awaits, NoLostChild
    <3>2. NoOrphans'
      BY ONLY SMTT(60), <1>0, <1>a, <2>1, <2>4 DEF WaitSleeps, NoOrphans
    <3>3. UniquePids'
      BY ONLY SMTT(60), <1>0, <1>a, <2>1, <2>4 DEF WaitSleeps, UniquePids
    <3> QED BY ONLY ZenonT(30), <3>1, <3>2, <3>3 DEF FamilySound
  <2> HIDE DEF Becomes
  <2> QED
    BY ONLY ZenonT(30), <1>7, <2>2, <2>3, <2>4 DEF WaitScanDoes, WaitReturns, Reaps
<1>8. FamilySteps(c) \/ FamilyKept
  BY ZenonT(30), FamilyQuiet
<1> QED
  BY ONLY ZenonT(30), <1>1, <1>2, <1>3, <1>4, <1>5, <1>6, <1>7, <1>8 DEF FamilySteps

-----------------------------------------------------------------------------
(* The state that main() and userinit() leave satisfies the invariant.     *)
LEMMA InitIInv == Init => IInv
<1> SUFFICES ASSUME Init PROVE IInv
  BY ZenonT(30)
<1>0. initproc \in Slot /\ 0 \notin Slot /\ LOG \notin Slot /\ LOG \in Nat
  BY ZenonT(30), SlotFacts
<1>1. \A p \in Slot : /\ p = initproc => state[p] = "RUNNABLE" /\ pc[p] = "forkret" /\ kstack[p]
                      /\ p # initproc => state[p] = "UNUSED" /\ pc[p] = "dead"
                      /\ parent[p] = 0 /\ after[p] = "sysret" /\ chan[p] = 0
                      /\ pid[p] = IF p = initproc THEN 1 ELSE 0
  BY ZenonT(30) DEF Init
<1>2. /\ \A c \in CPU : proc[c] = 0
      /\ loglock = 0 /\ ~busy /\ ~panicked /\ nextpid = 2
  BY ZenonT(30) DEF Init
<1>3. TypeOK
  <2>1. 1 \in Nat /\ 0 \in Nat /\ 2 \in Nat \ {0}
    BY SMTT(60)
  <2> QED
    BY ZenonT(30), <1>0, <2>1, SlotFacts, LabelFacts DEF Init, TypeOK
<1>4. StateOK
  BY ONLY SMTT(60), <1>1 DEF StateOK, Working, Preemptible, LogLocked, Alive
<1>5. CpuOK /\ LockOK /\ IntOK
  BY ONLY ZenonT(30), <1>0, <1>1, <1>2 DEF CpuOK, LockOK, IntOK, Executing, Switching
<1>6. LogOK /\ OneTransaction /\ NoLostWakeup
  BY ONLY ZenonT(30), <1>0, <1>1, <1>2 DEF LogOK, LogLocked, OneTransaction, InTransaction, NoLostWakeup
<1>7. ForkOK /\ AfterOK /\ InitOK
  BY ONLY ZenonT(30), <1>0, <1>1 DEF ForkOK, AfterOK, InitOK, Point, Yielding, Forking, Alive
<1>8. ParentOK /\ NoLostChild /\ NoOrphans /\ PanicOnlyInitExit
  BY ONLY SMTT(60), <1>0, <1>1, <1>2 DEF ParentOK, NoLostChild, NoOrphans, PanicOnlyInitExit
<1>9. UniquePids
  BY ONLY SMTT(60), <1>0, <1>1, <1>2 DEF UniquePids
<1> QED
  BY ONLY ZenonT(30), <1>3, <1>4, <1>5, <1>6, <1>7, <1>8, <1>9 DEF IInv, FamilySound

(* A state that does not change keeps the invariant.                       *)
LEMMA Stutter == IInv /\ UNCHANGED vars => IInv'
<1> SUFFICES ASSUME IInv, UNCHANGED vars PROVE IInv'
  BY ZenonT(30)
<1> USE DEF vars, ptable, cpus, locals, log, IInv
<1>1. TypeOK' BY ZenonT(30) DEF TypeOK
<1>2. StateOK' BY ZenonT(30) DEF StateOK
<1>3. CpuOK' /\ LockOK' BY ZenonT(30) DEF CpuOK, LockOK, Executing
<1>4. LogOK' /\ OneTransaction' /\ NoLostWakeup' /\ PanicOnlyInitExit'
  BY ZenonT(30) DEF LogOK, OneTransaction, InTransaction, NoLostWakeup, PanicOnlyInitExit
<1>5. ForkOK' /\ AfterOK' /\ InitOK' BY DEF ForkOK, AfterOK, InitOK, Point
<1>6. IntOK' BY ZenonT(30) DEF IntOK, Executing, Exiting
<1>7. ParentOK' /\ FamilySound'
  BY DEF ParentOK, FamilySound, NoLostChild, NoOrphans, UniquePids
<1> QED
  BY ONLY ZenonT(30), <1>1, <1>2, <1>3, <1>4, <1>5, <1>6, <1>7 DEF IInv

(* The invariant is inductive: on every CPU, every step of the scheduler,  *)
(* of a system call or of a timer interrupt preserves it.                  *)
THEOREM IInvHolds == Spec => []IInv
<1>1. ASSUME IInv, Next PROVE IInv'
  <2>1. CASE Panic
    BY ZenonT(30), <1>1, <2>1, Stutter DEF Panic
  <2>2. ASSUME NEW c \in CPU, Effect(c) PROVE IInv'
    BY ONLY ZenonT(30), <1>1, <2>2, TypeStep, StateStep, CpuStep, LockStep, LogLockStep, ForkStep, AfterStep,
            InitStep, IntStep, ParentStep, TransactionStep, WakeupStep, FamilyStep, PanicStep
       DEF IInv
  <2> QED
    BY ZenonT(30), <1>1, <2>1, <2>2, Effects
<1> QED
  BY <1>1, InitIInv, Stutter, PTL DEF Spec

(* proc.c, sched() and scheduler(): at every moment a kernel stack is      *)
(* executed by at most one CPU and is allocated while it is; RUNNING is    *)
(* what the CPUs execute; whatever the scheduler may pick was left by a    *)
(* swtch or built by allocproc.                                            *)
THEOREM StacksSoundHolds == Spec => []StacksSound
<1>1. IInv => StacksSound
  <2> SUFFICES ASSUME IInv PROVE StacksSound
    BY ZenonT(30)
  <2>0. TypeOK /\ StateOK /\ CpuOK
    BY ZenonT(30) DEF IInv
  <2>1. \A p \in Slot : Executing(p) => kstack[p]
    BY ONLY ZenonT(30), <2>0 DEF StateOK, Executing, Switching, Alive
  <2>2. OneCpuPerStack
    BY ONLY SMTT(60), <2>0, <2>1 DEF OneCpuPerStack, CpuOK, TypeOK
  <2>3. RunningIsOnCpu
    BY ONLY ZenonT(30), <2>0, SlotFacts DEF RunningIsOnCpu, CpuOK, OnCpu, Executing
  <2>4. \A p \in Slot : state[p] \in {"RUNNABLE", "SLEEPING"} /\ ~Executing(p) => pc[p] \in Resuming
    BY ONLY ZenonT(30), <2>0 DEF StateOK, TypeOK, Executing, Labels, Working, LogLocked
  <2>5. RunnableIsResumable
    BY ONLY ZenonT(30), <2>0, <2>4 DEF RunnableIsResumable, StateOK, CpuOK, OnCpu, Alive
  <2> QED
    BY ONLY ZenonT(30), <2>2, <2>3, <2>5 DEF StacksSound
<1> QED
  BY <1>1, IInvHolds, PTL

(* log.c, begin_trans() and commit_trans(): log.busy is set exactly while  *)
(* one process is in a transaction, wherever the timer preempts it.        *)
THEOREM OneTransactionHolds == Spec => []OneTransaction
<1>1. IInv => OneTransaction
  BY ZenonT(30) DEF IInv
<1> QED
  BY <1>1, IInvHolds, PTL

(* proc.c, sleep() and wakeup(): a process asleep on the log has a wakeup  *)
(* to come, because sleep() has ptable.lock before it gives log.lock up.   *)
THEOREM NoLostWakeupHolds == Spec => []NoLostWakeup
<1>1. IInv => NoLostWakeup
  BY ZenonT(30) DEF IInv
<1> QED
  BY <1>1, IInvHolds, PTL

(* proc.c, sched(): the interrupt state follows the thread across swtch    *)
(* and across CPUs, none of sched()'s panics is reachable, and exit()      *)
(* panics for init alone.                                                  *)
THEOREM SwitchesSoundHolds == Spec => []SwitchesSound
<1>1. IInv => SwitchesSound
  BY ZenonT(30) DEF IInv, SwitchesSound, InterruptsFollowThread, IntOK
<1> QED
  BY <1>1, IInvHolds, PTL

(* proc.c, fork(), exit() and wait(): no zombie is missed by a parent that *)
(* sleeps, every process but init has a live parent, and pids are unique.  *)
THEOREM FamilySoundHolds == Spec => []FamilySound
<1>1. IInv => FamilySound
  BY ZenonT(30) DEF IInv
<1> QED
  BY <1>1, IInvHolds, PTL
=============================================================================
