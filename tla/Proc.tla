-------------------------------- MODULE Proc --------------------------------
(***************************************************************************)
(* The process table and the scheduler (proc.c), as driven by trap() and   *)
(* by the sleeping client begin_trans/commit_trans (log.c).                *)
(*                                                                         *)
(* A CPU executes either its scheduler (proc[c] = 0) or the kernel stack   *)
(* of the process proc[c].  pc[p] is where slot p's kernel thread is; it   *)
(* only moves while some CPU executes it.  ptable.lock and log.lock are    *)
(* explicit: ptable.lock is handed over by swtch, from a process to the    *)
(* scheduler and back.  A stretch of code that takes ptable.lock and       *)
(* releases it without a swtch is one step, taken when the lock is free;   *)
(* the stores that fork makes without the lock are steps of their own.     *)
(* The timer may preempt a thread wherever interrupts are enabled.         *)
(***************************************************************************)
EXTENDS Naturals

CONSTANTS
  NPROC,      \* slots of ptable
  CPU,        \* processors
  None,       \* the null struct cpu pointer
  MaxPid,     \* bound: the last pid allocproc hands out
  MaxTrans,   \* bound: calls of begin_trans
  KillArgs,   \* the pids passed to kill()
  Calls,      \* the system calls user programs make
  InitCalls   \* the system calls of the init program

ASSUME ProcAssumption ==
  /\ NPROC \in Nat \ {0} /\ MaxPid \in Nat \ {0} /\ MaxTrans \in Nat
  /\ None \notin CPU
  /\ KillArgs \subseteq Nat
  /\ Calls \subseteq {"fork", "exit", "wait", "kill", "begin"}
  /\ InitCalls \subseteq Calls

Slot == 1..NPROC
initproc == 1          \* userinit takes the first slot
LOG == NPROC + 1       \* the channel &log; wait() sleeps on a struct proc

VARIABLES
  state, pid, parent, killed, chan, kstack,  \* struct proc
  nextpid,   \* the next pid
  ptlock,    \* the CPU that holds ptable.lock
  proc,      \* per CPU: the running process, 0 in the scheduler
  scan,      \* per CPU: the scheduler's loop variable p
  ifl,       \* per CPU: are interrupts enabled?
  intena,    \* per CPU: cpu->intena
  pc,        \* per process: where its kernel thread is
  resume,    \* per process: the point a timer interrupt suspended
  after,     \* per process: what follows commit_trans
  np,        \* per process: fork's local np
  sintena,   \* per process: sched's local intena
  loglock,   \* the process that holds log.lock
  busy,      \* log.busy
  ntrans,    \* calls of begin_trans so far (bounded by MaxTrans)
  panicked   \* has panic() been called?

ptable == <<state, pid, parent, killed, chan, kstack, nextpid>>
cpus == <<ptlock, proc, scan, ifl, intena>>
locals == <<resume, after, np, sintena>>
log == <<loglock, busy, ntrans>>
vars == <<ptable, cpus, pc, locals, log, panicked>>

States == {"UNUSED", "EMBRYO", "SLEEPING", "RUNNABLE", "RUNNING", "ZOMBIE"}

(* Points at which a thread holds no spin lock: the timer preempts it      *)
(* there if its CPU has interrupts on.                                     *)
Preemptible == {"user", "fork", "fork_kstack", "fork_copy", "fork_run", "wait",
                "kill", "begin", "relock", "in_trans", "commit", "sysret",
                "exit", "exit_lock"}

(* Points at which sched() is about to swtch to the scheduler.             *)
Switching == {"yield_swtch", "wait_swtch", "sleep_swtch", "exit_swtch"}

(* Points at which swtch returns to the thread, or first enters it.        *)
Resuming == {"yield_resume", "wait_resume", "sleep_resume", "forkret"}

Labels == Preemptible \cup Switching \cup Resuming \cup
          {"begin_test", "sleep", "commit_wake", "dead"}

(* The least element of a set of slots: a scan of ptable stops there.      *)
First(s, S) == s \in S /\ \A t \in S : s <= t

Running(c, label) == ~panicked /\ proc[c] # 0 /\ pc[proc[c]] = label

Goto(c, label) == pc' = [pc EXCEPT ![proc[c]] = label]

-----------------------------------------------------------------------------
(* userinit has made slot 1 runnable; the CPUs enter scheduler().          *)
Init ==
  /\ state = [p \in Slot |-> IF p = initproc THEN "RUNNABLE" ELSE "UNUSED"]
  /\ pid = [p \in Slot |-> IF p = initproc THEN 1 ELSE 0]
  /\ parent = [p \in Slot |-> 0]
  /\ killed = [p \in Slot |-> FALSE]
  /\ chan = [p \in Slot |-> 0]
  /\ kstack = [p \in Slot |-> p = initproc]
  /\ nextpid = 2
  /\ ptlock = None
  /\ proc = [c \in CPU |-> 0]
  /\ scan = [c \in CPU |-> 1]
  /\ ifl = [c \in CPU |-> FALSE]
  /\ intena = [c \in CPU |-> FALSE]
  /\ pc = [p \in Slot |-> IF p = initproc THEN "forkret" ELSE "dead"]
  /\ resume = [p \in Slot |-> "user"]
  /\ after = [p \in Slot |-> "sysret"]
  /\ np = [p \in Slot |-> 0]
  /\ sintena = [p \in Slot |-> FALSE]
  /\ loglock = 0
  /\ busy = FALSE
  /\ ntrans = 0
  /\ panicked = FALSE

-----------------------------------------------------------------------------
(* scheduler(): sti(), then acquire(&ptable.lock) and start a scan.        *)
SchedAcquire(c) ==
  /\ ~panicked /\ proc[c] = 0 /\ ptlock = None
  /\ ptlock' = c
  /\ scan' = [scan EXCEPT ![c] = 1]
  /\ ifl' = [ifl EXCEPT ![c] = FALSE]
  /\ intena' = [intena EXCEPT ![c] = TRUE]
  /\ UNCHANGED <<ptable, proc, pc, locals, log, panicked>>

Ahead(c) == {p \in Slot : p >= scan[c] /\ state[p] = "RUNNABLE"}

(* Mutant: sched() does not restore cpu->intena after swtch. *)
SchedSwitchKeepIntena(c) ==
  /\ ~panicked /\ proc[c] = 0 /\ ptlock = c
  /\ \E p \in Slot :
       /\ First(p, Ahead(c))
       /\ proc' = [proc EXCEPT ![c] = p]
       /\ scan' = [scan EXCEPT ![c] = p]
       /\ state' = [state EXCEPT ![p] = "RUNNING"]
       /\ intena' = intena
  /\ UNCHANGED <<pid, parent, killed, chan, kstack, nextpid, ptlock, ifl, pc,
                 locals, log, panicked>>

(* The next RUNNABLE process of the scan becomes RUNNING; swtch enters it. *)
(* On a return into sched(), cpu->intena is restored from its local.       *)
SchedSwitch(c) ==
  /\ ~panicked /\ proc[c] = 0 /\ ptlock = c
  /\ \E p \in Slot :
       /\ First(p, Ahead(c))
       /\ proc' = [proc EXCEPT ![c] = p]
       /\ scan' = [scan EXCEPT ![c] = p]
       /\ state' = [state EXCEPT ![p] = "RUNNING"]
       /\ intena' = IF pc[p] = "forkret" THEN intena
                    ELSE [intena EXCEPT ![c] = sintena[p]]
  /\ UNCHANGED <<pid, parent, killed, chan, kstack, nextpid, ptlock, ifl, pc,
                 locals, log, panicked>>

(* The scan ends: release(&ptable.lock).                                   *)
SchedRelease(c) ==
  /\ ~panicked /\ proc[c] = 0 /\ ptlock = c /\ Ahead(c) = {}
  /\ ptlock' = None
  /\ scan' = [scan EXCEPT ![c] = 1]
  /\ ifl' = [ifl EXCEPT ![c] = intena[c]]
  /\ UNCHANGED <<ptable, proc, intena, pc, locals, log, panicked>>

(* The point at which sched() returns in the thread that called it.        *)
ReturnPoint == [yield_swtch |-> "yield_resume", wait_swtch |-> "wait_resume",
                sleep_swtch |-> "sleep_resume", exit_swtch |-> "dead"]

(* sched(): its panics, then swtch to the scheduler, whose loop goes on.   *)
Sched(c) ==
  /\ ~panicked /\ proc[c] # 0 /\ pc[proc[c]] \in Switching
  /\ LET p == proc[c] IN
     IF ptlock # c \/ loglock = p \/ state[p] = "RUNNING" \/ ifl[c]
     THEN panicked' = TRUE /\ UNCHANGED <<sintena, pc, proc, scan>>
     ELSE /\ sintena' = [sintena EXCEPT ![p] = intena[c]]
          /\ Goto(c, ReturnPoint[pc[p]])
          /\ proc' = [proc EXCEPT ![c] = 0]
          /\ scan' = [scan EXCEPT ![c] = @ + 1]
          /\ UNCHANGED panicked
  /\ UNCHANGED <<ptable, ptlock, ifl, intena, resume, after, np, log>>

-----------------------------------------------------------------------------
(* Mutant: yield() gives the CPU up without ptable.lock. *)
YieldUnlocked(c) ==
  /\ ~panicked /\ proc[c] # 0 /\ ifl[c]
  /\ LET p == proc[c] IN
     /\ pc[p] \in Preemptible
     /\ ~(pc[p] = "user" /\ killed[p])
     /\ state[p] = "RUNNING"
     /\ ptlock = None
     /\ ptlock' = None
     /\ ifl' = [ifl EXCEPT ![c] = FALSE]
     /\ intena' = [intena EXCEPT ![c] = FALSE]
     /\ state' = [state EXCEPT ![p] = "RUNNABLE"]
     /\ resume' = [resume EXCEPT ![p] = pc[p]]
     /\ Goto(c, "yield_swtch")
  /\ UNCHANGED <<pid, parent, killed, chan, kstack, nextpid, proc, scan, after,
                 np, sintena, log, panicked>>

(* A timer interrupt in user space or in the kernel: trap() calls yield(), *)
(* which acquires ptable.lock with interrupts already off.  A killed       *)
(* process interrupted in user space exits instead (UserKilled).           *)
Yield(c) ==
  /\ ~panicked /\ proc[c] # 0 /\ ifl[c]
  /\ LET p == proc[c] IN
     /\ pc[p] \in Preemptible
     /\ ~(pc[p] = "user" /\ killed[p])
     /\ state[p] = "RUNNING"
     /\ ptlock = None
     /\ ptlock' = c
     /\ ifl' = [ifl EXCEPT ![c] = FALSE]
     /\ intena' = [intena EXCEPT ![c] = FALSE]
     /\ state' = [state EXCEPT ![p] = "RUNNABLE"]
     /\ resume' = [resume EXCEPT ![p] = pc[p]]
     /\ Goto(c, "yield_swtch")
  /\ UNCHANGED <<pid, parent, killed, chan, kstack, nextpid, proc, scan, after,
                 np, sintena, log, panicked>>

(* yield() releases ptable.lock.  trap() then exits a process killed in    *)
(* user space, still with interrupts off; otherwise iret returns to the    *)
(* interrupted point.                                                      *)
YieldReturn(c) ==
  /\ Running(c, "yield_resume")
  /\ ptlock' = None
  /\ LET p == proc[c]
         exits == resume[p] = "user" /\ killed[p]
     IN /\ ifl' = [ifl EXCEPT ![c] = IF exits THEN intena[c] ELSE TRUE]
        /\ Goto(c, IF exits THEN "exit" ELSE resume[p])
        /\ resume' = [resume EXCEPT ![p] = "user"]
  /\ UNCHANGED <<ptable, proc, scan, intena, after, np, sintena, log, panicked>>

(* forkret() releases ptable.lock; trapret's iret loads the user eflags.   *)
Forkret(c) ==
  /\ Running(c, "forkret")
  /\ ptlock' = None
  /\ ifl' = [ifl EXCEPT ![c] = TRUE]
  /\ Goto(c, "user")
  /\ UNCHANGED <<ptable, proc, scan, intena, locals, log, panicked>>

(* A user program makes a system call; trap() has seen it is not killed.   *)
Syscall(c) ==
  /\ Running(c, "user")
  /\ ~killed[proc[c]]
  /\ \E call \in (IF proc[c] = initproc THEN InitCalls ELSE Calls) :
       /\ call = "begin" => ntrans < MaxTrans
       /\ ntrans' = IF call = "begin" THEN ntrans + 1 ELSE ntrans
       /\ Goto(c, call)
  /\ after' = [after EXCEPT ![proc[c]] = "sysret"]
  /\ UNCHANGED <<ptable, cpus, resume, np, sintena, loglock, busy, panicked>>

(* trap() finds the process killed: on the way into a system call, whose   *)
(* gate leaves interrupts on, or in an interrupt, whose gate has turned    *)
(* them off.                                                               *)
UserKilled(c) ==
  /\ Running(c, "user") /\ killed[proc[c]]
  /\ \E on \in BOOLEAN : ifl' = [ifl EXCEPT ![c] = on]
  /\ Goto(c, "exit")
  /\ UNCHANGED <<ptable, ptlock, proc, scan, intena, locals, log, panicked>>

(* A fault in user space: trap() marks the process killed and exits it,    *)
(* with interrupts off.  The init program does not fault.                  *)
Fault(c) ==
  /\ Running(c, "user") /\ proc[c] # initproc
  /\ killed' = [killed EXCEPT ![proc[c]] = TRUE]
  /\ ifl' = [ifl EXCEPT ![c] = FALSE]
  /\ Goto(c, "exit")
  /\ UNCHANGED <<state, pid, parent, chan, kstack, nextpid, ptlock, proc, scan,
                 intena, locals, log, panicked>>

(* trap() after syscall(): exit if killed, else return to user space.      *)
SysReturn(c) ==
  /\ Running(c, "sysret")
  /\ Goto(c, IF killed[proc[c]] THEN "exit" ELSE "user")
  /\ UNCHANGED <<ptable, cpus, locals, log, panicked>>

-----------------------------------------------------------------------------

(* fork() calls allocproc(), which scans for an UNUSED slot under the lock. *)
(* nextpid is bounded by MaxPid.                                           *)
AllocProc(c) ==
  /\ Running(c, "fork") /\ ptlock = None
  /\ LET unused == {p \in Slot : state[p] = "UNUSED"} IN
     \/ /\ unused = {}
        /\ Goto(c, "sysret")
        /\ UNCHANGED <<state, pid, nextpid, np>>
     \/ /\ nextpid <= MaxPid
        /\ \E p \in unused :
             /\ First(p, unused)
             /\ state' = [state EXCEPT ![p] = "EMBRYO"]
             /\ pid' = [pid EXCEPT ![p] = nextpid]
             /\ np' = [np EXCEPT ![proc[c]] = p]
        /\ nextpid' = nextpid + 1
        /\ Goto(c, "fork_kstack")
  /\ UNCHANGED <<parent, killed, chan, kstack, cpus, resume, after, sintena,
                 log, panicked>>

(* allocproc() without the lock: kalloc() a stack, or give the slot back.  *)
AllocKstack(c) ==
  /\ Running(c, "fork_kstack")
  /\ LET n == np[proc[c]] IN
     \/ /\ state' = [state EXCEPT ![n] = "UNUSED"]
        /\ Goto(c, "sysret")
        /\ UNCHANGED kstack
     \/ /\ kstack' = [kstack EXCEPT ![n] = TRUE]
        /\ pc' = [pc EXCEPT ![proc[c]] = "fork_copy", ![n] = "forkret"]
        /\ UNCHANGED state
  /\ UNCHANGED <<pid, parent, killed, chan, nextpid, cpus, locals, log,
                 panicked>>

(* fork(): copyuvm() fails and everything is undone but the pid, or the    *)
(* child gets its parent.                                                  *)
ForkCopy(c) ==
  /\ Running(c, "fork_copy")
  /\ LET n == np[proc[c]] IN
     \/ /\ kstack' = [kstack EXCEPT ![n] = FALSE]
        /\ state' = [state EXCEPT ![n] = "UNUSED"]
        /\ pc' = [pc EXCEPT ![proc[c]] = "sysret", ![n] = "dead"]
        /\ UNCHANGED parent
     \/ /\ parent' = [parent EXCEPT ![n] = proc[c]]
        /\ Goto(c, "fork_run")
        /\ UNCHANGED <<kstack, state>>
  /\ UNCHANGED <<pid, killed, chan, nextpid, cpus, locals, log, panicked>>

(* fork() makes the child RUNNABLE, without holding ptable.lock.           *)
ForkRun(c) ==
  /\ Running(c, "fork_run")
  /\ state' = [state EXCEPT ![np[proc[c]]] = "RUNNABLE"]
  /\ np' = [np EXCEPT ![proc[c]] = 0]
  /\ Goto(c, "sysret")
  /\ UNCHANGED <<pid, parent, killed, chan, kstack, nextpid, cpus, resume,
                 after, sintena, log, panicked>>

-----------------------------------------------------------------------------
(* wakeup1(): the states after every process asleep on ch is made RUNNABLE. *)
wakeup1(st, ch) == [p \in Slot |->
  IF st[p] = "SLEEPING" /\ chan[p] = ch THEN "RUNNABLE" ELSE st[p]]

(* exit() closes the files first, in a loop, and puts the directory;       *)
(* closing the last reference to an inode is a transaction (fileclose), so *)
(* that there may be several.                                              *)
Exit(c) ==
  /\ Running(c, "exit")
  /\ IF proc[c] = initproc
     THEN panicked' = TRUE /\ UNCHANGED <<pc, after, ntrans>>
     ELSE /\ \/ Goto(c, "exit_lock") /\ UNCHANGED <<after, ntrans>>
             \/ /\ ntrans < MaxTrans
                /\ ntrans' = ntrans + 1
                /\ after' = [after EXCEPT ![proc[c]] = "exit"]
                /\ Goto(c, "begin")
          /\ UNCHANGED panicked
  /\ UNCHANGED <<ptable, cpus, resume, np, sintena, loglock, busy>>

(* Mutant: exit() does not wake the parent. *)
ExitNoWakeup(c) ==
  /\ Running(c, "exit_lock") /\ ptlock = None
  /\ LET p == proc[c]
         kids == {k \in Slot : parent[k] = p}
         woken == state
         adopted == IF \E k \in kids : state[k] = "ZOMBIE"
                    THEN wakeup1(woken, initproc) ELSE woken
     IN /\ state' = [adopted EXCEPT ![p] = "ZOMBIE"]
        /\ parent' = [k \in Slot |->
                        IF k \in kids THEN initproc ELSE parent[k]]
  /\ ptlock' = c
  /\ ifl' = [ifl EXCEPT ![c] = FALSE]
  /\ intena' = [intena EXCEPT ![c] = ifl[c]]
  /\ Goto(c, "exit_swtch")
  /\ UNCHANGED <<pid, killed, chan, kstack, nextpid, proc, scan, locals, log,
                 panicked>>

(* The rest of exit(), under ptable.lock: wake the parent, give the        *)
(* children to init, become a ZOMBIE.                                      *)
ExitLocked(c) ==
  /\ Running(c, "exit_lock") /\ ptlock = None
  /\ LET p == proc[c]
         kids == {k \in Slot : parent[k] = p}
         woken == wakeup1(state, parent[p])
         adopted == IF \E k \in kids : state[k] = "ZOMBIE"
                    THEN wakeup1(woken, initproc) ELSE woken
     IN /\ state' = [adopted EXCEPT ![p] = "ZOMBIE"]
        /\ parent' = [k \in Slot |->
                        IF k \in kids THEN initproc ELSE parent[k]]
  /\ ptlock' = c
  /\ ifl' = [ifl EXCEPT ![c] = FALSE]
  /\ intena' = [intena EXCEPT ![c] = ifl[c]]
  /\ Goto(c, "exit_swtch")
  /\ UNCHANGED <<pid, killed, chan, kstack, nextpid, proc, scan, locals, log,
                 panicked>>

(* wait()'s loop body.  It is entered with ptable.lock just acquired, or   *)
(* held on the return from sleep(), which clears chan.                     *)
WaitScan(c) ==
  /\ ~panicked /\ proc[c] # 0
  /\ \/ pc[proc[c]] = "wait" /\ ptlock = None
     \/ pc[proc[c]] = "wait_resume"
  /\ LET p == proc[c]
         kids == {k \in Slot : parent[k] = p}
         zombies == {k \in kids : state[k] = "ZOMBIE"}
     IN \/ \E z \in zombies :
             /\ First(z, zombies)
             /\ kstack' = [kstack EXCEPT ![z] = FALSE]
             /\ state' = [state EXCEPT ![z] = "UNUSED"]
             /\ pid' = [pid EXCEPT ![z] = 0]
             /\ parent' = [parent EXCEPT ![z] = 0]
             /\ killed' = [killed EXCEPT ![z] = FALSE]
             /\ chan' = [chan EXCEPT ![p] = 0]
             /\ Goto(c, "sysret")
             /\ ptlock' = None
             /\ ifl' = [ifl EXCEPT ![c] = IF ptlock = c THEN intena[c] ELSE @]
             /\ UNCHANGED intena
        \/ /\ zombies = {} /\ (kids = {} \/ killed[p])
           /\ chan' = [chan EXCEPT ![p] = 0]
           /\ Goto(c, "sysret")
           /\ ptlock' = None
           /\ ifl' = [ifl EXCEPT ![c] = IF ptlock = c THEN intena[c] ELSE @]
           /\ UNCHANGED <<kstack, state, pid, parent, killed, intena>>
        \/ /\ zombies = {} /\ kids # {} /\ ~killed[p]
           /\ chan' = [chan EXCEPT ![p] = p]
           /\ state' = [state EXCEPT ![p] = "SLEEPING"]
           /\ Goto(c, "wait_swtch")
           /\ ptlock' = c
           /\ ifl' = [ifl EXCEPT ![c] = FALSE]
           /\ intena' = IF ptlock = c THEN intena
                        ELSE [intena EXCEPT ![c] = TRUE]
           /\ UNCHANGED <<kstack, pid, parent, killed>>
  /\ UNCHANGED <<nextpid, proc, scan, locals, log, panicked>>

(* kill(): the first slot with that pid, in whatever state, is marked.     *)
Kill(c) ==
  /\ Running(c, "kill") /\ ptlock = None
  /\ \E n \in KillArgs :
       LET match == {p \in Slot : pid[p] = n} IN
       \/ match = {} /\ UNCHANGED <<killed, state>>
       \/ \E p \in match :
            /\ First(p, match)
            /\ killed' = [killed EXCEPT ![p] = TRUE]
            /\ state' = [state EXCEPT ![p] =
                           IF @ = "SLEEPING" THEN "RUNNABLE" ELSE @]
  /\ Goto(c, "sysret")
  /\ UNCHANGED <<pid, parent, chan, kstack, nextpid, cpus, locals, log,
                 panicked>>

-----------------------------------------------------------------------------
(* begin_trans(), and sleep() on its return: acquire(&log.lock).           *)
AcquireLog(c) ==
  /\ ~panicked /\ proc[c] # 0
  /\ pc[proc[c]] \in {"begin", "relock"} /\ loglock = 0
  /\ loglock' = proc[c]
  /\ intena' = [intena EXCEPT ![c] = ifl[c]]
  /\ ifl' = [ifl EXCEPT ![c] = FALSE]
  /\ Goto(c, "begin_test")
  /\ UNCHANGED <<ptable, ptlock, proc, scan, locals, busy, ntrans, panicked>>

(* Mutant: sleep() releases log.lock before it has ptable.lock. *)
BeginTestEarlyRelease(c) ==
  /\ Running(c, "begin_test")
  /\ \/ /\ busy
        /\ Goto(c, "sleep")
        /\ loglock' = 0 /\ UNCHANGED <<busy, ifl>>
     \/ /\ ~busy
        /\ busy' = TRUE
        /\ loglock' = 0
        /\ ifl' = [ifl EXCEPT ![c] = intena[c]]
        /\ Goto(c, "in_trans")
  /\ UNCHANGED <<ptable, ptlock, proc, scan, intena, locals, ntrans, panicked>>

(* Mutant: begin_trans() does not look at log.busy. *)
BeginTestNoWhile(c) ==
  /\ Running(c, "begin_test")
  /\ \/ /\ busy
        /\ Goto(c, "sleep")
        /\ UNCHANGED <<busy, loglock, ifl>>
     \/ /\ busy \in BOOLEAN
        /\ busy' = TRUE
        /\ loglock' = 0
        /\ ifl' = [ifl EXCEPT ![c] = intena[c]]
        /\ Goto(c, "in_trans")
  /\ UNCHANGED <<ptable, ptlock, proc, scan, intena, locals, ntrans, panicked>>

(* begin_trans()'s while: call sleep(), or set log.busy and return.        *)
BeginTest(c) ==
  /\ Running(c, "begin_test")
  /\ \/ /\ busy
        /\ Goto(c, "sleep")
        /\ UNCHANGED <<busy, loglock, ifl>>
     \/ /\ ~busy
        /\ busy' = TRUE
        /\ loglock' = 0
        /\ ifl' = [ifl EXCEPT ![c] = intena[c]]
        /\ Goto(c, "in_trans")
  /\ UNCHANGED <<ptable, ptlock, proc, scan, intena, locals, ntrans, panicked>>

(* sleep(&log, &log.lock): acquire ptable.lock, only then release log.lock. *)
Sleep(c) ==
  /\ Running(c, "sleep") /\ ptlock = None
  /\ ptlock' = c
  /\ loglock' = 0
  /\ chan' = [chan EXCEPT ![proc[c]] = LOG]
  /\ state' = [state EXCEPT ![proc[c]] = "SLEEPING"]
  /\ Goto(c, "sleep_swtch")
  /\ UNCHANGED <<pid, parent, killed, kstack, nextpid, proc, scan, ifl, intena,
                 locals, busy, ntrans, panicked>>

(* sleep() after sched(): clear chan, release ptable.lock; log.lock next.  *)
SleepReturn(c) ==
  /\ Running(c, "sleep_resume")
  /\ chan' = [chan EXCEPT ![proc[c]] = 0]
  /\ ptlock' = None
  /\ ifl' = [ifl EXCEPT ![c] = intena[c]]
  /\ Goto(c, "relock")
  /\ UNCHANGED <<state, pid, parent, killed, kstack, nextpid, proc, scan,
                 intena, locals, log, panicked>>

(* The system call does its work inside the transaction.                   *)
InTrans(c) ==
  /\ Running(c, "in_trans")
  /\ Goto(c, "commit")
  /\ UNCHANGED <<ptable, cpus, locals, log, panicked>>

(* commit_trans(): acquire log.lock and clear log.busy.                    *)
Commit(c) ==
  /\ Running(c, "commit") /\ loglock = 0
  /\ loglock' = proc[c]
  /\ busy' = FALSE
  /\ intena' = [intena EXCEPT ![c] = ifl[c]]
  /\ ifl' = [ifl EXCEPT ![c] = FALSE]
  /\ Goto(c, "commit_wake")
  /\ UNCHANGED <<ptable, ptlock, proc, scan, locals, ntrans, panicked>>

(* commit_trans(): wakeup(&log) takes ptable.lock; then release log.lock.  *)
CommitWakeup(c) ==
  /\ Running(c, "commit_wake") /\ ptlock = None
  /\ state' = wakeup1(state, LOG)
  /\ loglock' = 0
  /\ ifl' = [ifl EXCEPT ![c] = intena[c]]
  /\ Goto(c, after[proc[c]])
  /\ UNCHANGED <<pid, parent, killed, chan, kstack, nextpid, ptlock, proc, scan,
                 intena, locals, busy, ntrans, panicked>>

(* panic() loops for ever and freezes the other CPUs.                      *)
Panic == panicked /\ UNCHANGED vars

-----------------------------------------------------------------------------
Scheduler(c) == SchedAcquire(c) \/ SchedSwitch(c) \/ SchedRelease(c)

Thread(c) ==
  \/ Sched(c) \/ YieldReturn(c) \/ Forkret(c) \/ UserKilled(c) \/ SysReturn(c)
  \/ AllocProc(c) \/ AllocKstack(c) \/ ForkCopy(c) \/ ForkRun(c)
  \/ Exit(c) \/ ExitLocked(c) \/ WaitScan(c) \/ Kill(c)
  \/ AcquireLog(c) \/ BeginTest(c) \/ Sleep(c) \/ SleepReturn(c)
  \/ InTrans(c) \/ Commit(c) \/ CommitWakeup(c)

Next == \/ Panic
        \/ \E c \in CPU : \/ Scheduler(c) \/ Thread(c)
                          \/ Yield(c) \/ Syscall(c) \/ Fault(c)

Spec == Init /\ [][Next]_vars

-----------------------------------------------------------------------------

OnCpu(p) == \E c \in CPU : proc[c] = p

(* A kernel stack is executed by one CPU at a time, and only while it is   *)
(* allocated: sched() keeps ptable.lock until the scheduler has switched   *)
(* stacks, so no other CPU can run a process that is still leaving its     *)
(* stack, and no parent can reap a zombie and free the stack under it.     *)
OneCpuPerStack ==
  /\ \A c, d \in CPU : proc[c] # 0 /\ proc[c] = proc[d] => c = d
  /\ \A c \in CPU : proc[c] # 0 => kstack[proc[c]]

(* RUNNING is exactly what a CPU executes: p->state and the CPUs disagree  *)
(* only while sched() is switching away, under ptable.lock.                *)
RunningIsOnCpu ==
  \A p \in Slot :
    /\ state[p] = "RUNNING" => OnCpu(p)
    /\ OnCpu(p) /\ state[p] # "RUNNING" => pc[p] \in Switching

(* Runnable contexts are resumable: the scheduler only ever enters a       *)
(* thread at a point where swtch left it or allocproc built it.            *)
RunnableIsResumable ==
  \A p \in Slot :
    state[p] \in {"RUNNABLE", "SLEEPING"} /\ ~OnCpu(p) =>
      pc[p] \in Resuming /\ kstack[p]

(* The three together: whoever saves or restores a context does so under   *)
(* ptable.lock, whichever CPU the process moves to.                        *)
StacksSound == OneCpuPerStack /\ RunningIsOnCpu /\ RunnableIsResumable

(* sched()'s four panics, and exit()'s for every process but init, are     *)
(* unreachable; killing init is what halts the system.                     *)
PanicOnlyInitExit == panicked => pc[initproc] = "exit"

(* No wakeup of the log is lost: a process asleep in begin_trans() implies *)
(* that the log is busy, or that the committer that cleared log.busy has   *)
(* yet to call wakeup().                                                   *)
NoLostWakeup ==
  \A p \in Slot : state[p] = "SLEEPING" /\ chan[p] = LOG =>
    busy \/ \E q \in Slot : pc[q] = "commit_wake"

(* No exit is lost: a process asleep in wait() has a child that it will    *)
(* have to be woken for, and none that already is a zombie.                *)
NoLostChild ==
  \A p \in Slot : state[p] = "SLEEPING" /\ chan[p] = p =>
    LET kids == {k \in Slot : parent[k] = p} IN
    kids # {} /\ \A k \in kids : state[k] # "ZOMBIE"

(* Every process but init has a parent that exists and has not exited, so  *)
(* somebody can always reap it: exit() hands children over before the      *)
(* parent becomes a zombie.                                                *)
NoOrphans ==
  \A p \in Slot : state[p] \notin {"UNUSED", "EMBRYO"} /\ p # initproc =>
    /\ parent[p] # 0
    /\ state[parent[p]] \in {"RUNNABLE", "RUNNING", "SLEEPING"}

(* One transaction at a time: log.busy is owned by exactly the one process *)
(* between begin_trans() and commit_trans().                               *)
InTransaction(p) == \/ pc[p] \in {"in_trans", "commit"}
                    \/ /\ pc[p] \in {"yield_swtch", "yield_resume"}
                       /\ resume[p] \in {"in_trans", "commit"}
OneTransaction ==
  /\ \A p, q \in Slot : InTransaction(p) /\ InTransaction(q) => p = q
  /\ busy <=> \E p \in Slot : InTransaction(p)

(* Interrupts follow the thread: a CPU that runs user code or a system     *)
(* call outside any spin lock has interrupts on, because sched() keeps     *)
(* cpu->intena in the thread and restores it on whatever CPU resumes it.   *)
(* Only a process that exits from an interrupt may run with them off.      *)
Exiting(p) == \/ pc[p] \in {"exit", "exit_lock"}
              \/ after[p] = "exit" /\ pc[p] # "user"
InterruptsFollowThread ==
  \A c \in CPU : proc[c] # 0 /\ pc[proc[c]] \in Preemptible =>
    ifl[c] \/ Exiting(proc[c])

(* What sched() asks of its callers holds on every path to it, and what it *)
(* saves for them comes back: interrupts follow the thread and none of its *)
(* panics is reachable.                                                    *)
SwitchesSound == InterruptsFollowThread /\ PanicOnlyInitExit

(* pids identify processes: no two slots in use carry the same pid.        *)
UniquePids ==
  \A p, q \in Slot :
    /\ p # q /\ state[p] # "UNUSED" /\ state[q] # "UNUSED" => pid[p] # pid[q]
    /\ state[p] # "UNUSED" => pid[p] \in 1..nextpid - 1

(* The family tree is sound while parents and children exit in any order:  *)
(* no zombie is missed by its parent, none is left without one, and the    *)
(* pid that wait() returns names one process.                              *)
FamilySound == NoLostChild /\ NoOrphans /\ UniquePids

(* kill(), proc.c:399, "Kill the process with the given pid.": a process   *)
(* that has yet to run is marked killed only if its pid was given to       *)
(* kill().                                                                 *)
KillsByPid ==
  \A p \in Slot :
    state[p] = "RUNNABLE" /\ pc[p] = "forkret" /\ killed[p]
      => pid[p] \in KillArgs
=============================================================================
