------------------------------- MODULE Ticks -------------------------------
(***************************************************************************)
(* The clock: the timer interrupt counts ticks (trap.c) and sys_sleep()    *)
(* (sysproc.c) waits for a number of them.  Tests made under tickslock and *)
(* the sleep that follows are separate steps for kill(), which does not    *)
(* take it.                                                                *)
(***************************************************************************)
EXTENDS Integers

CONSTANTS
  Proc, NoProc,
  W,      \* one more than the largest uint
  Args,   \* arguments of sleep()
  Lag     \* bound: ticks until a process that was woken runs

VARIABLES
  ticks,
  holder,   \* tickslock
  pc, n, ticks0, killed,
  waited,   \* ghost: ticks since the call, W if more
  late,     \* ghost: ticks since the process was woken
  ret       \* result of the last call

vars == <<ticks, holder, pc, n, ticks0, killed, waited, late, ret>>

(* The timer interrupt on CPU 0.                                           *)
TimerTick ==
  /\ holder = NoProc /\ \A p \in Proc : pc[p] = "woken" => late[p] < Lag
  /\ ticks' = (ticks + 1) % W
  /\ pc' = [p \in Proc |-> IF pc[p] = "asleep" THEN "woken" ELSE pc[p]]
  /\ waited' = [p \in Proc |-> IF pc[p] = "user" \/ waited[p] = W
                             THEN waited[p] ELSE waited[p] + 1]
  /\ late' = [p \in Proc |-> IF pc[p] = "woken" THEN late[p] + 1 ELSE 0]
  /\ UNCHANGED <<holder, n, ticks0, killed, ret>>

(* sys_sleep(); the comparison with n is unsigned.                         *)
SleepCall(p, k) ==
  /\ pc[p] = "user" /\ p \notin killed /\ holder = NoProc
  /\ holder' = p /\ pc' = [pc EXCEPT ![p] = "test"]
  /\ n' = [n EXCEPT ![p] = k % W]
  /\ ticks0' = [ticks0 EXCEPT ![p] = ticks]
  /\ waited' = [waited EXCEPT ![p] = 0]
  /\ UNCHANGED <<ticks, killed, late, ret>>

(* Mutant: it waits for the tick ticks0 + n. *)
WaitsForTick(p) == ticks < (ticks0[p] + n[p]) % W
Waits(p) == (ticks - ticks0[p]) % W < n[p]

Return(p, v) ==
  /\ pc' = [pc EXCEPT ![p] = "user"] /\ holder' = NoProc
  /\ ret' = [ret EXCEPT ![p] = v]

Test(p) ==
  /\ pc[p] = "test"
  /\ \/ ~Waits(p) /\ Return(p, 0)
     \/ Waits(p) /\ p \in killed /\ Return(p, -1)
     \/ /\ Waits(p) /\ p \notin killed
        /\ pc' = [pc EXCEPT ![p] = "tosleep"] /\ UNCHANGED <<holder, ret>>
  /\ UNCHANGED <<ticks, n, ticks0, killed, waited, late>>

Sleep(p) ==
  /\ pc[p] = "tosleep"
  /\ pc' = [pc EXCEPT ![p] = "asleep"] /\ holder' = NoProc
  /\ UNCHANGED <<ticks, n, ticks0, killed, waited, late, ret>>

Resume(p) ==
  /\ pc[p] = "woken" /\ holder = NoProc
  /\ pc' = [pc EXCEPT ![p] = "test"] /\ holder' = p
  /\ late' = [late EXCEPT ![p] = 0]
  /\ UNCHANGED <<ticks, n, ticks0, killed, waited, ret>>

Kill(p) ==
  /\ p \notin killed /\ killed' = killed \cup {p}
  /\ pc' = [pc EXCEPT ![p] = IF @ = "asleep" THEN "woken" ELSE @]
  /\ UNCHANGED <<ticks, holder, n, ticks0, waited, late, ret>>

Init ==
  /\ ticks = 0 /\ holder = NoProc /\ killed = {}
  /\ pc = [p \in Proc |-> "user"]
  /\ n = [p \in Proc |-> 0] /\ ticks0 = [p \in Proc |-> 0]
  /\ waited = [p \in Proc |-> 0] /\ late = [p \in Proc |-> 0]
  /\ ret = [p \in Proc |-> 0]

Step(p) == Test(p) \/ Sleep(p) \/ Resume(p)

Next == \/ TimerTick
        \/ \E p \in Proc : Step(p) \/ Kill(p) \/ \E k \in Args : SleepCall(p, k)

(* The timer keeps ticking, processes in the kernel run, and neither spins *)
(* for ever on a lock that keeps coming free.                              *)
Spec == /\ Init /\ [][Next]_vars
        /\ SF_vars(TimerTick)
        /\ \A p \in Proc : WF_vars(Step(p)) /\ SF_vars(Resume(p))

-----------------------------------------------------------------------------
(* Every sleep returns, across the wrap of ticks and whenever a kill       *)
(* arrives, and one that was not killed has lasted as many ticks as its    *)
(* argument says as an unsigned number.                                    *)
SleepReturns ==
  \A p \in Proc :
    pc[p] = "asleep" ~> pc[p] = "user" /\ (ret[p] = 0 => waited[p] >= n[p])
=============================================================================
