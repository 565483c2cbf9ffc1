----------------------------- MODULE MCProgress -----------------------------
(* Log, and beside it Bcache, Pipe and Ticks with small instances, to      *)
(* check what each of them promises to bring about.  The components are    *)
(* independent here: a behaviour runs the one that comp names.             *)
EXTENDS Log, Integers

CONSTANTS
  Proc, NBUF, BVal, Sector, Zero, NoSector, MaxPin, ReadErrors,
  Readers, Writers, Byte, NoByte, PIPESIZE, W, MaxN, Kills,
  NoProc, Args, Lag

VARIABLES
  comp,
  b_sector, b_busy, b_valid, b_dirty, b_data, b_lru, b_queue, b_hw, b_disk,
  b_pc, b_want, b_mine, b_asleep, b_latest, b_panicked,
  p_data, p_nread, p_nwrite, p_readopen, p_writeopen, p_lock, p_freed,
  p_ends, p_killed, p_pc, p_left, p_asleep, p_last,
  t_ticks, t_holder, t_pc, t_n, t_ticks0, t_killed, t_waited, t_late, t_ret

Bc == INSTANCE Bcache WITH Val <- BVal,
  sector <- b_sector, busy <- b_busy, valid <- b_valid, dirty <- b_dirty,
  data <- b_data, lru <- b_lru, queue <- b_queue, hw <- b_hw,
  disk <- b_disk, pc <- b_pc, want <- b_want, mine <- b_mine,
  asleep <- b_asleep, latest <- b_latest, panicked <- b_panicked
Pp == INSTANCE Pipe WITH
  data <- p_data, nread <- p_nread, nwrite <- p_nwrite,
  readopen <- p_readopen, writeopen <- p_writeopen, lock <- p_lock,
  freed <- p_freed, ends <- p_ends, killed <- p_killed, pc <- p_pc,
  left <- p_left, asleep <- p_asleep, last <- p_last
Tk == INSTANCE Ticks WITH
  ticks <- t_ticks, holder <- t_holder, pc <- t_pc, n <- t_n,
  ticks0 <- t_ticks0, killed <- t_killed, waited <- t_waited,
  late <- t_late, ret <- t_ret

MCArgs == {-2, 1}
bvars == <<b_sector, b_busy, b_valid, b_dirty, b_data, b_lru, b_queue, b_hw,
           b_disk, b_pc, b_want, b_mine, b_asleep, b_latest, b_panicked>>
pvars == <<p_data, p_nread, p_nwrite, p_readopen, p_writeopen, p_lock,
           p_freed, p_ends, p_killed, p_pc, p_left, p_asleep, p_last>>
tvars == <<t_ticks, t_holder, t_pc, t_n, t_ticks0, t_killed, t_waited,
           t_late, t_ret>>
all == <<comp, vars, bvars, pvars, tvars>>
Blank == CHOOSE v \in Val : TRUE

MCInit ==
  /\ comp \in {"log", "bcache", "pipe", "ticks"}
  /\ Init /\ Bc!Init /\ Pp!Init /\ Tk!Init
  /\ comp = "log" \/ home = [b \in Block |-> Blank]
  /\ comp = "log" \/ logblk = [i \in Index |-> Blank]
  /\ comp = "bcache" \/ b_disk = [s \in Sector |-> CHOOSE v \in BVal : TRUE]

MCNext ==
  /\ UNCHANGED comp
  /\ \/ comp = "log" /\ Next /\ UNCHANGED <<bvars, pvars, tvars>>
     \/ comp = "bcache" /\ Bc!Next /\ UNCHANGED <<vars, pvars, tvars>>
     \/ comp = "pipe" /\ Pp!Next /\ UNCHANGED <<vars, bvars, tvars>>
     \/ comp = "ticks" /\ Tk!Next /\ UNCHANGED <<vars, bvars, pvars>>

(* The fairness that each component's own specification states.            *)
MCFairness ==
  /\ WF_vars(comp = "log" /\ read_head)
  /\ WF_vars(comp = "log" /\ install_trans)
  /\ WF_vars(comp = "log" /\ install_done)
  /\ WF_vars(comp = "log" /\ erase_log)
  /\ WF_bvars(comp = "bcache" /\ Bc!DriveDone)
  /\ WF_bvars(comp = "bcache" /\ Bc!ideintr)
  /\ \A p \in Proc : WF_bvars(comp = "bcache" /\ Bc!Step(p))
  /\ \A p \in Proc : WF_pvars(comp = "pipe" /\ Pp!Step(p))
  /\ SF_tvars(comp = "ticks" /\ Tk!TimerTick)
  /\ \A p \in Proc : /\ WF_tvars(comp = "ticks" /\ Tk!Step(p))
                     /\ SF_tvars(comp = "ticks" /\ Tk!Resume(p))

MCSpec == MCInit /\ [][MCNext]_all /\ MCFairness

(* Every request queued in iderw() completes (Bcache).                     *)
IoCompletes == Bc!IoCompletes

(* A pipe's reader and writer return when the other end is closed (Pipe).  *)
CloseReleasesPeers == Pp!CloseReleasesPeers

(* Every sleep() returns, and not too early (Ticks).                       *)
SleepReturns == Tk!SleepReturns
=============================================================================
