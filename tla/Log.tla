--------------------------------- MODULE Log ---------------------------------
(***************************************************************************)
(* The redo log (log.c): transactions, crashes at any point, recovery.     *)
(*                                                                         *)
(* The disk (home, hn, hsector, logblk) survives a crash, everything else  *)
(* is memory.  One sector write is atomic and is one step.  cache and      *)
(* dirty are the buffers of home blocks; a clean one may be recycled at    *)
(* any time, and any process may read a block at any time once initlog()   *)
(* has returned.  Buffers of the log's own sectors are always written      *)
(* through, so reading one is reading the disk.  begin_trans() admits one  *)
(* transaction at a time (module Proc), so one control variable, phase,    *)
(* stands for the process that has set log.busy.                           *)
(***************************************************************************)
EXTENDS Naturals

CONSTANTS Block,    \* sectors outside the log
          Val,      \* contents of a sector
          LOGSIZE,  \* capacity of the log, min(LOGSIZE, sb.nlog - 1)
          NoBuf,    \* the block is not in the buffer cache
          NoBlock   \* an entry of log.lh.sector not yet used

ASSUME LogAssumption == /\ LOGSIZE \in Nat \ {0}
                        /\ NoBuf \notin Val
                        /\ NoBlock \notin Block

VARIABLES
  home,     \* disk: the blocks at their home locations
  hn,       \* disk: n of the log header
  hsector,  \* disk: sector[] of the log header
  logblk,   \* disk: the log's data blocks
  cache,    \* buffered contents of each home block
  dirty,    \* B_DIRTY of its buffer
  n,        \* log.lh.n
  sector,   \* log.lh.sector
  tail,     \* install_trans's loop variable
  phase     \* where initlog() or the transaction is

disk == <<home, hn, hsector, logblk>>
vars == <<disk, cache, dirty, n, sector, tail, phase>>

Index == 1..LOGSIZE
Recovering == {"boot", "recover", "reclear"}
Phases == Recovering \cup {"idle", "trans", "install", "clear", "panic"}

(* The blocks a header names, and the index at which it names b.           *)
Logged(k, sec) == {sec[i] : i \in 1..k}
IndexOf(b, k, sec) == CHOOSE i \in 1..k : sec[i] = b

(* main() starts from the disk mkfs wrote, with an empty log.              *)
Init ==
  /\ home \in [Block -> Val]
  /\ hn = 0
  /\ hsector = [i \in Index |-> NoBlock]
  /\ logblk \in [Index -> Val]
  /\ cache = [b \in Block |-> NoBuf]
  /\ dirty = [b \in Block |-> FALSE]
  /\ n = 0
  /\ sector = [i \in Index |-> NoBlock]
  /\ tail = 0
  /\ phase = "boot"

-----------------------------------------------------------------------------
(* begin_trans() returns: log.busy is set.                                 *)
begin_trans ==
  /\ phase = "idle"
  /\ phase' = "trans"
  /\ UNCHANGED <<disk, cache, dirty, n, sector, tail>>

(* The caller has bread b and changed it to v.  log_write() finds b's      *)
(* entry or appends one, writes the log block, and pins the buffer.        *)
log_write(b, v) ==
  /\ phase = "trans" /\ n < LOGSIZE
  /\ \E i \in 1..n + 1 :
       /\ IF b \in Logged(n, sector) THEN i = IndexOf(b, n, sector)
                                     ELSE i = n + 1
       /\ sector' = [sector EXCEPT ![i] = b]
       /\ logblk' = [logblk EXCEPT ![i] = v]
       /\ n' = IF i = n + 1 THEN n + 1 ELSE n
  /\ cache' = [cache EXCEPT ![b] = v]
  /\ dirty' = [dirty EXCEPT ![b] = TRUE]
  /\ UNCHANGED <<home, hn, hsector, tail, phase>>

(* log_write() panics when the log is full, even for a block it holds, and *)
(* when nobody is in a transaction.                                        *)
log_write_panic ==
  /\ (phase = "trans" /\ n >= LOGSIZE) \/ phase = "idle"
  /\ phase' = "panic"
  /\ UNCHANGED <<disk, cache, dirty, n, sector, tail>>

(* write_head(): the header sector, of which the first n entries change.   *)
write_head(k) ==
  /\ hn' = k
  /\ hsector' = [i \in Index |-> IF i <= k THEN sector[i] ELSE hsector[i]]

(* commit_trans() with nothing logged only clears log.busy.                *)
commit_empty ==
  /\ phase = "trans" /\ n = 0
  /\ phase' = "idle"
  /\ UNCHANGED <<disk, cache, dirty, n, sector, tail>>

(* Mutant: commit_trans() installs before it has written the header. *)
commit_trans_no_head ==
  /\ phase = "trans" /\ n > 0
  /\ tail' = 0
  /\ phase' = "install"
  /\ UNCHANGED <<hn, hsector, home, logblk, cache, dirty, n, sector>>

(* commit_trans(): the first write_head() is the commit.                   *)
commit_trans ==
  /\ phase = "trans" /\ n > 0
  /\ write_head(n)
  /\ tail' = 0
  /\ phase' = "install"
  /\ UNCHANGED <<home, logblk, cache, dirty, n, sector>>

(* Mutant: install_trans() does not advance tail. *)
install_trans_stuck ==
  /\ phase \in {"install", "recover"} /\ tail < n
  /\ home' = [home EXCEPT ![sector[tail + 1]] = logblk[tail + 1]]
  /\ cache' = [cache EXCEPT ![sector[tail + 1]] = logblk[tail + 1]]
  /\ dirty' = [dirty EXCEPT ![sector[tail + 1]] = FALSE]
  /\ tail' = tail
  /\ UNCHANGED <<hn, hsector, logblk, n, sector, phase>>

(* install_trans(): one iteration copies a log block to its home, through  *)
(* the home block's buffer.                                                *)
install_trans ==
  /\ phase \in {"install", "recover"} /\ tail < n
  /\ home' = [home EXCEPT ![sector[tail + 1]] = logblk[tail + 1]]
  /\ cache' = [cache EXCEPT ![sector[tail + 1]] = logblk[tail + 1]]
  /\ dirty' = [dirty EXCEPT ![sector[tail + 1]] = FALSE]
  /\ tail' = tail + 1
  /\ UNCHANGED <<hn, hsector, logblk, n, sector, phase>>

(* Mutant: install_trans() stops one block short. *)
install_done_early ==
  /\ phase \in {"install", "recover"} /\ tail + 1 >= n
  /\ n' = 0
  /\ phase' = IF phase = "install" THEN "clear" ELSE "reclear"
  /\ UNCHANGED <<disk, cache, dirty, sector, tail>>

(* The loop ends; commit_trans() and recover_from_log() set log.lh.n = 0.  *)
install_done ==
  /\ phase \in {"install", "recover"} /\ tail = n
  /\ n' = 0
  /\ phase' = IF phase = "install" THEN "clear" ELSE "reclear"
  /\ UNCHANGED <<disk, cache, dirty, sector, tail>>

(* The second write_head() erases the log; log.busy is cleared, or         *)
(* initlog() returns.                                                      *)
erase_log ==
  /\ phase \in {"clear", "reclear"}
  /\ write_head(n)
  /\ tail' = 0
  /\ phase' = "idle"
  /\ UNCHANGED <<home, logblk, cache, dirty, n, sector>>

(* recover_from_log(): read_head().                                        *)
read_head ==
  /\ phase = "boot"
  /\ n' = hn
  /\ sector' = [i \in Index |-> IF i <= hn THEN hsector[i] ELSE sector[i]]
  /\ phase' = "recover"
  /\ UNCHANGED <<disk, cache, dirty, tail>>

-----------------------------------------------------------------------------
(* bread() of an uncached block by any system call.                        *)
bread(b) ==
  /\ phase \notin Recovering \cup {"panic"} /\ cache[b] = NoBuf
  /\ cache' = [cache EXCEPT ![b] = home[b]]
  /\ UNCHANGED <<disk, dirty, n, sector, tail, phase>>

(* Mutant: bget() recycles dirty buffers too. *)
recycle_dirty(b) ==
  /\ phase # "panic" /\ cache[b] # NoBuf
  /\ cache' = [cache EXCEPT ![b] = NoBuf]
  /\ dirty' = [dirty EXCEPT ![b] = FALSE]
  /\ UNCHANGED <<disk, n, sector, tail, phase>>

(* bget() recycles a buffer that is not dirty.                             *)
recycle(b) ==
  /\ phase # "panic" /\ cache[b] # NoBuf /\ ~dirty[b]
  /\ cache' = [cache EXCEPT ![b] = NoBuf]
  /\ UNCHANGED <<disk, dirty, n, sector, tail, phase>>

(* The machine stops and reboots: memory is lost, the disk is kept.        *)
Crash ==
  /\ cache' = [b \in Block |-> NoBuf]
  /\ dirty' = [b \in Block |-> FALSE]
  /\ n' = 0
  /\ sector' = [i \in Index |-> NoBlock]
  /\ tail' = 0
  /\ phase' = "boot"
  /\ UNCHANGED disk

Next ==
  \/ begin_trans \/ log_write_panic \/ commit_empty \/ commit_trans
  \/ install_trans \/ install_done \/ erase_log \/ read_head \/ Crash
  \/ \E b \in Block : bread(b) \/ recycle(b) \/ \E v \in Val : log_write(b, v)

Spec == Init /\ [][Next]_vars

(* The log's owner and initlog() are not held up for ever.                 *)
FairSpec == Spec /\ WF_vars(read_head) /\ WF_vars(install_trans)
                 /\ WF_vars(install_done) /\ WF_vars(erase_log)

-----------------------------------------------------------------------------
(* Every variable stays in its type.                                       *)
TypeOK ==
  /\ home \in [Block -> Val]
  /\ hn \in 0..LOGSIZE
  /\ hsector \in [Index -> Block \cup {NoBlock}]
  /\ logblk \in [Index -> Val]
  /\ cache \in [Block -> Val \cup {NoBuf}]
  /\ dirty \in [Block -> BOOLEAN]
  /\ n \in 0..LOGSIZE
  /\ sector \in [Index -> Block \cup {NoBlock}]
  /\ tail \in 0..LOGSIZE
  /\ phase \in Phases

(* The blocks as recovery would leave them: the ones a header with k       *)
(* entries sec names are taken from the log blocks blk, the rest from h.   *)
Overlay(h, k, sec, blk) == [b \in Block |->
  IF b \in Logged(k, sec) THEN blk[IndexOf(b, k, sec)] ELSE h[b]]

Recovered == Overlay(home, hn, hsector, logblk)

(* What a system call reads: the buffer, or the home block.                *)
Readable == [b \in Block |-> IF cache[b] = NoBuf THEN home[b] ELSE cache[b]]

(* Until initlog() returns nobody reads; a panic waits for the reboot.     *)
View == IF phase \in Recovering \cup {"panic"} THEN Recovered ELSE Readable

AD == INSTANCE AtomicDisk WITH
        committed <- Recovered, view <- View, active <- phase = "trans"

(* Transactions are atomic and durable across crashes: the log implements  *)
(* AtomicDisk, whose committed state is the disk recover_from_log() would  *)
(* restore and whose view is what bread() returns.                         *)
ImplementsAtomicDisk == AD!Spec

(* Outside a transaction system calls read exactly the committed disk:     *)
(* initlog() has finished installing before anyone reads, and no buffer is *)
(* recycled while its block exists only in the log.                        *)
IdleReadsCommitted == phase \in {"idle", "install", "clear"} =>
                        Readable = Recovered

(* The log is only erased once every block it holds is at home, so no      *)
(* crash can find an erased header and a half-installed transaction.       *)
EraseAfterInstall ==
  [][hn > 0 /\ hn' = 0 => home = Recovered]_vars

(* Unless the machine keeps crashing, recovery completes and a commit that *)
(* was started is installed.                                               *)
RecoveryCompletes ==
  []<>(phase = "boot") \/ (phase \notin {"idle", "trans", "panic"} ~> phase = "idle")
=============================================================================
