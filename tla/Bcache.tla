------------------------------- MODULE Bcache -------------------------------
(***************************************************************************)
(* The buffer cache (bio.c) on the IDE driver (ide.c).                     *)
(*                                                                         *)
(* Each process uses one buffer at a time: bread, then any number of       *)
(* bwrite and log_write's B_DIRTY pin, then brelse.  Code under            *)
(* bcache.lock or idelock is one step; sleep() releases the lock and       *)
(* sleeps in that step, as module Proc shows it may be taken to do.  The   *)
(* drive is external: it holds one command, finishes it, and raises the    *)
(* interrupt that ideintr() serves.                                        *)
(***************************************************************************)
EXTENDS Naturals, Sequences, FiniteSets

CONSTANTS
  Proc,      \* processes
  NBUF,      \* buffers
  Sector,    \* disk sectors
  Val,       \* contents of a sector
  Zero,      \* contents of a buffer never filled
  NoSector,  \* dev = -1: the buffer caches nothing
  MaxPin,    \* bound: buffers log_write() keeps dirty at a time
  ReadErrors \* may a read fail (IDE_ERR or IDE_DF)?

ASSUME BcacheAssumption == /\ NBUF \in Nat \ {0} /\ MaxPin \in Nat
                           /\ NoSector \notin Sector /\ Zero \notin Val
                           /\ ReadErrors \in BOOLEAN

Buf == 1..NBUF

VARIABLES
  sector,               \* b->sector
  busy, valid, dirty,   \* b->flags
  data,                 \* b->data
  lru,                  \* the list of buffers, head.next first
  queue,                \* idequeue
  hw,                   \* the drive: its state and the command it holds
  disk,                 \* contents of the sectors
  pc, want, mine,       \* per process: control, sector, buffer
  asleep,               \* per process: the buffer it sleeps on, or 0
  latest,               \* history: the last value stored in each sector
  panicked              \* the panic called, or "no"

cache == <<sector, busy, valid, dirty, data, lru>>
drive == <<queue, hw, disk>>
procs == <<pc, want, mine, asleep>>
vars == <<cache, drive, procs, latest, panicked>>

Idle == [st |-> "idle", op |-> "read", s |-> NoSector, v |-> Zero]

Init ==
  /\ sector = [b \in Buf |-> NoSector]
  /\ busy = [b \in Buf |-> FALSE]
  /\ valid = [b \in Buf |-> FALSE]
  /\ dirty = [b \in Buf |-> FALSE]
  /\ data = [b \in Buf |-> Zero]
  /\ lru = [i \in Buf |-> NBUF + 1 - i]
  /\ queue = <<>>
  /\ hw = Idle
  /\ disk \in [Sector -> Val]
  /\ pc = [p \in Proc |-> "idle"]
  /\ want = [p \in Proc |-> NoSector]
  /\ mine = [p \in Proc |-> 0]
  /\ asleep = [p \in Proc |-> 0]
  /\ latest = disk
  /\ panicked = "no"

At(p, label) == panicked = "no" /\ pc[p] = label /\ asleep[p] = 0

Goto(p, label) == pc' = [pc EXCEPT ![p] = label]

(* wakeup(b): everyone asleep on b is woken.                               *)
Wakeup(b) == [p \in Proc |-> IF asleep[p] = b THEN 0 ELSE asleep[p]]

-----------------------------------------------------------------------------
(* bread(dev, s) is called.                                                *)
Bread(p, s) ==
  /\ At(p, "idle")
  /\ want' = [want EXCEPT ![p] = s]
  /\ Goto(p, "bget")
  /\ UNCHANGED <<cache, drive, mine, asleep, latest, panicked>>

Take(p, b) == /\ busy' = [busy EXCEPT ![b] = TRUE]
              /\ mine' = [mine EXCEPT ![p] = b]
              /\ Goto(p, "got")

(* bget(): the sector is cached and its buffer is free, or is waited for.  *)
BgetHit(p) ==
  /\ At(p, "bget")
  /\ \E b \in Buf :
       /\ sector[b] = want[p]
       /\ \/ ~busy[b] /\ Take(p, b) /\ UNCHANGED asleep
          \/ /\ busy[b]
             /\ asleep' = [asleep EXCEPT ![p] = b]
             /\ UNCHANGED <<busy, mine, pc>>
  /\ UNCHANGED <<sector, valid, dirty, data, lru, drive, want, latest,
                 panicked>>

Reusable == {i \in Buf : ~busy[lru[i]] /\ ~dirty[lru[i]]}

(* Mutant: bget() does not look again whether the sector is cached. *)
BgetRecycleCached(p) ==
  /\ At(p, "bget")
  /\ \E i \in Reusable :
       /\ \A j \in Reusable : j <= i
       /\ sector' = [sector EXCEPT ![lru[i]] = want[p]]
       /\ dirty' = [dirty EXCEPT ![lru[i]] = FALSE]
       /\ valid' = [valid EXCEPT ![lru[i]] = FALSE]
       /\ Take(p, lru[i])
  /\ UNCHANGED <<data, lru, drive, want, asleep, latest, panicked>>

(* bget(): the sector is not cached; the least recently used buffer that   *)
(* is neither busy nor dirty is given to it.                               *)
BgetRecycle(p) ==
  /\ At(p, "bget")
  /\ \A b \in Buf : sector[b] # want[p]
  /\ \E i \in Reusable :
       /\ \A j \in Reusable : j <= i
       /\ sector' = [sector EXCEPT ![lru[i]] = want[p]]
       /\ dirty' = [dirty EXCEPT ![lru[i]] = FALSE]
       /\ valid' = [valid EXCEPT ![lru[i]] = FALSE]
       /\ Take(p, lru[i])
  /\ UNCHANGED <<data, lru, drive, want, asleep, latest, panicked>>

(* bget(): there is none.                                                  *)
BgetPanic(p) ==
  /\ At(p, "bget")
  /\ \A b \in Buf : sector[b] # want[p]
  /\ Reusable = {}
  /\ panicked' = "bget: no buffers"
  /\ UNCHANGED <<cache, drive, procs, latest>>

(* bread() returns a valid buffer, or has iderw() fill it first.           *)
BreadValid(p) ==
  /\ At(p, "got")
  /\ Goto(p, IF valid[mine[p]] THEN "own" ELSE "iderw")
  /\ UNCHANGED <<cache, drive, want, mine, asleep, latest, panicked>>

(* idestart(b): the command, with the data of a write.                     *)
Command(b, dty) == [st |-> "busy", op |-> IF dty THEN "write" ELSE "read",
                    s |-> sector[b], v |-> data[b]]

(* Mutant: iderw() does not wait for its request. *)
IderwNoWait(p) ==
  LET b == mine[p] IN
  /\ At(p, "iderw")
  /\ IF ~busy[b] \/ (valid[b] /\ ~dirty[b])
     THEN panicked' = "iderw" /\ UNCHANGED <<queue, hw, pc, asleep>>
     ELSE /\ queue' = Append(queue, b)
          /\ hw' = IF queue = <<>> THEN Command(b, dirty[b]) ELSE hw
          /\ Goto(p, "own")
          /\ UNCHANGED <<asleep, panicked>>
  /\ UNCHANGED <<cache, disk, want, mine, latest>>

(* iderw(): append to the queue, start the drive if it was empty, sleep.   *)
Iderw(p) ==
  LET b == mine[p] IN
  /\ At(p, "iderw")
  /\ IF ~busy[b] \/ (valid[b] /\ ~dirty[b])
     THEN panicked' = "iderw" /\ UNCHANGED <<queue, hw, pc, asleep>>
     ELSE /\ queue' = Append(queue, b)
          /\ hw' = IF queue = <<>> THEN Command(b, dirty[b]) ELSE hw
          /\ asleep' = [asleep EXCEPT ![p] = b]
          /\ Goto(p, "iowait")
          /\ UNCHANGED panicked
  /\ UNCHANGED <<cache, disk, want, mine, latest>>

(* iderw(): woken, return if the request is done, else sleep again.        *)
IderwWoken(p) ==
  /\ At(p, "iowait")
  /\ IF valid[mine[p]] /\ ~dirty[mine[p]]
     THEN Goto(p, "own") /\ UNCHANGED asleep
     ELSE asleep' = [asleep EXCEPT ![p] = mine[p]] /\ UNCHANGED pc
  /\ UNCHANGED <<cache, drive, want, mine, latest, panicked>>

(* The drive finishes its command and raises the interrupt.                *)
DriveDone ==
  /\ panicked = "no" /\ hw.st = "busy"
  /\ hw' = [hw EXCEPT !.st = "done"]
  /\ disk' = IF hw.op = "write" THEN [disk EXCEPT ![hw.s] = hw.v] ELSE disk
  /\ UNCHANGED <<queue, cache, procs, latest, panicked>>

(* Mutant: ideintr() does not start the next request. *)
ideintrNoStart ==
  /\ panicked = "no" /\ hw.st = "done" /\ queue # <<>>
  /\ LET b == Head(queue) IN
     /\ \/ /\ ~dirty[b]
           /\ data' = [data EXCEPT ![b] = disk[hw.s]]
        \/ /\ dirty[b] \/ ReadErrors
           /\ UNCHANGED data
     /\ valid' = [valid EXCEPT ![b] = TRUE]
     /\ dirty' = [dirty EXCEPT ![b] = FALSE]
     /\ asleep' = Wakeup(b)
     /\ queue' = Tail(queue)
     /\ hw' = Idle
  /\ UNCHANGED <<sector, busy, lru, disk, pc, want, mine, latest, panicked>>

(* Mutant: ideintr() does not wake the process that waits. *)
ideintrNoWakeup ==
  /\ panicked = "no" /\ hw.st = "done" /\ queue # <<>>
  /\ LET b == Head(queue) IN
     /\ \/ /\ ~dirty[b]
           /\ data' = [data EXCEPT ![b] = disk[hw.s]]
        \/ /\ dirty[b] \/ ReadErrors
           /\ UNCHANGED data
     /\ valid' = [valid EXCEPT ![b] = TRUE]
     /\ dirty' = [dirty EXCEPT ![b] = FALSE]
     /\ UNCHANGED asleep
     /\ queue' = Tail(queue)
     /\ hw' = IF Tail(queue) = <<>> THEN Idle
              ELSE Command(Head(Tail(queue)), dirty[Head(Tail(queue))])
  /\ UNCHANGED <<sector, busy, lru, disk, pc, want, mine, latest, panicked>>

(* ideintr(): the head of the queue is done.  A read that failed leaves    *)
(* b->data as it was.  The next request is started.                        *)
ideintr ==
  /\ panicked = "no" /\ hw.st = "done" /\ queue # <<>>
  /\ LET b == Head(queue) IN
     /\ \/ /\ ~dirty[b]
           /\ data' = [data EXCEPT ![b] = disk[hw.s]]
        \/ /\ dirty[b] \/ ReadErrors
           /\ UNCHANGED data
     /\ valid' = [valid EXCEPT ![b] = TRUE]
     /\ dirty' = [dirty EXCEPT ![b] = FALSE]
     /\ asleep' = Wakeup(b)
     /\ queue' = Tail(queue)
     /\ hw' = IF Tail(queue) = <<>> THEN Idle
              ELSE Command(Head(Tail(queue)), dirty[Head(Tail(queue))])
  /\ UNCHANGED <<sector, busy, lru, disk, pc, want, mine, latest, panicked>>

(* ideintr() with an empty queue: a spurious interrupt is ignored.         *)
IdeintrSpurious == panicked = "no" /\ queue = <<>> /\ UNCHANGED vars

-----------------------------------------------------------------------------

(* The owner changes the data; bwrite() marks it dirty and calls iderw().  *)
(* A buffer that is not busy would panic here; Iderw makes that test.      *)
Bwrite(p, v) ==
  /\ At(p, "own")
  /\ data' = [data EXCEPT ![mine[p]] = v]
  /\ dirty' = [dirty EXCEPT ![mine[p]] = TRUE]
  /\ latest' = [latest EXCEPT ![want[p]] = v]
  /\ Goto(p, "iderw")
  /\ UNCHANGED <<sector, busy, valid, lru, drive, want, mine, asleep, panicked>>

(* Dirty buffers that nobody is writing to the disk.                       *)
Pinned == {b \in Buf : dirty[b] /\ \A p \in Proc :
             mine[p] = b => pc[p] \notin {"iderw", "iowait"}}

(* The owner changes the data; log_write() sets B_DIRTY to pin the buffer. *)
(* The buffers so pinned are bounded by MaxPin.                            *)
Pin(p, v) ==
  /\ At(p, "own")
  /\ Cardinality(Pinned \cup {mine[p]}) <= MaxPin
  /\ data' = [data EXCEPT ![mine[p]] = v]
  /\ dirty' = [dirty EXCEPT ![mine[p]] = TRUE]
  /\ latest' = [latest EXCEPT ![want[p]] = v]
  /\ UNCHANGED <<sector, busy, valid, lru, drive, procs, panicked>>

(* b is unlinked from the list and put in at its head.                     *)
MovedToHead(b) ==
  LET k == CHOOSE i \in Buf : lru[i] = b
  IN [i \in Buf |-> IF i = 1 THEN b ELSE IF i <= k THEN lru[i-1] ELSE lru[i]]

(* Mutant: brelse() does not call wakeup(). *)
BrelseNoWakeup(p) ==
  LET b == mine[p] IN
  /\ At(p, "own")
  /\ IF ~busy[b]
     THEN panicked' = "brelse" /\ UNCHANGED <<lru, busy, asleep, mine, want, pc>>
     ELSE /\ lru' = MovedToHead(b)
          /\ busy' = [busy EXCEPT ![b] = FALSE]
          /\ UNCHANGED asleep
          /\ mine' = [mine EXCEPT ![p] = 0]
          /\ want' = [want EXCEPT ![p] = NoSector]
          /\ Goto(p, "idle")
          /\ UNCHANGED panicked
  /\ UNCHANGED <<sector, valid, dirty, data, drive, latest>>

(* brelse(): move the buffer to the head of the list, wake who waits.      *)
Brelse(p) ==
  LET b == mine[p] IN
  /\ At(p, "own")
  /\ IF ~busy[b]
     THEN panicked' = "brelse" /\ UNCHANGED <<lru, busy, asleep, mine, want, pc>>
     ELSE /\ lru' = MovedToHead(b)
          /\ busy' = [busy EXCEPT ![b] = FALSE]
          /\ asleep' = Wakeup(b)
          /\ mine' = [mine EXCEPT ![p] = 0]
          /\ want' = [want EXCEPT ![p] = NoSector]
          /\ Goto(p, "idle")
          /\ UNCHANGED panicked
  /\ UNCHANGED <<sector, valid, dirty, data, drive, latest>>

(* panic() halts the machine.                                              *)
Panic == panicked # "no" /\ UNCHANGED vars

Step(p) == \/ BgetHit(p) \/ BgetRecycle(p) \/ BgetPanic(p) \/ BreadValid(p)
           \/ Iderw(p) \/ IderwWoken(p) \/ Brelse(p)

Next == \/ DriveDone \/ ideintr \/ IdeintrSpurious \/ Panic
        \/ \E p \in Proc : \/ Step(p)
                           \/ \E s \in Sector : Bread(p, s)
                           \/ \E v \in Val : Bwrite(p, v) \/ Pin(p, v)

Spec == Init /\ [][Next]_vars

(* The drive answers every command and interrupts are delivered; a process *)
(* that is awake is scheduled.                                             *)
FairSpec == /\ Spec /\ WF_vars(DriveDone) /\ WF_vars(ideintr)
            /\ \A p \in Proc : WF_vars(Step(p))

-----------------------------------------------------------------------------

(* At most one buffer caches a sector: bget() never takes a second one     *)
(* while another process is bringing the sector in.                        *)
OneBufferPerSector ==
  \A a, b \in Buf : sector[a] = sector[b] /\ sector[a] # NoSector => a = b

(* B_BUSY is a lock: a buffer is used by the one process that bget() gave  *)
(* it to, and still caches the sector that process asked for.              *)
OneOwner ==
  /\ \A p, q \in Proc : mine[p] # 0 /\ mine[p] = mine[q] => p = q
  /\ \A b \in Buf : busy[b] <=> \E p \in Proc : mine[p] = b
  /\ \A p \in Proc : mine[p] # 0 => sector[mine[p]] = want[p]

(* bread() returns the last value anybody stored in the sector, whether it *)
(* was written to the disk or only pinned, and however often buffers were  *)
(* recycled in between.                                                    *)
ReadsLatest ==
  \A p \in Proc : pc[p] = "own" => data[mine[p]] = latest[want[p]]

(* A valid buffer that is not dirty equals its sector on the disk.         *)
CleanMatchesDisk ==
  \A b \in Buf : valid[b] /\ ~dirty[b] => data[b] = disk[sector[b]]

(* The queue and the drive agree: every queued buffer belongs to a process *)
(* waiting in iderw() and still needs I/O, and the command the drive holds *)
(* is the head's.                                                          *)
QueueMatchesDrive ==
  /\ \A i \in 1..Len(queue) :
       /\ \E p \in Proc : mine[p] = queue[i] /\ pc[p] = "iowait"
       /\ dirty[queue[i]] \/ ~valid[queue[i]]
       /\ \A j \in 1..Len(queue) : queue[i] = queue[j] => i = j
  /\ queue = <<>> <=> hw.st = "idle"
  /\ queue # <<>> => /\ hw.s = sector[Head(queue)]
                     /\ hw.op = "write" <=> dirty[Head(queue)]

(* No wakeup is lost although bget() and iderw() sleep on the same         *)
(* channel: who sleeps in bget() waits for a busy buffer, who sleeps in    *)
(* iderw() for one that is queued.                                         *)
NoLostWakeup ==
  \A p \in Proc : asleep[p] # 0 =>
    \/ pc[p] = "bget" /\ busy[asleep[p]] /\ sector[asleep[p]] = want[p]
    \/ pc[p] = "iowait" /\ \E i \in 1..Len(queue) : queue[i] = mine[p]

(* The panics of iderw() and brelse() are unreachable, and bget()'s is     *)
(* reached only when every buffer is in some process's hands or pinned by  *)
(* the log: no buffer leaks.                                               *)
PanicOnlyWhenFull ==
  \/ panicked = "no"
  \/ /\ panicked = "bget: no buffers"
     /\ \A b \in Buf : b \in Pinned \/ \E p \in Proc : mine[p] = b

(* The cache as bread(), bwrite() and brelse() promise it: one buffer for  *)
(* a sector, one process for a buffer, the disk's data in what is clean,   *)
(* and no buffer ever lost.                                                *)
BuffersSound ==
  OneBufferPerSector /\ OneOwner /\ CleanMatchesDisk /\ PanicOnlyWhenFull

(* Every request queued in iderw() completes.                              *)
IoCompletes == \A p \in Proc : pc[p] = "iowait" ~> pc[p] = "own"
=============================================================================
