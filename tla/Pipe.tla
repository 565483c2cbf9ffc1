-------------------------------- MODULE Pipe --------------------------------
(***************************************************************************)
(* A pipe (pipe.c) shared by processes that hold its ends open.            *)
(*                                                                         *)
(* p->lock is explicit and the loops of pipewrite and piperead move one    *)
(* byte per step.  sleep() releases the lock and sleeps in one step, as    *)
(* module Proc shows it may be taken to do; that step comes after the test *)
(* of proc->killed, which no lock that kill() holds protects.  nread and   *)
(* nwrite are unsigned integers and wrap at W, as uint does at 2^32.       *)
(* fileclose() drops a reference before it calls pipeclose().              *)
(***************************************************************************)
EXTENDS Naturals, Sequences

CONSTANTS
  Proc, Readers, Writers,  \* processes, and who starts with which end open
  Byte, NoByte,            \* data, and "nothing read yet"
  PIPESIZE,                \* capacity
  W,                       \* the modulus of uint, a multiple of PIPESIZE
  MaxN,                    \* bound: bytes asked for in one call
  Kills                    \* the processes that may be killed

None == "none"

ASSUME PipeAssumption ==
  /\ Readers \subseteq Proc /\ Writers \subseteq Proc /\ Kills \subseteq Proc
  /\ PIPESIZE \in Nat \ {0} /\ W \in Nat /\ PIPESIZE < W /\ W % PIPESIZE = 0
  /\ MaxN \in Nat /\ NoByte \notin Byte /\ None \notin Proc

VARIABLES
  data, nread, nwrite, readopen, writeopen,  \* struct pipe
  lock,    \* the process that holds p->lock
  freed,   \* has kfree(p) been called?
  ends,    \* per process: the ends it holds open
  killed,  \* per process: proc->killed
  pc,      \* per process: where it is
  left,    \* per process: n - i, bytes still to move
  asleep,  \* per process: the channel it sleeps on, or None
  last     \* history: the last byte handed to a reader

pipe == <<data, nread, nwrite, readopen, writeopen, freed>>
vars == <<pipe, lock, ends, killed, pc, left, asleep, last>>

Init ==
  /\ data = [i \in 0..PIPESIZE - 1 |-> NoByte]
  /\ nread = 0 /\ nwrite = 0
  /\ readopen = TRUE /\ writeopen = TRUE
  /\ lock = None /\ freed = FALSE
  /\ ends = [p \in Proc |-> {e \in {"r", "w"} :
               (e = "r" /\ p \in Readers) \/ (e = "w" /\ p \in Writers)}]
  /\ killed = [p \in Proc |-> FALSE]
  /\ pc = [p \in Proc |-> "idle"]
  /\ left = [p \in Proc |-> 0]
  /\ asleep = [p \in Proc |-> None]
  /\ last = NoByte

At(p, label) == pc[p] = label /\ asleep[p] = None

Goto(p, label) == pc' = [pc EXCEPT ![p] = label]

Wakeup(ch) == [p \in Proc |-> IF asleep[p] = ch THEN None ELSE asleep[p]]

Empty == nread = nwrite
(* Mutant: pipewrite's test for a full pipe is off by one. *)
FullOffByOne == nwrite = (nread + PIPESIZE + 1) % W

Full == nwrite = (nread + PIPESIZE) % W

-----------------------------------------------------------------------------
(* read() or write() of n bytes; a killed process makes no more calls.     *)
Call(p) ==
  /\ At(p, "idle") /\ ~killed[p]
  /\ \E n \in 0..MaxN : left' = [left EXCEPT ![p] = n]
  /\ \/ "r" \in ends[p] /\ Goto(p, "read")
     \/ "w" \in ends[p] /\ Goto(p, "write")
  /\ UNCHANGED <<pipe, lock, ends, killed, asleep, last>>

(* acquire(&p->lock), on entry and on the return from sleep().             *)
Acquire(p) ==
  /\ \/ At(p, "read") /\ Goto(p, "rtest")
     \/ At(p, "write") /\ Goto(p, "wtest")
     \/ At(p, "closer") /\ Goto(p, "closing_r")
     \/ At(p, "closew") /\ Goto(p, "closing_w")
  /\ lock = None
  /\ lock' = p
  /\ UNCHANGED <<pipe, ends, killed, left, asleep, last>>

Return(p) == Goto(p, "idle") /\ left' = [left EXCEPT ![p] = 0] /\ lock' = None

(* Mutant: pipewrite without the wakeup before its final return. *)
WriteTurnNoWakeup(p) ==
  /\ At(p, "wtest")
  /\ \/ /\ left[p] = 0
        /\ Return(p)
        /\ UNCHANGED <<pipe, asleep>>
     \/ /\ left[p] > 0 /\ Full /\ (~readopen \/ killed[p])
        /\ Return(p)
        /\ UNCHANGED <<pipe, asleep>>
     \/ /\ left[p] > 0 /\ Full /\ readopen /\ ~killed[p]
        /\ asleep' = Wakeup("nread")
        /\ Goto(p, "wsleep")
        /\ UNCHANGED <<pipe, lock, left>>
     \/ /\ left[p] > 0 /\ ~Full
        /\ \E x \in Byte : data' = [data EXCEPT ![nwrite % PIPESIZE] = x]
        /\ nwrite' = (nwrite + 1) % W
        /\ left' = [left EXCEPT ![p] = @ - 1]
        /\ UNCHANGED <<nread, readopen, writeopen, freed, lock, pc, asleep>>
  /\ UNCHANGED <<ends, killed, last>>

(* pipewrite(): one turn of the loops.  Done: wake readers and return.     *)
(* Full: return -1 if nobody can read or the process is killed, else wake  *)
(* readers and go to sleep.  Otherwise store a byte.                       *)
WriteTurn(p) ==
  /\ At(p, "wtest")
  /\ \/ /\ left[p] = 0
        /\ asleep' = Wakeup("nread")
        /\ Return(p)
        /\ UNCHANGED pipe
     \/ /\ left[p] > 0 /\ Full /\ (~readopen \/ killed[p])
        /\ Return(p)
        /\ UNCHANGED <<pipe, asleep>>
     \/ /\ left[p] > 0 /\ Full /\ readopen /\ ~killed[p]
        /\ asleep' = Wakeup("nread")
        /\ Goto(p, "wsleep")
        /\ UNCHANGED <<pipe, lock, left>>
     \/ /\ left[p] > 0 /\ ~Full
        /\ \E x \in Byte : data' = [data EXCEPT ![nwrite % PIPESIZE] = x]
        /\ nwrite' = (nwrite + 1) % W
        /\ left' = [left EXCEPT ![p] = @ - 1]
        /\ UNCHANGED <<nread, readopen, writeopen, freed, lock, pc, asleep>>
  /\ UNCHANGED <<ends, killed, last>>

(* piperead(): the wait for data.                                          *)
ReadTest(p) ==
  /\ At(p, "rtest")
  /\ \/ /\ Empty /\ writeopen /\ killed[p]
        /\ Return(p)
     \/ /\ Empty /\ writeopen /\ ~killed[p]
        /\ Goto(p, "rsleep")
        /\ UNCHANGED <<lock, left>>
     \/ /\ ~(Empty /\ writeopen)
        /\ Goto(p, "rcopy")
        /\ UNCHANGED <<lock, left>>
  /\ UNCHANGED <<pipe, ends, killed, asleep, last>>

(* piperead(): copy a byte, or wake writers and return.                    *)
ReadTurn(p) ==
  /\ At(p, "rcopy")
  /\ \/ /\ left[p] > 0 /\ ~Empty
        /\ last' = data[nread % PIPESIZE]
        /\ nread' = (nread + 1) % W
        /\ left' = [left EXCEPT ![p] = @ - 1]
        /\ UNCHANGED <<pc, lock, asleep>>
     \/ /\ left[p] = 0 \/ Empty
        /\ asleep' = Wakeup("nwrite")
        /\ Return(p)
        /\ UNCHANGED <<nread, last>>
  /\ UNCHANGED <<data, nwrite, readopen, writeopen, freed, ends, killed>>

(* sleep(): the lock is released and the process is asleep.                *)
Sleep(p) ==
  /\ \/ /\ At(p, "wsleep")
        /\ asleep' = [asleep EXCEPT ![p] = "nwrite"]
        /\ Goto(p, "write")
     \/ /\ At(p, "rsleep")
        /\ asleep' = [asleep EXCEPT ![p] = "nread"]
        /\ Goto(p, "read")
  /\ lock' = None
  /\ UNCHANGED <<pipe, ends, killed, left, last>>

-----------------------------------------------------------------------------
(* Mutant: fileclose calls pipeclose whatever the reference count. *)
FilecloseEvery(p, e) ==
  /\ At(p, "idle") /\ e \in ends[p]
  /\ ends' = [ends EXCEPT ![p] = @ \ {e}]
  /\ Goto(p, IF e = "r" THEN "closer" ELSE "closew")
  /\ UNCHANGED <<pipe, lock, killed, left, asleep, last>>

(* close() or exit(): fileclose() drops the reference, and calls           *)
(* pipeclose() when it was the last one to that end.                       *)
Fileclose(p, e) ==
  /\ At(p, "idle") /\ e \in ends[p]
  /\ ends' = [ends EXCEPT ![p] = @ \ {e}]
  /\ IF \E q \in Proc \ {p} : e \in ends[q]
     THEN UNCHANGED pc
     ELSE Goto(p, IF e = "r" THEN "closer" ELSE "closew")
  /\ UNCHANGED <<pipe, lock, killed, left, asleep, last>>

(* Mutant: pipeclose frees when either end is closed (|| for &&). *)
PipecloseEither(p) ==
  /\ \/ /\ At(p, "closing_w")
        /\ writeopen' = FALSE
        /\ asleep' = Wakeup("nread")
        /\ Goto(p, "free")
        /\ UNCHANGED readopen
     \/ /\ At(p, "closing_r")
        /\ readopen' = FALSE
        /\ asleep' = Wakeup("nwrite")
        /\ Goto(p, "free")
        /\ UNCHANGED writeopen
  /\ lock' = None
  /\ UNCHANGED <<data, nread, nwrite, freed, ends, killed, left, last>>

(* Mutant: pipeclose of the write end without wakeup(&p->nread). *)
PipecloseNoWakeup(p) ==
  /\ \/ /\ At(p, "closing_w")
        /\ writeopen' = FALSE
        /\ UNCHANGED asleep
        /\ Goto(p, IF readopen THEN "idle" ELSE "free")
        /\ UNCHANGED readopen
     \/ /\ At(p, "closing_r")
        /\ readopen' = FALSE
        /\ asleep' = Wakeup("nwrite")
        /\ Goto(p, IF writeopen THEN "idle" ELSE "free")
        /\ UNCHANGED writeopen
  /\ lock' = None
  /\ UNCHANGED <<data, nread, nwrite, freed, ends, killed, left, last>>

(* pipeclose() under the lock.  When both ends are closed the pipe is      *)
(* freed, after the lock has been released.                                *)
Pipeclose(p) ==
  /\ \/ /\ At(p, "closing_w")
        /\ writeopen' = FALSE
        /\ asleep' = Wakeup("nread")
        /\ Goto(p, IF readopen THEN "idle" ELSE "free")
        /\ UNCHANGED readopen
     \/ /\ At(p, "closing_r")
        /\ readopen' = FALSE
        /\ asleep' = Wakeup("nwrite")
        /\ Goto(p, IF writeopen THEN "idle" ELSE "free")
        /\ UNCHANGED writeopen
  /\ lock' = None
  /\ UNCHANGED <<data, nread, nwrite, freed, ends, killed, left, last>>

Kfree(p) ==
  /\ At(p, "free")
  /\ freed' = TRUE
  /\ Goto(p, "idle")
  /\ UNCHANGED <<data, nread, nwrite, readopen, writeopen, lock, ends, killed,
                 left, asleep, last>>

(* kill(): mark the process and wake it from whatever it sleeps on.        *)
Kill(p) ==
  /\ p \in Kills /\ ~killed[p]
  /\ killed' = [killed EXCEPT ![p] = TRUE]
  /\ asleep' = [asleep EXCEPT ![p] = None]
  /\ UNCHANGED <<pipe, lock, ends, pc, left, last>>

Step(p) == \/ Acquire(p) \/ WriteTurn(p) \/ ReadTest(p) \/ ReadTurn(p)
           \/ Sleep(p) \/ Pipeclose(p) \/ Kfree(p)

(* Everybody has closed the pipe and is done with it.                      *)
Done == /\ freed /\ \A p \in Proc : At(p, "idle")
        /\ UNCHANGED vars

Next == \/ Done
        \/ \E p \in Proc : \/ Step(p) \/ Call(p) \/ Kill(p)
                           \/ \E e \in {"r", "w"} : Fileclose(p, e)

Spec == Init /\ [][Next]_vars

(* A process inside the kernel is scheduled until it returns.              *)
FairSpec == Spec /\ \A p \in Proc : WF_vars(Step(p))

(* As FairSpec, and no process spins for ever on a lock that keeps coming  *)
(* free.                                                                   *)
LockFairSpec == FairSpec /\ \A p \in Proc : SF_vars(Acquire(p))
-----------------------------------------------------------------------------
Inside == {"rtest", "rcopy", "rsleep", "wtest", "wsleep", "closing_r",
           "closing_w"}

Queue == [i \in 1..(nwrite + W - nread) % W |->
            data[(nread + i - 1) % PIPESIZE]]

Fifo == INSTANCE BoundedFifo WITH q <- Queue, Size <- PIPESIZE

(* The ring of data[], nread and nwrite is a queue of at most PIPESIZE     *)
(* bytes, across the wrap of the unsigned counters and for any number of   *)
(* readers and writers: pipewrite appends, piperead takes the oldest byte. *)
ImplementsFifo == Fifo!Spec

(* Whenever p->lock is free, a process asleep in pipewrite has no room and *)
(* a reader to wait for, and one asleep in piperead has nothing to read    *)
(* and a writer to wait for.  The exception is what the code does: a       *)
(* killed writer that finds the pipe full returns without the wakeup, so   *)
(* the bytes it stored may be there while a reader sleeps.                 *)
NoLostWakeup ==
  lock = None =>
    \A p \in Proc :
      /\ asleep[p] = "nwrite" => Full /\ readopen
      /\ asleep[p] = "nread" => /\ writeopen
                               /\ (Empty \/ \E q \in Writers : killed[q])

(* kfree(p) in pipeclose: after it nobody is in piperead, pipewrite or     *)
(* pipeclose on this pipe, spinning on its lock, or able to call them.     *)
NoUseAfterFree ==
  freed => \A p \in Proc : pc[p] = "idle" /\ ends[p] = {}

(* piperead goes on to return with an empty pipe (end of file) only when   *)
(* no process holds the write end.                                         *)
EofMeansNoWriter ==
  [][\A p \in Proc :
       pc[p] = "rtest" /\ pc'[p] = "rcopy" /\ Empty
         => \A q \in Proc : "w" \notin ends[q]]_vars

Reading(p) == pc[p] \in {"read", "rtest", "rcopy", "rsleep"}
Writing(p) == pc[p] \in {"write", "wtest", "wsleep"}
Open(e) == \E q \in Proc : e \in ends[q]

(* pipeclose releases the other side: once the last descriptor of the      *)
(* other end is closed, a call in piperead or pipewrite returns.           *)
CloseReleasesPeers ==
  \A p \in Proc : /\ (Reading(p) /\ ~Open("w")) ~> ~Reading(p)
                  /\ (Writing(p) /\ ~Open("r")) ~> ~Writing(p)

(* kill(), proc.c:411, "Wake process from sleep if necessary.": a killed   *)
(* process gets out of piperead.                                           *)
KilledReaderReturns ==
  \A p \in Proc : (Reading(p) /\ killed[p]) ~> ~Reading(p)
=============================================================================
