------------------------------- MODULE Ftable -------------------------------
(***************************************************************************)
(* The table of open files (file.c) and file descriptors: open, pipe, dup, *)
(* close, fork and exit, by processes that share open files.               *)
(*                                                                         *)
(* A step ends where another process can come between: filealloc() takes   *)
(* one entry at a time, and fileclose() gives up the table's entry first   *)
(* and the pipe end or inode it stood for later.  An inode is a count of   *)
(* references; a pipe is a page, free when none of its ends is open.       *)
(* A call that fails before it has taken an entry changes nothing.         *)
(***************************************************************************)
EXTENDS Naturals, FiniteSets

CONSTANTS
  Process, NFILE, NOFILE,
  Pages     \* pages kalloc() has for pipes

ASSUME FtableAssumption == IsFiniteSet(Process) /\ NFILE \in Nat /\ NOFILE \in Nat

File == 1..NFILE
Fds == 0..(NOFILE - 1)
Ends == {"read", "write"}

VARIABLES
  file,      \* ftable.file[]: [ref, type, obj, end]
  ofile,     \* per process: descriptor -> file, 0 if none
  alive,     \* processes that have not called exit()
  call,      \* per process: where it is
  f0, f1,    \* files it has in hand, 0 if none
  ff,        \* the entry that its fileclose() has yet to give up
  pipes,     \* page -> open ends
  iref       \* references to inodes held through open files

ftable == <<file, ofile, alive, call, f0, f1, ff, pipes, iref>>

FD_NONE == [ref |-> 0, type |-> "none", obj |-> 0, end |-> "read"]
Closed == [d \in Fds |-> 0]
initproc == CHOOSE p \in Process : TRUE

(* The first free entry and the first free descriptor.                     *)
filealloc(f) == file[f].ref = 0 /\ \A g \in File : g < f => file[g].ref # 0
Full == \A f \in File : file[f].ref # 0
fdalloc(of, d) == of[d] = 0 /\ \A x \in Fds : x < d => of[x] # 0

Calling(p) == p \in alive /\ call[p] = "user"
Goto(p, label) == call' = [call EXCEPT ![p] = label]

(* filealloc() for the variable that fs is.                                *)
Alloc(f, fs, p) ==
  /\ filealloc(f)
  /\ file' = [file EXCEPT ![f].ref = 1]
  /\ fs' = [fs EXCEPT ![p] = f]

-----------------------------------------------------------------------------
(* sys_open() with an inode: an entry, then a descriptor.                  *)
sys_open(p) ==
  /\ Calling(p) /\ Goto(p, "open")
  /\ \E f \in File : Alloc(f, f0, p)
  /\ UNCHANGED <<ofile, alive, f1, ff, pipes, iref>>

OpenFd(p) ==
  /\ call[p] = "open" /\ UNCHANGED <<alive, f1, ff, pipes>>
  /\ \/ /\ \A d \in Fds : ofile[p][d] # 0
        /\ Goto(p, "close")
        /\ UNCHANGED <<file, ofile, f0, iref>>
     \/ \E d \in Fds :
          /\ fdalloc(ofile[p], d)
          /\ ofile' = [ofile EXCEPT ![p][d] = f0[p]]
          /\ file' = [file EXCEPT ![f0[p]].type = "inode"]
          /\ iref' = iref + 1
          /\ f0' = [f0 EXCEPT ![p] = 0]
          /\ Goto(p, "user")

(* sys_pipe() and pipealloc(): two entries, a page, two descriptors.  What *)
(* fails closes the entries it has.                                        *)
sys_pipe(p) ==
  /\ Calling(p) /\ Goto(p, "pipe1")
  /\ \E f \in File : Alloc(f, f0, p)
  /\ UNCHANGED <<ofile, alive, f1, ff, pipes, iref>>

PipeSecond(p) ==
  /\ call[p] = "pipe1"
  /\ \/ Full /\ Goto(p, "close") /\ UNCHANGED <<file, f1>>
     \/ \E f \in File : Alloc(f, f1, p) /\ Goto(p, "pipe2")
  /\ UNCHANGED <<ofile, alive, f0, ff, pipes, iref>>

PipeEnd(g, e) == [ref |-> 1, type |-> "pipe", obj |-> g, end |-> e]
Second(p, d) == [ofile[p] EXCEPT ![d] = f0[p]]
TwoFds(p, d, x) == fdalloc(ofile[p], d) /\ fdalloc(Second(p, d), x)

PipePage(p) ==
  /\ call[p] = "pipe2" /\ UNCHANGED <<alive, ff, iref>>
  /\ \/ /\ \A g \in Pages : pipes[g] # {}
        /\ Goto(p, "close")
        /\ UNCHANGED <<file, ofile, f0, f1, pipes>>
     \/ \E g \in Pages :
          /\ pipes[g] = {}
          /\ pipes' = [pipes EXCEPT ![g] = Ends]
          /\ file' = [file EXCEPT ![f0[p]] = PipeEnd(g, "read"),
                                  ![f1[p]] = PipeEnd(g, "write")]
          /\ \/ /\ \A d, x \in Fds : ~TwoFds(p, d, x)
                /\ Goto(p, "close")
                /\ UNCHANGED <<ofile, f0, f1>>
             \/ \E d, x \in Fds :
                  /\ TwoFds(p, d, x)
                  /\ ofile' = [ofile EXCEPT ![p] = [Second(p, d) EXCEPT ![x] = f1[p]]]
                  /\ f0' = [f0 EXCEPT ![p] = 0] /\ f1' = [f1 EXCEPT ![p] = 0]
                  /\ Goto(p, "user")

(* Mutant: dup does not count its new reference. *)
filedupNone(f) == UNCHANGED file
filedup(f) == file' = [file EXCEPT ![f].ref = @ + 1]

sys_dup(p, d) ==
  /\ Calling(p) /\ ofile[p][d] # 0
  /\ \E x \in Fds : /\ fdalloc(ofile[p], x)
                    /\ ofile' = [ofile EXCEPT ![p][x] = ofile[p][d]]
  /\ filedup(ofile[p][d])
  /\ UNCHANGED <<alive, call, f0, f1, ff, pipes, iref>>

(* sys_close(), and what exit() does for one descriptor.  exit() clears it *)
(* after fileclose(); nobody but the process reads it in between.          *)
Close(p, d) ==
  /\ ofile[p][d] # 0 /\ call[p] = "user"
  /\ ofile' = [ofile EXCEPT ![p][d] = 0]
  /\ f0' = [f0 EXCEPT ![p] = ofile[p][d]]
  /\ Goto(p, "close")
  /\ UNCHANGED <<file, alive, f1, ff, pipes, iref>>

sys_close(p, d) == p \in alive /\ Close(p, d)

-----------------------------------------------------------------------------
(* fileclose() of what p has in hand, f0 before f1, up to the release of   *)
(* the table's lock.  The other fields of a free entry are never read: the *)
(* model clears them.                                                      *)
InHand(p) == IF f0[p] # 0 THEN f0[p] ELSE f1[p]

fileclose(p) ==
  LET f == InHand(p) IN
  /\ call[p] = "close" /\ f # 0 /\ ff[p].type = "none"
  /\ IF file[f].ref > 1
     THEN file' = [file EXCEPT ![f].ref = @ - 1] /\ UNCHANGED ff
     ELSE file' = [file EXCEPT ![f] = FD_NONE] /\ ff' = [ff EXCEPT ![p] = file[f]]
  /\ IF f0[p] # 0 THEN f0' = [f0 EXCEPT ![p] = 0] /\ UNCHANGED f1
     ELSE f1' = [f1 EXCEPT ![p] = 0] /\ UNCHANGED f0
  /\ UNCHANGED <<ofile, alive, call, pipes, iref>>

(* The rest of it: pipeclose(), or iput() in a transaction.                *)
CloseObject(p) ==
  LET o == ff[p] IN
  /\ call[p] = "close" /\ o.type # "none"
  /\ IF o.type = "inode" THEN iref' = iref - 1 /\ UNCHANGED pipes
     ELSE pipes' = [pipes EXCEPT ![o.obj] = @ \ {o.end}] /\ UNCHANGED iref
  /\ ff' = [ff EXCEPT ![p] = FD_NONE]
  /\ UNCHANGED <<file, ofile, alive, call, f0, f1>>

Closes(p) ==
  /\ call[p] = "close" /\ InHand(p) = 0 /\ ff[p].type = "none"
  /\ Goto(p, "user")
  /\ UNCHANGED <<file, ofile, alive, f0, f1, ff, pipes, iref>>

(* fork() duplicates every descriptor; exit() closes them one by one.      *)
RefsIn(of, f) == Cardinality({d \in Fds : of[d] = f})
fork(p, c) ==
  /\ Calling(p) /\ c \notin alive /\ call[c] = "user" /\ ofile[c] = Closed
  /\ alive' = alive \cup {c}
  /\ ofile' = [ofile EXCEPT ![c] = ofile[p]]
  /\ file' = [f \in File |-> [file[f] EXCEPT !.ref = @ + RefsIn(ofile[p], f)]]
  /\ UNCHANGED <<call, f0, f1, ff, pipes, iref>>

exit(p) ==
  /\ Calling(p) /\ p # initproc
  /\ alive' = alive \ {p}
  /\ UNCHANGED <<file, ofile, call, f0, f1, ff, pipes, iref>>

ExitClose(p, d) ==
  /\ p \notin alive /\ \A x \in Fds : x < d => ofile[p][x] = 0
  /\ Close(p, d)

FtableInit ==
  /\ file = [f \in File |-> FD_NONE]
  /\ ofile = [p \in Process |-> Closed]
  /\ alive = {initproc}
  /\ call = [p \in Process |-> "user"]
  /\ f0 = [p \in Process |-> 0] /\ f1 = [p \in Process |-> 0]
  /\ ff = [p \in Process |-> FD_NONE]
  /\ pipes = [g \in Pages |-> {}] /\ iref = 0

FtableNext ==
  \/ \E p \in Process : \/ sys_open(p) \/ OpenFd(p)
                     \/ sys_pipe(p) \/ PipeSecond(p) \/ PipePage(p)
                     \/ fileclose(p) \/ CloseObject(p) \/ Closes(p) \/ exit(p)
  \/ \E p \in Process, d \in Fds : sys_dup(p, d) \/ sys_close(p, d) \/ ExitClose(p, d)
  \/ \E p, c \in Process : fork(p, c)

FtableSpec == FtableInit /\ [][FtableNext]_ftable

-----------------------------------------------------------------------------
(* A file's count is the number of descriptors that refer to it and of     *)
(* processes that have it in hand, so it is free exactly when nobody can   *)
(* use it.                                                                 *)
Descriptors(f) == {x \in Process \X Fds : ofile[x[1]][x[2]] = f}
RefsExact ==
  \A f \in File :
    file[f].ref = Cardinality(Descriptors(f))
                  + Cardinality({p \in Process : f0[p] = f})
                  + Cardinality({p \in Process : f1[p] = f})

(* Every inode reference and every open pipe end belongs to exactly one    *)
(* open file or pending close: none is released twice, and none is kept    *)
(* when open or pipe fails half way.                                       *)
InodesExact ==
  iref = Cardinality({f \in File : file[f].type = "inode"})
         + Cardinality({p \in Process : ff[p].type = "inode"})

IsEnd(o, g, e) == o.type = "pipe" /\ o.obj = g /\ o.end = e
EndsExact ==
  \A g \in Pages, e \in Ends :
    Cardinality({f \in File : IsEnd(file[f], g, e)})
      + Cardinality({p \in Process : IsEnd(ff[p], g, e)})
      = IF e \in pipes[g] THEN 1 ELSE 0

(* A free entry is untyped, so that a failed open that closes the entry it *)
(* just took does not close another file's pipe or inode again.            *)
FreeEntryUntyped == \A f \in File : file[f].ref = 0 => file[f].type = "none"

(* Open files, descriptors and what they stand for agree at every step.    *)
FilesSound == RefsExact /\ InodesExact /\ EndsExact /\ FreeEntryUntyped
=============================================================================
