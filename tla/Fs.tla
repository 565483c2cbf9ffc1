--------------------------------- MODULE Fs ---------------------------------
(***************************************************************************)
(* Inodes, directories, path names (fs.c) and the system calls on them     *)
(* (sysfile.c), by processes that run concurrently.                        *)
(*                                                                         *)
(* dinode is what the buffer cache holds of the inode and directory        *)
(* blocks; committed is what recovery would find, which module Log shows   *)
(* to change at commit_trans() only.  A step runs from one point where a   *)
(* process may wait or be overtaken to the next: ilock() of a busy inode,  *)
(* begin_trans(), and every iput().  sleep() on a flag is a guard, as      *)
(* module Proc shows it may be.  While an inode is I_BUSY nobody else      *)
(* touches it, so a section that locks, looks and unlocks is one step.     *)
(* File contents are in module FileData, descriptors in module Ftable:     *)
(* here a process has one descriptor.  Strings are sequences of path       *)
(* elements.                                                               *)
(***************************************************************************)
EXTENDS Naturals, Sequences, FiniteSets, TLC

CONSTANTS
  Proc,      \* processes
  Name,      \* file names other than "." and ".."
  Path,      \* the paths used: [abs |-> BOOLEAN, elems |-> Seq(Name or dots)]
  NewPath,   \* those used as the new name in link
  NINO,      \* sb.ninodes - 1: on-disk inodes are 1..NINO
  NINODE,    \* entries of the inode cache; enough for every inode, so that
             \* iget()'s panic when it has none is out of the model
  Calls,     \* the system calls used
  Disks,     \* the file systems to start from; processes start in the root
             \* directory or in inode 2, if that is a directory
  MaxCalls   \* bound: system calls made in all

Inum == 1..NINO
Slot == 1..NINODE
Ent == Name \cup {".", ".."}
ROOTINO == 1

ASSUME FsAssumption ==
  /\ NINO \in Nat \ {0} /\ NINODE \in Nat /\ NINODE >= NINO
  /\ MaxCalls \in Nat
  /\ Path \subseteq [abs : BOOLEAN, elems : Seq(Ent)]

VARIABLES
  dinode,     \* per inode number: type, nlink and directory entries; lost is
              \* a ghost, the links from directories freed with entries in them
  committed,  \* dinode as of the last commit
  busy,       \* log.busy
  icache,     \* icache.inode[]
  cwd, ofile, \* per process: proc->cwd, and the inode of its open file
  th,         \* per process: its kernel thread
  calls,      \* system calls made so far
  panicked    \* the message of a panic, or "no"

disk == <<dinode, committed, busy>>
user == <<cwd, ofile, calls>>
vars == <<disk, icache, user, th, panicked>>

NoEnts == [e \in Ent |-> 0]
FreeInode == [type |-> "free", nlink |-> 0, ents |-> NoEnts, lost |-> 0]

(* An unused cache entry; what its other fields hold is never looked at.   *)
Unused == [inum |-> 0, ref |-> 0, busy |-> FALSE, valid |-> FALSE,
           type |-> "free", nlink |-> 0]

(* A kernel thread: where it is, the inodes it must still unlock or put    *)
(* before it goes on, and the locals of the call.  w is namex's ip.        *)
User == [pc |-> "user", todo |-> <<>>, call |-> "", next |-> "", w |-> 0,
         ip |-> 0, elems |-> <<>>, parent |-> FALSE, name |-> ".",
         new |-> [abs |-> TRUE, elems |-> <<>>]]

-----------------------------------------------------------------------------
(* The inode cache.                                                        *)
Cached(ic, i) == {s \in Slot : ic[s].ref > 0 /\ ic[s].inum = i}
EmptySlots(ic) == {s \in Slot : ic[s].ref = 0}
First(S) == IF S = {} THEN 0 ELSE CHOOSE s \in S : \A t \in S : s <= t

(* iget(): the entry of inode i, or the first free one.                    *)
IgetSlot(ic, i) ==
  IF Cached(ic, i) # {} THEN First(Cached(ic, i)) ELSE First(EmptySlots(ic))

Iget(ic, i) ==
  IF Cached(ic, i) # {} THEN [ic EXCEPT ![IgetSlot(ic, i)].ref = @ + 1]
  ELSE [ic EXCEPT ![IgetSlot(ic, i)] = [Unused EXCEPT !.inum = i, !.ref = 1]]

(* ilock() of an inode that is not I_BUSY, and the read from disk; it      *)
(* panics if that finds no type.                                           *)
Load(ic, s) ==
  IF ic[s].valid THEN ic
  ELSE [ic EXCEPT ![s].valid = TRUE, ![s].type = dinode[ic[s].inum].type,
                  ![s].nlink = dinode[ic[s].inum].nlink]
Lock(ic, s) == [Load(ic, s) EXCEPT ![s].busy = TRUE]
Unlock(ic, s) == [ic EXCEPT ![s].busy = FALSE]
NoType(s) == Load(icache, s)[s].type = "free"
CanLock(s) == ~icache[s].busy /\ ~NoType(s)

(* iupdate(): the cached copy of slot s goes to its inode block.           *)
iupdate(dn, ic, s) == [dn EXCEPT ![ic[s].inum].type = ic[s].type,
                                 ![ic[s].inum].nlink = ic[s].nlink]

AddLink(ic, s, n) == [ic EXCEPT ![s].nlink = @ + n]

DropLink(ic, s) == [ic EXCEPT ![s].nlink = @ - 1]

(* dirlookup() in the directory of slot s: an inode number or 0.           *)
Lookup(s, name) == dinode[icache[s].inum].ents[name]

(* How many names directory d gives to inode i.                            *)
NamesIn(dn, d, i) == Cardinality({e \in Name : dn[d].ents[e] = i})

(* isdirempty(): nothing but "." and "..".                                 *)
IsDirEmpty(s) == \A e \in Name : dinode[icache[s].inum].ents[e] = 0
-----------------------------------------------------------------------------
At(p, label) == th[p].pc = label /\ th[p].todo = <<>> /\ panicked = "no"
Goto(p, r) == th' = [th EXCEPT ![p] = r @@ @]
Return(p, todo) == th' = [th EXCEPT ![p] = [User EXCEPT !.todo = todo]]
Panic(msg) == panicked' = msg /\ UNCHANGED <<disk, icache, user, th>>

Put(s) == <<"put", s>>
Unlk(s) == <<"unlock", s>>
Commit == <<"commit", 0>>

(* namex(), before its loop: iget of the root, or idup of the directory.   *)
NamexSlot(p, ic, path) == IF path.abs THEN IgetSlot(ic, ROOTINO) ELSE cwd[p]
NamexIcache(p, ic, path) ==
  IF path.abs THEN Iget(ic, ROOTINO) ELSE [ic EXCEPT ![cwd[p]].ref = @ + 1]
Namex(p, ic, path, parent, next) ==
  [pc |-> "walk", w |-> NamexSlot(p, ic, path), elems |-> path.elems,
   parent |-> parent, next |-> next]

(* namex(): one turn of the loop, or its end.  The result is w, 0 if none. *)
Walk(p) ==
  LET t == th[p]
      found == Lookup(t.w, t.elems[1])
      ic == Load(icache, t.w)
      Done(w, todo) == Goto(p, [pc |-> t.next, w |-> w, todo |-> todo,
                                elems |-> <<>>])
  IN
  /\ At(p, "walk")
  /\ \/ /\ t.elems = <<>>
        /\ IF t.parent THEN Done(0, <<Put(t.w)>>) ELSE Done(t.w, <<>>)
        /\ UNCHANGED <<icache, panicked>>
     \/ /\ t.elems # <<>> /\ CanLock(t.w)
        /\ \/ /\ ic[t.w].type # "dir"
              /\ Done(0, <<Put(t.w)>>)
              /\ icache' = ic
           \/ /\ ic[t.w].type = "dir" /\ t.parent /\ Len(t.elems) = 1
              /\ Goto(p, [pc |-> t.next, name |-> t.elems[1], elems |-> <<>>])
              /\ icache' = ic
           \/ /\ ic[t.w].type = "dir" /\ ~(t.parent /\ Len(t.elems) = 1)
              /\ IF found = 0
                 THEN Done(0, <<Put(t.w)>>) /\ icache' = ic
                 ELSE /\ Goto(p, [w |-> IgetSlot(ic, found),
                                  elems |-> Tail(t.elems),
                                  todo |-> <<Put(t.w)>>])
                      /\ icache' = Iget(ic, found)
        /\ UNCHANGED panicked
  /\ UNCHANGED <<disk, user>>

(* The inode a thread is about to ilock(), 0 if none.                       *)
Wants(p) ==
  IF th[p].todo # <<>> THEN 0
  ELSE IF th[p].pc \in {"open", "chdir", "unlink2", "create1", "link3"}
       THEN th[p].w
  ELSE IF th[p].pc = "walk" THEN IF th[p].elems = <<>> THEN 0 ELSE th[p].w
  ELSE IF th[p].pc \in {"unlink3", "create2", "create3", "link2", "linkbad"}
       THEN th[p].ip
  ELSE IF th[p].pc = "write" THEN ofile[p] ELSE 0

IlockPanic(p) ==
  /\ panicked = "no" /\ Wants(p) # 0 /\ ~icache[Wants(p)].busy /\ NoType(Wants(p))
  /\ Panic("ilock: no type")

-----------------------------------------------------------------------------
(* What a thread does when it is through with inodes: iunlock, commit, and *)
(* iput in the four steps between which another thread can run.            *)
Head1(p, op) == th[p].todo # <<>> /\ th[p].todo[1][1] = op /\ panicked = "no"
Pop(p) == Goto(p, [todo |-> Tail(th[p].todo)])

iunlock(p) ==
  /\ Head1(p, "unlock")
  /\ icache' = Unlock(icache, th[p].todo[1][2])
  /\ Pop(p) /\ UNCHANGED <<disk, user, panicked>>

(* begin_trans() in filewrite, fileclose, and before create(), which calls *)
(* nameiparent() next.                                                     *)
begin_trans(p) ==
  /\ At(p, "begin") /\ ~busy
  /\ busy' = TRUE
  /\ IF th[p].next = "create1"
     THEN /\ Goto(p, Namex(p, icache, th[p].new, TRUE, "create1"))
          /\ icache' = NamexIcache(p, icache, th[p].new)
     ELSE Goto(p, [pc |-> th[p].next]) /\ UNCHANGED icache
  /\ UNCHANGED <<dinode, committed, user, panicked>>

commit_trans(p) ==
  /\ Head1(p, "commit")
  /\ committed' = dinode /\ busy' = FALSE
  /\ Pop(p) /\ UNCHANGED <<dinode, icache, user, panicked>>


(* iput(): the inode has no links and this is the last reference.          *)
LastUnlinked(c) == c.ref = 1 /\ c.valid /\ c.nlink = 0

DropRef(c) == IF c.ref = 1 THEN Unused ELSE [c EXCEPT !.ref = @ - 1]

iput(p) ==
  LET s == th[p].todo[1][2]  c == icache[s] IN
  /\ Head1(p, "put")
  /\ \/ /\ LastUnlinked(c)
        /\ icache' = [icache EXCEPT ![s].busy = TRUE]
        /\ Goto(p, [todo |-> << <<"trunc", s>>, <<"free", s>>, <<"drop", s>> >>
                             \o Tail(th[p].todo)])
        /\ UNCHANGED <<disk, user, panicked>>
     \/ /\ ~LastUnlinked(c)
        /\ icache' = [icache EXCEPT ![s] = DropRef(c)]
        /\ Pop(p) /\ UNCHANGED <<disk, user, panicked>>

(* The blocks go, and with them the entries of a directory.                *)
itrunc(i) ==
  [j \in Inum |->
     IF j = i THEN [dinode[j] EXCEPT !.ents = NoEnts]
     ELSE [dinode[j] EXCEPT !.lost = @ + NamesIn(dinode, i, j)]]

(* itrunc() and its iupdate(), then type = 0 and iupdate(): log_write()    *)
(* wants some transaction to be open, whoever opened it.                   *)
IputWrite(p) ==
  LET i == icache[th[p].todo[1][2]].inum IN
  /\ Head1(p, "trunc") \/ Head1(p, "free")
  /\ \/ /\ ~busy
        /\ Panic("write outside of trans")
     \/ /\ busy
        /\ dinode' = IF Head1(p, "trunc")
                     THEN itrunc(i)
                     ELSE [dinode EXCEPT ![i] = FreeInode]
        /\ Pop(p) /\ UNCHANGED <<committed, busy, icache, user, panicked>>

(* flags = 0, wakeup(ip), ref--.                                           *)
IputDrop(p) ==
  LET s == th[p].todo[1][2] IN
  /\ Head1(p, "drop")
  /\ icache' = [icache EXCEPT ![s] =
                 DropRef([@ EXCEPT !.busy = FALSE, !.valid = FALSE,
                                   !.type = "free", !.nlink = 0])]
  /\ Pop(p) /\ UNCHANGED <<disk, user, panicked>>

-----------------------------------------------------------------------------
(* System calls that look a path up and use the inode: open without        *)
(* O_CREATE, chdir, and exec, which reads the inode and puts it as an open *)
(* does that fails.                                                        *)
Open(p) ==
  LET w == th[p].w  ic == Load(icache, w) IN
  /\ At(p, "open")
  /\ \/ /\ w = 0
        /\ Return(p, <<>>) /\ UNCHANGED <<icache, ofile>>
     \/ /\ w # 0 /\ CanLock(w)
        /\ icache' = ic
        /\ \E rdonly \in BOOLEAN :
             IF th[p].call = "exec" \/ ofile[p] # 0 \/ (ic[w].type = "dir" /\ ~rdonly)
             THEN Return(p, <<Put(w)>>) /\ UNCHANGED ofile
             ELSE Return(p, <<>>) /\ ofile' = [ofile EXCEPT ![p] = w]
  /\ UNCHANGED <<disk, cwd, calls, panicked>>

Chdir(p) ==
  LET w == th[p].w  ic == Load(icache, w) IN
  /\ At(p, "chdir")
  /\ \/ /\ w = 0
        /\ Return(p, <<>>) /\ UNCHANGED <<icache, cwd>>
     \/ /\ w # 0 /\ CanLock(w)
        /\ icache' = ic
        /\ IF ic[w].type # "dir"
           THEN Return(p, <<Put(w)>>) /\ UNCHANGED cwd
           ELSE Return(p, <<Put(cwd[p])>>) /\ cwd' = [cwd EXCEPT ![p] = w]
  /\ UNCHANGED <<disk, ofile, calls, panicked>>

-----------------------------------------------------------------------------
(* create(), inside a transaction; w is dp, and ip the result, locked.     *)
NewInode(call) == IF call = "mkdir" THEN "dir" ELSE
                  IF call = "mknod" THEN "dev" ELSE "file"
FreeInums == {i \in Inum : dinode[i].type = "free"}

(* Back in sys_open, sys_mkdir or sys_mknod with create()'s result.         *)
Created(p, ip, todo) ==
  IF th[p].call = "creat"
  THEN Goto(p, [pc |-> "opened", w |-> 0, ip |-> ip, todo |-> Append(todo, Commit)])
  ELSE Return(p, todo \o (IF ip = 0 THEN <<Commit>>
                          ELSE <<Unlk(ip), Put(ip), Commit>>))

CreateLookup(p) ==
  LET w == th[p].w  ic == Load(icache, w)
      found == Lookup(w, th[p].name)  i == First(FreeInums)
  IN
  /\ At(p, "create1")
  /\ \/ /\ w = 0
        /\ Created(p, 0, <<>>)
        /\ UNCHANGED <<dinode, icache, panicked>>
     \/ /\ w # 0 /\ CanLock(w) /\ found # 0
        /\ icache' = Iget(ic, found)
        /\ Goto(p, [pc |-> "create2", w |-> 0, ip |-> IgetSlot(ic, found),
                    todo |-> <<Put(w)>>])
        /\ UNCHANGED <<dinode, panicked>>
     \/ /\ w # 0 /\ CanLock(w) /\ found = 0 /\ i # 0
        /\ dinode' = [dinode EXCEPT
                        ![i] = [FreeInode EXCEPT !.type = NewInode(th[p].call)]]
        /\ icache' = Iget(Lock(icache, w), i)
        /\ Goto(p, [pc |-> "create3", ip |-> IgetSlot(Lock(icache, w), i)])
        /\ UNCHANGED panicked
     \/ /\ w # 0 /\ CanLock(w) /\ found = 0 /\ i = 0
        /\ panicked' = "ialloc: no inodes"
        /\ UNCHANGED <<dinode, icache, th>>
  /\ UNCHANGED <<committed, busy, user>>

(* The name exists: it is opened if both are files.                        *)
CreateExisting(p) ==
  LET ip == th[p].ip IN
  /\ At(p, "create2") /\ CanLock(ip)
  /\ IF th[p].call = "creat" /\ Load(icache, ip)[ip].type = "file"
     THEN icache' = Lock(icache, ip) /\ Created(p, ip, <<>>)
     ELSE icache' = Load(icache, ip) /\ Created(p, 0, <<Put(ip)>>)
  /\ UNCHANGED <<disk, user, panicked>>

(* Mutant: a new subdirectory does not count as a link to its parent. *)
DotDotLinksNone(call) == 0
DotDotLinks(call) == IF call = "mkdir" THEN 1 ELSE 0

(* A new inode gets its link, "." and ".." and its name in dp.             *)
CreateNew(p) ==
  LET ip == th[p].ip  w == th[p].w
      i == icache[ip].inum  d == icache[w].inum
      ic == AddLink(AddLink(Lock(icache, ip), ip, 1), w,
                    DotDotLinks(th[p].call))
      dots == IF th[p].call = "mkdir"
              THEN [NoEnts EXCEPT !["."] = i, ![".."] = d] ELSE NoEnts
  IN
  /\ At(p, "create3") /\ CanLock(ip)
  /\ icache' = Unlock(ic, w)
  /\ dinode' = [iupdate(iupdate(dinode, ic, ip), ic, w)
                  EXCEPT ![i].ents = dots, ![d].ents[th[p].name] = i]
  /\ Created(p, ip, <<Put(w)>>)
  /\ UNCHANGED <<committed, busy, user, panicked>>

(* sys_open after commit_trans(): ip is still locked.                      *)
Opened(p) ==
  LET ip == th[p].ip IN
  /\ At(p, "opened")
  /\ IF ip = 0 THEN Return(p, <<>>) /\ UNCHANGED ofile
     ELSE IF ofile[p] # 0 THEN Return(p, <<Unlk(ip), Put(ip)>>) /\ UNCHANGED ofile
     ELSE Return(p, <<Unlk(ip)>>) /\ ofile' = [ofile EXCEPT ![p] = ip]
  /\ UNCHANGED <<disk, icache, cwd, calls, panicked>>

-----------------------------------------------------------------------------
(* sys_unlink().  w is dp, found before the transaction began.             *)
Unlink1(p) ==
  /\ At(p, "unlink1")
  /\ IF th[p].w = 0 THEN Return(p, <<>>) /\ UNCHANGED busy
     ELSE ~busy /\ busy' = TRUE /\ Goto(p, [pc |-> "unlink2"])
  /\ UNCHANGED <<dinode, committed, icache, user, panicked>>

(* Mutant: "." and ".." may be unlinked. *)
NotDotsNever(name) == TRUE
NotDots(name) == name \in Name

UnlinkBad(w) == <<Put(w), Commit>>

Unlink2(p) ==
  LET w == th[p].w  found == Lookup(w, th[p].name) IN
  /\ At(p, "unlink2") /\ CanLock(w)
  /\ IF ~NotDots(th[p].name) \/ found = 0
     THEN icache' = Load(icache, w) /\ Return(p, UnlinkBad(w))
     ELSE /\ icache' = Iget(Lock(icache, w), found)
          /\ Goto(p, [pc |-> "unlink3", ip |-> IgetSlot(icache, found)])
  /\ UNCHANGED <<disk, user, panicked>>

MayUnlink(c, s) == c.type = "dir" => IsDirEmpty(s)

UnlinkParent(ic, w, c) == IF c.type = "dir" THEN DropLink(ic, w) ELSE ic

Unlink3(p) ==
  LET w == th[p].w  ip == th[p].ip  c == Load(icache, ip)[ip]
      ic == UnlinkParent(Lock(icache, ip), w, c)
  IN
  /\ At(p, "unlink3") /\ CanLock(ip)
  /\ \/ /\ ~MayUnlink(c, ip)
        /\ icache' = Load(icache, ip)
        /\ Return(p, <<Put(ip), Unlk(w)>> \o UnlinkBad(w))
        /\ UNCHANGED <<disk, user, panicked>>
     \/ /\ MayUnlink(c, ip)
        /\ icache' = Unlock(ic, w)
        /\ dinode' = [iupdate(dinode, ic, w)
                        EXCEPT ![ic[w].inum].ents[th[p].name] = 0]
        /\ Goto(p, [pc |-> "unlink4", w |-> 0, todo |-> <<Put(w)>>])
        /\ UNCHANGED <<committed, busy, user, panicked>>

(* Mutant: unlink does not write the decreased link count to the disk. *)
Unlink4NoUpdate(p) ==
  LET ip == th[p].ip IN
  /\ At(p, "unlink4")
  /\ icache' = Unlock(DropLink(icache, ip), ip)
  /\ Return(p, <<Put(ip), Commit>>)
  /\ UNCHANGED <<disk, user, panicked>>

Unlink4(p) ==
  LET ip == th[p].ip  ic == DropLink(icache, ip) IN
  /\ At(p, "unlink4")
  /\ icache' = Unlock(ic, ip)
  /\ dinode' = iupdate(dinode, ic, ip)
  /\ Return(p, <<Put(ip), Commit>>)
  /\ UNCHANGED <<committed, busy, user, panicked>>

-----------------------------------------------------------------------------
(* sys_link(): counts the link, then writes the entry, else uncounts it.   *)
Link1(p) ==
  /\ At(p, "link1")
  /\ IF th[p].w = 0 THEN Return(p, <<>>) /\ UNCHANGED busy
     ELSE /\ ~busy /\ busy' = TRUE
          /\ Goto(p, [pc |-> "link2", w |-> 0, ip |-> th[p].w])
  /\ UNCHANGED <<dinode, committed, icache, user, panicked>>

Link2(p) ==
  LET ip == th[p].ip  ic == AddLink(Load(icache, ip), ip, 1) IN
  /\ At(p, "link2") /\ CanLock(ip)
  /\ IF ic[ip].type = "dir"
     THEN /\ icache' = Load(icache, ip)
          /\ Return(p, <<Put(ip), Commit>>)
          /\ UNCHANGED dinode
     ELSE /\ dinode' = iupdate(dinode, ic, ip)
          /\ icache' = NamexIcache(p, ic, th[p].new)
          /\ Goto(p, Namex(p, ic, th[p].new, TRUE, "link3"))
  /\ UNCHANGED <<committed, busy, user, panicked>>

LinkFailed(p) == Goto(p, [pc |-> "linkbad", w |-> 0])

Link3(p) ==
  LET w == th[p].w  ip == th[p].ip  found == Lookup(w, th[p].name)
      ic == Load(icache, w)
  IN
  /\ At(p, "link3")
  /\ \/ /\ w = 0
        /\ LinkFailed(p) /\ UNCHANGED <<dinode, icache>>
     \/ /\ w # 0 /\ CanLock(w) /\ found # 0
        /\ icache' = Iget(Lock(ic, w), found)
        /\ Goto(p, [pc |-> "link3", w |-> 0,
                    todo |-> <<Put(IgetSlot(ic, found)), Unlk(w), Put(w)>>])
        /\ UNCHANGED dinode
     \/ /\ w # 0 /\ CanLock(w) /\ found = 0
        /\ icache' = ic
        /\ dinode' = [dinode EXCEPT ![ic[w].inum].ents[th[p].name] = ic[ip].inum]
        /\ Return(p, <<Put(w), Put(ip), Commit>>)
  /\ UNCHANGED <<committed, busy, user, panicked>>

LinkBad(p) ==
  LET ip == th[p].ip  ic == DropLink(Load(icache, ip), ip) IN
  /\ At(p, "linkbad") /\ CanLock(ip)
  /\ icache' = ic
  /\ dinode' = iupdate(dinode, ic, ip)
  /\ Return(p, <<Put(ip), Commit>>)
  /\ UNCHANGED <<committed, busy, user, panicked>>

-----------------------------------------------------------------------------
(* filewrite() of one chunk: the size changes, which is not modelled here, *)
(* and iupdate() writes the other fields back too.                         *)
Write(p) ==
  LET s == ofile[p] IN
  /\ At(p, "write") /\ CanLock(s)
  /\ icache' = Load(icache, s)
  /\ dinode' = iupdate(dinode, Load(icache, s), s)
  /\ Return(p, <<Commit>>)
  /\ UNCHANGED <<committed, busy, user, panicked>>

(* fileclose() of the last reference; exit() closes, then puts the cwd     *)
(* with no transaction of its own.                                         *)
Close(p) ==
  /\ At(p, "close")
  /\ ofile' = [ofile EXCEPT ![p] = 0]
  /\ IF th[p].call = "exit"
     THEN Goto(p, [pc |-> "exit", todo |-> <<Put(ofile[p]), Commit>>])
     ELSE Return(p, <<Put(ofile[p]), Commit>>)
  /\ UNCHANGED <<disk, icache, cwd, calls, panicked>>

Exit(p) ==
  /\ At(p, "exit")
  /\ cwd' = [cwd EXCEPT ![p] = 0]
  /\ th' = [th EXCEPT ![p] = [User EXCEPT !.pc = "zombie",
                                          !.todo = <<Put(cwd[p])>>]]
  /\ UNCHANGED <<disk, icache, ofile, calls, panicked>>

-----------------------------------------------------------------------------
(* A process makes a system call.                                          *)
PathCalls == [open |-> [parent |-> FALSE, next |-> "open"],
              chdir |-> [parent |-> FALSE, next |-> "chdir"],
              exec |-> [parent |-> FALSE, next |-> "open"],
              unlink |-> [parent |-> TRUE, next |-> "unlink1"],
              link |-> [parent |-> FALSE, next |-> "link1"]]
Creates == {"creat", "mkdir", "mknod"}

Call(p, c) ==
  /\ At(p, "user") /\ calls < MaxCalls
  /\ calls' = calls + 1
  /\ \/ /\ c \in DOMAIN PathCalls
        /\ \E path \in Path, new \in IF c = "link" THEN NewPath ELSE {User.new} :
             /\ Goto(p, [call |-> c, new |-> new]
                        @@ Namex(p, icache, path, PathCalls[c].parent,
                                 PathCalls[c].next))
             /\ icache' = NamexIcache(p, icache, path)
     \/ /\ c \in Creates
        /\ \E path \in Path :
             Goto(p, [call |-> c, pc |-> "begin", next |-> "create1",
                      new |-> path])
        /\ UNCHANGED icache
     \/ /\ c = "write" /\ ofile[p] # 0 /\ icache[ofile[p]].type = "file"
        /\ Goto(p, [call |-> c, pc |-> "begin", next |-> "write"])
        /\ UNCHANGED icache
     \/ /\ c = "close" /\ ofile[p] # 0
        /\ Goto(p, [call |-> c, pc |-> "begin", next |-> "close"])
        /\ UNCHANGED icache
     \/ /\ c = "exit"
        /\ IF ofile[p] = 0 THEN Goto(p, [call |-> c, pc |-> "exit"])
           ELSE Goto(p, [call |-> c, pc |-> "begin", next |-> "close"])
        /\ UNCHANGED icache
  /\ UNCHANGED <<disk, cwd, ofile, panicked>>

Init ==
  /\ dinode \in Disks /\ committed = dinode
  /\ busy = FALSE /\ calls = 0 /\ panicked = "no"
  /\ cwd \in [Proc -> {s \in {1, 2} : s = 1 \/ dinode[s].type = "dir"}]
  /\ dinode[2].nlink = 0 /\ dinode[2].type # "free" => \E p \in Proc : cwd[p] = 2
  /\ icache = [s \in Slot |->
       LET n == Cardinality({p \in Proc : cwd[p] = s}) IN
       IF n = 0 THEN Unused
       ELSE [inum |-> s, ref |-> n, busy |-> FALSE, valid |-> TRUE,
             type |-> "dir", nlink |-> dinode[s].nlink]]
  /\ ofile = [p \in Proc |-> 0]
  /\ th = [p \in Proc |-> User]

Step(p) ==
  \/ \E c \in Calls : Call(p, c)
  \/ begin_trans(p) \/ commit_trans(p) \/ iunlock(p)
  \/ iput(p) \/ IputWrite(p) \/ IputDrop(p)
  \/ Walk(p) \/ IlockPanic(p)
  \/ Open(p) \/ Chdir(p)
  \/ CreateLookup(p) \/ CreateExisting(p) \/ CreateNew(p)
  \/ Opened(p)
  \/ Unlink1(p) \/ Unlink2(p) \/ Unlink3(p) \/ Unlink4(p)
  \/ Link1(p) \/ Link2(p) \/ Link3(p) \/ LinkBad(p)
  \/ Write(p) \/ Close(p) \/ Exit(p)

Idle(p) == th[p].pc \in {"user", "zombie"} /\ th[p].todo = <<>>
Quiet == \A p \in Proc : Idle(p)

(* Nothing is left to do: the bound on calls is used up, or a panic.       *)
Done ==
  /\ panicked # "no" \/ (Quiet /\ (calls = MaxCalls \/ \A p \in Proc : th[p].pc = "zombie"))
  /\ UNCHANGED vars

Next == Done \/ \E p \in Proc : Step(p)
Spec == Init /\ [][Next]_vars

-----------------------------------------------------------------------------

(* The links an inode has: its names, the ".." of the directories named in *)
(* it, one for the root directory, and the names lost with a directory.    *)
Links(dn, i) ==
  LET Sum[d \in 0..NINO] == IF d = 0 THEN 0 ELSE NamesIn(dn, d, i) + Sum[d-1]
  IN Sum[NINO] + Cardinality({e \in Name : /\ dn[i].ents[e] # 0
                                           /\ dn[dn[i].ents[e]].type = "dir"})
     + (IF i = ROOTINO THEN 1 ELSE 0) + dn[i].lost

(* Whenever the machine stops, the file system recovery finds is sound:    *)
(* every link count is exact and no directory names a free inode.          *)
LinkCounts ==
  \A i \in Inum :
    /\ committed[i].nlink = Links(committed, i)
    /\ committed[i].type = "free" => committed[i] = FreeInode

(* iget() never gives one inode two cache entries.                         *)
OneEntryPerInode == \A i \in Inum : Cardinality(Cached(icache, i)) <= 1

(* An inode that is cached and not locked is as on the disk, so that the   *)
(* next holder of its lock does not work on a stale copy.                  *)
CacheCoherent ==
  \A s \in Slot : icache[s].valid /\ ~icache[s].busy =>
    /\ icache[s].type = dinode[icache[s].inum].type
    /\ icache[s].nlink = dinode[icache[s].inum].nlink

(* An unlinked inode lives no longer than its last reference: nothing is   *)
(* allocated on the disk that has neither a link nor a reference.          *)
NoOrphan ==
  \A i \in Inum : dinode[i].type # "free" /\ dinode[i].nlink = 0 =>
                 Cached(icache, i) # {}

(* The ".." of a removed directory, which sys_unlink() leaves as it is and *)
(* no longer counts: it names an inode that may be free by now.            *)
Dangling(i) ==
  \E d \in Inum : dinode[d].type = "dir" /\ dinode[d].nlink = 0 /\ dinode[d].ents[".."] = i

(* And not shorter: what the cache refers to is allocated, unless its last *)
(* reference is just being put, or a walk has come to it by the ".." of a  *)
(* removed directory and has not locked it yet.                            *)
NoUseAfterFree ==
  \A s \in Slot : icache[s].ref > 0 /\ ~icache[s].busy =>
    \/ dinode[icache[s].inum].type # "free"
    \/ ~icache[s].valid /\ Dangling(icache[s].inum)

(* Every path out of every call puts and unlocks what it took and ends its *)
(* transaction: between calls only cwd and ofile hold references.          *)
QuietRefs ==
  panicked = "no" /\ Quiet =>
    /\ ~busy
    /\ \A s \in Slot :
         /\ ~icache[s].busy
         /\ icache[s].ref = Cardinality({p \in Proc : cwd[p] = s})
                            + Cardinality({p \in Proc : ofile[p] = s})

(* The inode cache stays a cache, whichever calls interleave and wherever  *)
(* they fail: one entry for an inode, no stale copy, no reference or lock  *)
(* left behind.                                                            *)
CacheSound == OneEntryPerInode /\ CacheCoherent /\ QuietRefs

WaitsForLog(p) ==
  /\ busy
  /\ At(p, "begin") \/ ((At(p, "link1") \/ At(p, "unlink1")) /\ th[p].w # 0)
Blocked(p) == (Wants(p) # 0 /\ icache[Wants(p)].busy) \/ WaitsForLog(p)

(* Processes never all wait for each other's inode locks and transaction.  *)
NoDeadlock ==
  panicked = "no" /\ ~Quiet => \E p \in Proc : ~Idle(p) /\ ~Blocked(p)

(* The panics "iput busy", "iunlock" and "unlink: nlink < 1" cannot        *)
(* happen, whatever other processes do between two steps, and "ilock: no   *)
(* type" only on the way up from a removed directory.                      *)
NoPanic ==
  \A p \in Proc :
    /\ Wants(p) # 0 /\ ~icache[Wants(p)].busy /\ NoType(Wants(p)) =>
         Dangling(icache[Wants(p)].inum)
    /\ Head1(p, "put") =>
         LET c == icache[th[p].todo[1][2]] IN LastUnlinked(c) => ~c.busy
    /\ Head1(p, "unlock") => icache[th[p].todo[1][2]].busy
    /\ At(p, "unlink3") /\ CanLock(th[p].ip) =>
         Load(icache, th[p].ip)[th[p].ip].nlink >= 1


(* log.c:8, "Each system call that might write the file system should be   *)
(* surrounded with begin_trans() and commit_trans() calls": log_write()'s  *)
(* check that a transaction is open never fails.                           *)
NoWriteOutsideTrans == panicked # "write outside of trans"

(* fs.c:294, the check of ilock() that the inode it has read from disk is  *)
(* allocated: it never fails.                                              *)
NoTypelessInode == panicked # "ilock: no type"
=============================================================================
