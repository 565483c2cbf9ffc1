------------------------------ MODULE FileData ------------------------------
(***************************************************************************)
(* File contents: block allocation (balloc, bfree), the map from a file's  *)
(* bytes to blocks (bmap, itrunc), readi and writei of fs.c, and fileread  *)
(* and filewrite of file.c on open files that processes share.             *)
(*                                                                         *)
(* A step is one transaction, or one read: the inode is locked throughout. *)
(* A byte is the name of the process that wrote it, or 0.  logged is the   *)
(* set of blocks given to log_write() in the last transaction.             *)
(***************************************************************************)
EXTENDS Naturals, Sequences, FiniteSets
LOCAL INSTANCE FiniteSetsExt

CONSTANTS
  Proc, Inode,
  Fobj, inodeOf,       \* open files, and the inode of each
  NB, NLOG,            \* data blocks are 1..NB; then come NLOG log blocks
  BPB,                 \* blocks per bitmap block
  NDIRECT, NINDIRECT,  \* block addresses in an inode, in an indirect block
  BSIZE, LOGSIZE,
  Sizes,               \* the sizes of the writes and reads processes make
  MaxWrites            \* bound: calls of filewrite

MAXFILE == NDIRECT + NINDIRECT
DataBlocks == 1..NB
LogBlocks == (NB + 1)..(NB + NLOG)
Block == DataBlocks \cup LogBlocks

VARIABLES
  fs,        \* [used, addrs, size, data, logged]; data of an indirect block is
             \* a sequence of addresses, of another a sequence of bytes
  off,       \* per open file: f->off; 0 while it is not open
  opened,    \* the open files with a reference
  pend,      \* per process: the rest of its filewrite(), [f, n]
  writes,    \* calls of filewrite so far
  panicked   \* the panic, or "log block given out", where the model ends

vars == <<fs, off, opened, pend, writes, panicked>>

Idle == [f |-> CHOOSE f \in Fobj : TRUE, n |-> 0]
Min2(x, y) == IF x < y THEN x ELSE y

-----------------------------------------------------------------------------
(* log_write(), with its limit: log.size is LOGSIZE.                       *)
Log(s, b) ==
  IF Cardinality(s.logged) >= LOGSIZE - 1
  THEN [s EXCEPT !.panic = "too big a transaction"]
  ELSE [s EXCEPT !.logged = @ \cup {b}]
BitmapBlock(b) == <<"bitmap", (b - 1) \div BPB>>
InodeBlock == <<"inode">>
DataBlock(b) == <<"data", b>>

(* balloc(): the first free block, zeroed.  It looks at every bit below    *)
(* sb.size; nothing marks the log's blocks, which come last, as in use.    *)
FreeBlocks(s) == Block \ s.used
FirstFree(s) == CHOOSE b \in FreeBlocks(s) : \A c \in FreeBlocks(s) : b <= c

balloc(s, n) ==
  IF FreeBlocks(s) = {} THEN [s EXCEPT !.panic = "balloc: out of blocks"]
  ELSE LET b == FirstFree(s)
       IN [Log(Log(s, BitmapBlock(b)), DataBlock(b))
             EXCEPT !.used = s.used \cup {b}, !.data[b] = [k \in 1..n |-> 0], !.new = b]

(* bmap(): allocates what the map is missing, and leaves in new the        *)
(* address of block bn of inode i.  addrs[i][NDIRECT + 1] is the indirect  *)
(* block; an entry of 0 is a block that is not allocated.                  *)
BmapDirect(s, i, bn) ==
  IF s.addrs[i][bn + 1] # 0 THEN [s EXCEPT !.new = s.addrs[i][bn + 1]]
  ELSE LET t == balloc(s, BSIZE) IN [t EXCEPT !.addrs[i][bn + 1] = t.new]

BmapIndirect(s, i, k) ==
  LET ind == s.addrs[i][NDIRECT + 1]
      t0 == IF ind # 0 THEN s ELSE balloc(s, NINDIRECT)
      t1 == IF ind # 0 THEN s ELSE [t0 EXCEPT !.addrs[i][NDIRECT + 1] = t0.new]
      a == t1.addrs[i][NDIRECT + 1]
      t2 == balloc(t1, BSIZE)
  IN IF t1.panic # "no" THEN t1
     ELSE IF t1.data[a][k + 1] # 0 THEN [t1 EXCEPT !.new = t1.data[a][k + 1]]
     ELSE IF t2.panic # "no" THEN t2
     ELSE Log([t2 EXCEPT !.data[a][k + 1] = t2.new], DataBlock(a))

bmap(s, i, bn) ==
  IF bn < NDIRECT THEN BmapDirect(s, i, bn) ELSE BmapIndirect(s, i, bn - NDIRECT)

(* Where block bn of inode i is, for readi(): 0 if it is not allocated.    *)
Mapped(s, i, bn) ==
  IF bn < NDIRECT THEN s.addrs[i][bn + 1]
  ELSE IF s.addrs[i][NDIRECT + 1] = 0 THEN 0
  ELSE s.data[s.addrs[i][NDIRECT + 1]][bn - NDIRECT + 1]

(* writei(): n bytes v at offset o, one block at a time.                   *)
RECURSIVE WriteBlocks(_, _, _, _, _)
WriteBlocks(s, i, o, n, v) ==
  IF n = 0 \/ s.panic # "no" THEN s
  ELSE LET t == bmap(s, i, o \div BSIZE)
           m == Min2(n, BSIZE - (o % BSIZE))
           u == Log([t EXCEPT !.data[t.new] =
                       [k \in 1..BSIZE |->
                          IF k > o % BSIZE /\ k <= (o % BSIZE) + m THEN v ELSE @[k]]],
                    DataBlock(t.new))
       IN IF t.panic # "no" THEN t ELSE WriteBlocks(u, i, o + m, n - m, v)

WriteOK(s, i, o, n) == o <= s.size[i] /\ o + n <= MAXFILE * BSIZE

writei(s, i, o, n, v) ==
  LET t == WriteBlocks(s, i, o, n, v) IN
  IF t.panic # "no" \/ o + n <= s.size[i] THEN t
  ELSE [Log(t, InodeBlock) EXCEPT !.size[i] = o + n]

(* readi(): clipped to the size.                                           *)
ReadLen(s, i, o, n) == IF o > s.size[i] THEN 0 ELSE Min2(n, s.size[i] - o)
readi(s, i, o, n) ==
  [k \in 1..ReadLen(s, i, o, n) |->
     s.data[Mapped(s, i, (o + k - 1) \div BSIZE)][((o + k - 1) % BSIZE) + 1]]

(* itrunc(): every block goes back, the indirect block last.               *)
BlocksOf(s, i) ==
  ({Mapped(s, i, bn) : bn \in 0..(MAXFILE - 1)} \cup {s.addrs[i][NDIRECT + 1]})
    \ {0}

Freed(s, i) == BlocksOf(s, i)

itrunc(s, i) ==
  LET LogBit(b, t) == Log(t, BitmapBlock(b)) IN
  [Log(FoldSet(LogBit, s, Freed(s, i)), InodeBlock)
     EXCEPT !.used = @ \ Freed(s, i), !.size[i] = 0,
            !.addrs[i] = [k \in 1..(NDIRECT + 1) |-> 0]]

-----------------------------------------------------------------------------
NewTrans == [fs EXCEPT !.logged = {}]

(* sys_open gives a file object, with its offset at 0.                     *)
Open(f) ==
  /\ panicked = "no" /\ f \notin opened
  /\ opened' = opened \cup {f} /\ off' = [off EXCEPT ![f] = 0]
  /\ UNCHANGED <<fs, pend, writes, panicked>>

Close(f) ==
  /\ panicked = "no" /\ f \in opened /\ \A p \in Proc : pend[p].n > 0 => pend[p].f # f
  /\ opened' = opened \ {f}
  /\ UNCHANGED <<fs, off, pend, writes, panicked>>

(* iput() of an inode without links or references, in a transaction of     *)
(* which it is all.                                                        *)
Truncate(i) ==
  LET t == itrunc(NewTrans, i) IN
  /\ panicked = "no" /\ \A f \in opened : inodeOf[f] # i
  /\ IF t.panic # "no" THEN panicked' = t.panic /\ UNCHANGED fs
     ELSE fs' = t /\ UNCHANGED panicked
  /\ UNCHANGED <<off, opened, pend, writes>>

(* Mutant: a read does not move the offset on by what it returned but by   *)
(* what was asked for.                                                     *)
AdvanceAsked(f, n) == n
Advance(f, n) == ReadLen(fs, inodeOf[f], off[f], n)

fileread(f, n) ==
  /\ panicked = "no" /\ f \in opened
  /\ off' = [off EXCEPT ![f] = @ + Advance(f, n)]
  /\ UNCHANGED <<fs, opened, pend, writes, panicked>>

(* filewrite(): in chunks that fit the log, each in a transaction.         *)
(* Mutant: the blocks of the bitmap are not allowed for. *)
MaxChunkNoBitmap == (LOGSIZE - 1 - 1 - 2) * BSIZE
MaxChunk == ((LOGSIZE - 1 - 1 - 2) \div 2) * BSIZE

filewrite(p, f, n) ==
  /\ panicked = "no" /\ pend[p].n = 0 /\ f \in opened /\ n > 0
  /\ writes < MaxWrites /\ writes' = writes + 1
  /\ pend' = [pend EXCEPT ![p] = [f |-> f, n |-> n]]
  /\ UNCHANGED <<fs, off, opened, panicked>>

(* One turn of its loop; a chunk that writei() refuses ends it.            *)
WriteChunk(p) ==
  LET f == pend[p].f  i == inodeOf[f]  n1 == Min2(pend[p].n, MaxChunk)
      t == writei(NewTrans, i, off[f], n1, p)
  IN
  /\ panicked = "no" /\ pend[p].n > 0 /\ UNCHANGED <<opened, writes>>
  /\ IF ~WriteOK(fs, i, off[f], n1)
     THEN pend' = [pend EXCEPT ![p] = Idle] /\ UNCHANGED <<fs, off, panicked>>
     ELSE IF t.panic # "no" THEN panicked' = t.panic /\ UNCHANGED <<fs, off, pend>>
     ELSE /\ fs' = [t EXCEPT !.new = 0]
          /\ off' = [off EXCEPT ![f] = @ + n1]
          /\ pend' = [pend EXCEPT ![p] =
                        IF n1 = @.n THEN Idle ELSE [@ EXCEPT !.n = @ - n1]]
          /\ panicked' = IF t.used \cap LogBlocks = {} THEN "no"
                         ELSE "log block given out"

Init ==
  /\ fs = [used |-> {}, size |-> [i \in Inode |-> 0], logged |-> {}, new |-> 0,
           addrs |-> [i \in Inode |-> [k \in 1..(NDIRECT + 1) |-> 0]],
           data |-> [b \in Block |-> [k \in 1..BSIZE |-> 0]], panic |-> "no"]
  /\ off = [f \in Fobj |-> 0] /\ opened = {} /\ writes = 0 /\ panicked = "no"
  /\ pend = [p \in Proc |-> Idle]

(* A panic stops the machine.                                              *)
Halted == panicked # "no" /\ UNCHANGED vars

Next ==
  \/ \E f \in Fobj : Open(f) \/ Close(f)
  \/ \E f \in Fobj, n \in Sizes : fileread(f, n)
  \/ \E i \in Inode : Truncate(i)
  \/ \E p \in Proc, f \in Fobj, n \in Sizes : filewrite(p, f, n)
  \/ \E p \in Proc : WriteChunk(p)
  \/ Halted

Spec == Init /\ [][Next]_vars

-----------------------------------------------------------------------------
(* The block bitmap and the block maps agree: a block is in use exactly if *)
(* one place of one inode maps it.  Every block below a file's size is     *)
(* mapped, so a read never allocates, and none past it.  No transaction of *)
(* filewrite() or itrunc() is too big for the log.                         *)
BlocksExact ==
  /\ fs.used = UNION {BlocksOf(fs, i) : i \in Inode}
  /\ \A i, j \in Inode : i # j => BlocksOf(fs, i) \cap BlocksOf(fs, j) = {}
  /\ \A i \in Inode : \A m, n \in 0..(MAXFILE - 1) :
       m # n /\ Mapped(fs, i, m) = Mapped(fs, i, n) => Mapped(fs, i, m) = 0
  /\ \A i \in Inode : \A bn \in 0..(MAXFILE - 1) :
       Mapped(fs, i, bn) # 0 <=> bn * BSIZE < fs.size[i]
  /\ panicked # "too big a transaction"

(* Files are byte sequences that reads return and writes change in place,  *)
(* through direct and indirect blocks, holes of old data and shared        *)
(* offsets.                                                                *)
BF == INSTANCE ByteFile WITH
  content <- [i \in Inode |-> readi(fs, i, 0, fs.size[i])], Byte <- Proc
ImplementsByteFile == BF!Spec
=============================================================================
