-------------------------------- MODULE Mkfs --------------------------------
(***************************************************************************)
(* mkfs.c: builds the first file system image, a root directory and the    *)
(* files named on the command line.  It has its own ialloc, balloc and     *)
(* iappend, which must leave an image that fs.c can go on from.  Nothing   *)
(* compares freeblock with where the log begins: a full image may have     *)
(* files in the log's blocks.  rsect() of a block past the disk fails.     *)
(***************************************************************************)
EXTENDS Naturals, Sequences, FiniteSets

CONSTANTS
  META,                      \* blocks before the data blocks
  SIZE, BITS,                \* blocks of the disk, bits in a bitmap block
  BSIZE, DIRENT,             \* bytes in a block, in a directory entry
  NDIRECT, NINDIRECT,
  MaxFiles                   \* bound: files on the command line

Inum == 1..(MaxFiles + 1)
ROOT == 1
Indirect == NDIRECT + 1

VARIABLES
  img,      \* [din, ind, freeblock, usedblocks, freeinode]; ind is what the
            \* indirect block of an inode holds
  entries,  \* ghost: the bytes of root directory entries
  bitmap,   \* blocks that the bitmap on the image shows as in use
  pc        \* "files", "copy", "done", or "failed"

vars == <<img, entries, bitmap, pc>>

NoInode == [type |-> 0, size |-> 0, addrs |-> [k \in 1..Indirect |-> 0]]

ialloc(s, type) ==
  [s EXCEPT !.din[s.freeinode].type = type, !.freeinode = @ + 1]

(* Mutant: a block is given out that the bitmap will not count. *)
NewBlockUncounted(s) == [s EXCEPT !.freeblock = @ + 1]
NewBlock(s) == [s EXCEPT !.freeblock = @ + 1, !.usedblocks = @ + 1]

(* The block of a file at fbn, allocated if it is missing.                 *)
WithDirect(s, i, fbn) ==
  IF s.din[i].addrs[fbn + 1] # 0 THEN s
  ELSE [NewBlock(s) EXCEPT !.din[i].addrs[fbn + 1] = s.freeblock]

WithEntry(s, i, k) ==
  IF s.ind[i][k + 1] # 0 THEN s
  ELSE [NewBlock(s) EXCEPT !.ind[i][k + 1] = s.freeblock]

WithIndirect(s, i, fbn) ==
  LET t == IF s.din[i].addrs[Indirect] # 0 THEN s
           ELSE [NewBlock(s) EXCEPT !.din[i].addrs[Indirect] = s.freeblock]
  IN WithEntry(t, i, fbn - NDIRECT)

(* iappend() of n bytes; ok says that its assertion and rsect() succeed.   *)
RECURSIVE iappend(_, _, _)
iappend(s, i, n) ==
  LET off == s.din[i].size
      fbn == off \div BSIZE
      n1 == IF n < (fbn + 1) * BSIZE - off THEN n ELSE (fbn + 1) * BSIZE - off
      t == IF fbn < NDIRECT THEN WithDirect(s, i, fbn) ELSE WithIndirect(s, i, fbn)
  IN IF n = 0 \/ ~s.ok THEN s
     ELSE IF fbn >= NDIRECT + NINDIRECT \/ t.freeblock > SIZE THEN [s EXCEPT !.ok = FALSE]
     ELSE iappend([t EXCEPT !.din[i].size = off + n1], i, n - n1)

Blank ==
  [din |-> [i \in Inum |-> NoInode],
   ind |-> [i \in Inum |-> [k \in 1..NINDIRECT |-> 0]],
   freeblock |-> META, usedblocks |-> META, freeinode |-> 1, ok |-> TRUE]

(* main(), up to its loop: the root directory with "." and "..".           *)
Init ==
  /\ img = iappend(iappend(ialloc(Blank, "dir"), ROOT, DIRENT), ROOT, DIRENT)
  /\ entries = 2 * DIRENT /\ bitmap = {} /\ pc = "files"

Append1(s, ok) == img' = s /\ pc' = IF s.ok THEN ok ELSE "failed"

(* A file: its inode and its entry in the root directory ...               *)
NextFile ==
  /\ pc = "files" /\ img.freeinode <= MaxFiles + 1
  /\ Append1(iappend(ialloc(img, "file"), ROOT, DIRENT), "copy")
  /\ entries' = entries + DIRENT /\ UNCHANGED bitmap

(* ... then its bytes: whole blocks, and what is left of it.               *)
CopyBlock(n) ==
  /\ pc = "copy"
  /\ Append1(iappend(img, img.freeinode - 1, n), IF n = BSIZE THEN "copy" ELSE "files")
  /\ UNCHANGED <<entries, bitmap>>

(* The root directory's size becomes a multiple of the block size, and the *)
(* bitmap is written, if one block of it is enough.                        *)
RoundedUp(off) == ((off \div BSIZE) + 1) * BSIZE
Finish ==
  /\ pc = "files" /\ pc' = IF img.usedblocks < BITS THEN "done" ELSE "failed"
  /\ img' = [img EXCEPT !.din[ROOT].size = RoundedUp(@)]
  /\ bitmap' = IF img.usedblocks < BITS THEN 0..(img.usedblocks - 1) ELSE {}
  /\ UNCHANGED entries

Exited == pc \in {"done", "failed"} /\ UNCHANGED vars

Next == NextFile \/ (\E n \in 0..BSIZE : CopyBlock(n)) \/ Finish \/ Exited
Spec == Init /\ [][Next]_vars

-----------------------------------------------------------------------------
Mapped(i, bn) ==
  IF bn < NDIRECT THEN img.din[i].addrs[bn + 1] ELSE img.ind[i][bn - NDIRECT + 1]
Places == {<<i, bn>> \in Inum \X (0..(NDIRECT + NINDIRECT - 1)) : Mapped(i, bn) # 0}
Tables == {i \in Inum : img.din[i].addrs[Indirect] # 0}
AllBlocks == {Mapped(x[1], x[2]) : x \in Places}
             \cup {img.din[i].addrs[Indirect] : i \in Tables}

(* The finished image is one that fs.c can go on from: the bitmap shows    *)
(* exactly the metadata and the blocks that files map, each mapped once    *)
(* and on the disk, and a file has exactly the blocks below its size.  The *)
(* root directory is the exception that rounding its size makes: when its  *)
(* entries end at a block boundary, one block more is below its size than  *)
(* it has.                                                                 *)
ImageSound ==
  pc = "done" =>
    /\ bitmap = (0..(META - 1)) \cup AllBlocks /\ AllBlocks \subseteq META..(SIZE - 1)
    /\ Cardinality(AllBlocks) = Cardinality(Places) + Cardinality(Tables)
    /\ \A i \in Inum, bn \in 0..(NDIRECT + NINDIRECT - 1) :
         <<i, bn>> \in Places <=>
           bn * BSIZE < IF i = ROOT THEN entries ELSE img.din[i].size
    /\ img.din[ROOT].size >= entries
    /\ img.din[ROOT].size - entries <= BSIZE
=============================================================================
