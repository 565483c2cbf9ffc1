----------------------------- MODULE MCServices -----------------------------
(* Small instances of Console, FileData, Vm, Ftable, Random, Umalloc, Sh   *)
(* and Mkfs.  The components are independent here: a behaviour runs the    *)
(* one that comp names.                                                    *)
EXTENDS Console, Random, Ftable

CONSTANTS
  Inode, Fobj, inodeOf, NB, NLOG, BPB, NDIRECT, NINDIRECT, BSIZE, LOGSIZE,
  Sizes, MaxWrites,
  NF, NSLOT, PGSIZE, PPT, NUT, NKT, Deltas, Images,
  NALLOC, TOP, HDR, Bytes,
  MAXARGS, NPROC, NPIPE, Chars, MaxLine, RunLines,
  META, SIZE, BITS, DIRENT, MaxFiles

VARIABLES
  comp,
  f_fs, f_off, f_opened, f_pend, f_writes, f_panicked,
  v_mem, v_proc, v_last, v_panicked,
  m_h, m_used, m_arena,
  s_line, s_task,
  k_img, k_entries, k_bitmap, k_pc

Fd == INSTANCE FileData WITH
  fs <- f_fs, off <- f_off, opened <- f_opened, pend <- f_pend,
  writes <- f_writes, panicked <- f_panicked
VmMem == INSTANCE Vm WITH
  mem <- v_mem, proc <- v_proc, last <- v_last, panicked <- v_panicked
Um == INSTANCE Umalloc WITH
  h <- m_h, used <- m_used, arena <- m_arena
Shell == INSTANCE Sh WITH
  line <- s_line, task <- s_task
Image == INSTANCE Mkfs WITH
  img <- k_img, entries <- k_entries, bitmap <- k_bitmap, pc <- k_pc

fvars == <<f_fs, f_off, f_opened, f_pend, f_writes, f_panicked>>
vvars == <<v_mem, v_proc, v_last, v_panicked>>
mvars == <<m_h, m_used, m_arena>>
svars == <<s_line, s_task>>
kvars == <<k_img, k_entries, k_bitmap, k_pc>>
all == <<comp, vars, fvars, vvars, ftable, generators, mvars, svars, kvars>>

MCinodeOf == [f \in Fobj |-> IF f = 3 THEN 2 ELSE 1]
Seg(v, f, m) == [vaddr |-> v, filesz |-> f, memsz |-> m]
MCImages == {<<Seg(0, 1, 1)>>, <<Seg(0, 1, 3), Seg(0, 0, 2)>>}
MCDeltas == {-3, 4}
MCzrng0 == [s \in Index |-> s]
MCStreams == {-1, 2, 3}
MCValues == {1, -8}
MCRunLines == { <<"(", "a", "|", "a", ")", "|", "a", "|", "a">>,
                <<"(", "a", "|", "a", ")", "|", "a">>,
                <<"a", "&", ";", "a", ">", "a">>,
                <<"a", "|", ">", "a", "a", "&">>, <<"a", ")">> }

MCInit ==
  /\ comp \in {"console", "filedata", "vm", "ftable", "random", "umalloc", "sh", "mkfs"}
  /\ Init
  /\ Fd!Init
  /\ VmMem!Init
  /\ FtableInit
  /\ RandomInit
  /\ Um!Init
  /\ Shell!Init
  /\ Image!Init

MCNext ==
  /\ UNCHANGED comp
  /\ \/ /\ comp = "console" /\ Next
        /\ UNCHANGED <<fvars, vvars, ftable, generators, mvars, svars, kvars>>
     \/ /\ comp = "filedata" /\ Fd!Next
        /\ UNCHANGED <<vars, vvars, ftable, generators, mvars, svars, kvars>>
     \/ /\ comp = "vm" /\ VmMem!Next
        /\ UNCHANGED <<vars, fvars, ftable, generators, mvars, svars, kvars>>
     \/ /\ comp = "ftable" /\ FtableNext
        /\ UNCHANGED <<vars, fvars, vvars, generators, mvars, svars, kvars>>
     \/ /\ comp = "random" /\ RandomNext
        /\ UNCHANGED <<vars, fvars, vvars, ftable, mvars, svars, kvars>>
     \/ /\ comp = "umalloc" /\ Um!Next
        /\ UNCHANGED <<vars, fvars, vvars, ftable, generators, svars, kvars>>
     \/ /\ comp = "sh" /\ Shell!Next
        /\ UNCHANGED <<vars, fvars, vvars, ftable, generators, mvars, kvars>>
     \/ /\ comp = "mkfs" /\ Image!Next
        /\ UNCHANGED <<vars, fvars, vvars, ftable, generators, mvars, svars>>

MCSpec == MCInit /\ [][MCNext]_all

(* FileData: blocks are allocated exactly once, and no write outgrows the  *)
(* log.                                                                    *)
BlocksExact == comp = "filedata" => Fd!BlocksExact

(* FileData: files and offsets behave as ByteFile says.                    *)
ImplementsByteFile == Fd!ImplementsByteFile

(* Vm: every page frame is accounted for, and page tables fit p->sz.       *)
MemorySound == comp = "vm" => VmMem!MemorySound

(* Vm: fork, exec and sbrk succeed or leave memory as it was.              *)
CallsAllOrNothing == VmMem!CallsAllOrNothing

(* Umalloc: free list and used blocks partition the heap.                  *)
HeapSound == comp = "umalloc" => Um!HeapSound

(* Sh: a line is parsed to what the grammar means.                         *)
ParsesGrammar == comp = "sh" => Shell!ParsesGrammar

(* Sh: processes of a pipeline hold only the pipe ends they should.        *)
EofComes == comp = "sh" => Shell!EofComes

(* Mkfs: the finished image has an exact bitmap and exact block maps.      *)
ImageSound == comp = "mkfs" => Image!ImageSound
=============================================================================
