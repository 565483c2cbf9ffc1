--------------------------------- MODULE Vm ---------------------------------
(***************************************************************************)
(* Physical pages (kalloc.c), page tables and user memory (vm.c), and the  *)
(* calls that build, copy, resize and free a process's memory: fork, exec, *)
(* sbrk (growproc) and wait.                                               *)
(*                                                                         *)
(* The operators take and give a machine m = [free, lost, pg, ...]: how    *)
(* many page frames are on kmem.freelist, how many nobody refers to any    *)
(* more (a ghost), and the page table being worked on.  Each call is one   *)
(* step: address spaces are private and only the length of the free list,  *)
(* which every call meets at every length, decides where memory runs out;  *)
(* that another process frees pages between two kalloc() of one call is    *)
(* left out.                                                               *)
(***************************************************************************)
EXTENDS Integers, Sequences, FiniteSets, FiniteSetsExt

CONSTANTS
  NF,       \* page frames
  NSLOT,    \* process slots are 1..NSLOT; 1 is the first process
  PGSIZE,   \* bytes in a page
  PPT,      \* NPTENTRIES, user pages per page table
  NUT,      \* page directory entries below KERNBASE
  NKT,      \* page tables of the kernel's part
  Deltas,   \* arguments of sbrk
  Images    \* programs: sequences of segments [vaddr, filesz, memsz], with
            \* vaddr a multiple of PGSIZE and filesz <= memsz

Slot == 1..NSLOT
Tab == 0..(NUT - 1)
Page == 0..(NUT * PPT - 1)
KERNBASE == NUT * PPT * PGSIZE

VARIABLES
  mem,      \* [free, lost]
  proc,     \* per slot: [state, pg, sz]; pg is its page table
  last,     \* the last call: [slot, ok]
  panicked

vars == <<mem, proc, last, panicked>>

(* A page table: whether it has a directory, the user part's tables, the   *)
(* number of the kernel part's, the user pages that are mapped and those   *)
(* without PTE_U; holed: a ghost, allocuvm() counted a page it did not map.*)
NoPg == [dir |-> 0, tab |-> {}, ktab |-> 0, pte |-> {}, nouser |-> {}, holed |-> FALSE]
Unused == [state |-> "UNUSED", pg |-> NoPg, sz |-> 0]

PGROUNDUP(sz) == ((sz + PGSIZE - 1) \div PGSIZE) * PGSIZE
PDX(a) == a \div PPT

-----------------------------------------------------------------------------
(* kalloc(): ok says whether there was a page.  kfree() of n pages.         *)
kalloc(m) == [m EXCEPT !.ok = m.free > 0, !.free = IF @ > 0 THEN @ - 1 ELSE 0]
kfree(m, n) == [m EXCEPT !.free = @ + n]
Lose(m, n) == [m EXCEPT !.lost = @ + n]

(* mappages() of one user page, with walkpgdir()'s table if it is missing. *)
mappages(m, a, user) ==
  LET k == IF PDX(a) \in m.pg.tab THEN [m EXCEPT !.ok = TRUE] ELSE kalloc(m) IN
  IF ~k.ok THEN k
  ELSE IF a \in m.pg.pte THEN [m EXCEPT !.panic = "remap"]
  ELSE [k EXCEPT !.pg.tab = @ \cup {PDX(a)}, !.pg.pte = @ \cup {a},
                 !.pg.nouser = IF user THEN @ \ {a} ELSE @ \cup {a}]

(* setupkvm(): what it had allocated is lost when it fails.                *)
RECURSIVE KernTables(_, _)
KernTables(m, n) ==
  LET k == kalloc(m) IN
  IF n = 0 THEN m
  ELSE IF ~k.ok THEN [Lose(k, m.pg.ktab + 1) EXCEPT !.pg = NoPg]
  ELSE KernTables([k EXCEPT !.pg.ktab = @ + 1], n - 1)

setupkvm(m) ==
  LET k == kalloc(m) IN
  IF ~k.ok THEN [k EXCEPT !.pg = NoPg]
  ELSE KernTables([k EXCEPT !.pg = [NoPg EXCEPT !.dir = 1]], NKT)

(* deallocuvm(): from page a, over missing tables by a whole table.        *)
RECURSIVE UnmapFrom(_, _, _)
UnmapFrom(m, a, oldsz) ==
  IF a * PGSIZE >= oldsz THEN m
  ELSE IF PDX(a) \notin m.pg.tab THEN UnmapFrom(m, a + PPT, oldsz)
  ELSE UnmapFrom([kfree(m, IF a \in m.pg.pte THEN 1 ELSE 0)
                    EXCEPT !.pg.pte = @ \ {a}, !.pg.nouser = @ \ {a}], a + 1, oldsz)

FirstToUnmap(newsz) == PGROUNDUP(newsz) \div PGSIZE

deallocuvm(m, oldsz, newsz) ==
  IF newsz >= oldsz THEN [m EXCEPT !.sz = oldsz]
  ELSE [UnmapFrom(m, FirstToUnmap(newsz), oldsz) EXCEPT !.sz = newsz]

(* allocuvm(): the result of mappages() is not looked at.                  *)
MapNew(m, a) ==
  LET n == mappages(kalloc(m), a, TRUE) IN
  IF n.panic # "no" \/ n.ok THEN n
  ELSE [Lose(n, 1) EXCEPT !.ok = TRUE, !.pg.holed = TRUE]

(* Mutant: running out of memory gives back all of the memory. *)
AllocFailedAll(m, newsz, oldsz) == [deallocuvm(m, newsz, 0) EXCEPT !.sz = 0]
AllocFailed(m, newsz, oldsz) == [deallocuvm(m, newsz, oldsz) EXCEPT !.sz = 0]

RECURSIVE AllocFrom(_, _, _, _)
AllocFrom(m, a, oldsz, newsz) ==
  IF m.panic # "no" THEN m
  ELSE IF a * PGSIZE >= newsz THEN [m EXCEPT !.sz = newsz]
  ELSE IF ~kalloc(m).ok THEN AllocFailed(m, newsz, oldsz)
  ELSE AllocFrom(MapNew(m, a), a + 1, oldsz, newsz)

allocuvm(m, oldsz, newsz) ==
  IF newsz >= KERNBASE THEN [m EXCEPT !.sz = 0]
  ELSE IF newsz < oldsz THEN [m EXCEPT !.sz = oldsz]
  ELSE AllocFrom(m, PGROUNDUP(oldsz) \div PGSIZE, oldsz, newsz)

Tables(pg) == Cardinality(pg.tab) + pg.ktab

freevm(m) ==
  LET u == UnmapFrom(m, 0, KERNBASE) IN
  [kfree(u, Tables(m.pg) + 1) EXCEPT !.pg = NoPg]

(* copyuvm(): a page that mappages() does not map is lost.                 *)
UserBit(src, a) == a \notin src.nouser

RECURSIVE CopyFrom(_, _, _, _)
CopyFrom(m, src, a, sz) ==
  LET k == kalloc(m)  n == mappages(k, a, UserBit(src, a)) IN
  IF a * PGSIZE >= sz THEN [m EXCEPT !.ok = TRUE]
  ELSE IF PDX(a) \notin src.tab THEN [m EXCEPT !.panic = "copyuvm: pte should exist"]
  ELSE IF a \notin src.pte THEN [m EXCEPT !.panic = "copyuvm: page not present"]
  ELSE IF ~k.ok THEN [freevm(m) EXCEPT !.ok = FALSE]
  ELSE IF ~n.ok THEN [freevm(Lose(n, 1)) EXCEPT !.ok = FALSE]
  ELSE CopyFrom(n, src, a + 1, sz)

copyuvm(m, src, sz) ==
  LET s == setupkvm(m) IN IF s.ok THEN CopyFrom(s, src, 0, sz) ELSE s
-----------------------------------------------------------------------------
Machine(pg) == [free |-> mem.free, lost |-> mem.lost, pg |-> pg,
                ok |-> TRUE, sz |-> 0, panic |-> "no"]

(* A call by slot p ends with machine m: as a panic, or with the slots q.  *)
Finish(p, m, ok, q) ==
  IF m.panic # "no"
  THEN panicked' = m.panic /\ UNCHANGED <<mem, proc, last>>
  ELSE /\ mem' = [free |-> m.free, lost |-> m.lost]
       /\ proc' = q
       /\ last' = [slot |-> p, ok |-> ok]
       /\ UNCHANGED panicked

Running(p) == proc[p].state = "RUNNING" /\ panicked = "no"

(* fork(): a kernel stack (allocproc), then a copy of the memory.          *)
(* Mutant: a fork that fails keeps the kernel stack. *)
StackBackNone(m) == m
StackBack(m) == kfree(m, 1)

fork(p, c) ==
  LET k == kalloc(Machine(NoPg))
      m == copyuvm(k, proc[p].pg, proc[p].sz)
  IN
  /\ Running(p) /\ proc[c].state = "UNUSED"
  /\ IF ~k.ok THEN Finish(p, k, FALSE, proc)
     ELSE IF ~m.ok THEN Finish(p, StackBack(m), FALSE, proc)
     ELSE Finish(p, m, TRUE,
            [proc EXCEPT ![c] = [state |-> "RUNNING", pg |-> m.pg,
                                 sz |-> proc[p].sz]])

(* growproc().  A process shrunk to nothing is told so with -1 and a stale *)
(* size, and cannot run user code again: its next instruction faults.      *)
growproc(p, n) ==
  LET sz == proc[p].sz
      m == IF n > 0 THEN allocuvm(Machine(proc[p].pg), sz, sz + n)
           ELSE IF sz + n < 0 THEN [Machine(proc[p].pg) EXCEPT !.sz = sz]
           ELSE deallocuvm(Machine(proc[p].pg), sz, sz + n)
  IN
  /\ Running(p)
  /\ IF m.sz = 0
     THEN Finish(p, m, FALSE, [proc EXCEPT ![p].pg = m.pg,
                                 ![p].state = IF n < 0 THEN "FAULTS" ELSE @])
     ELSE Finish(p, m, TRUE, [proc EXCEPT ![p].pg = m.pg, ![p].sz = m.sz])

(* exec(): the segments, each as far as it fits the memory so far, then a  *)
(* guard page and a stack page.  bad is an error found on the way: in the  *)
(* file, after some of the segments, or in the arguments.                  *)
Loaded(seg) == {(seg.vaddr \div PGSIZE) + k : k \in 0..((seg.filesz - 1) \div PGSIZE)}

RECURSIVE Segments(_, _, _)
Segments(m, segs, n) ==
  IF n > Len(segs) \/ ~m.ok \/ m.panic # "no" THEN m
  ELSE LET a == allocuvm(m, m.sz, segs[n].vaddr + segs[n].memsz)
       IN IF a.sz = 0 THEN [a EXCEPT !.ok = FALSE]
          ELSE IF a.panic = "no" /\ \E g \in Loaded(segs[n]) : PDX(g) \notin a.pg.tab
               THEN [a EXCEPT !.panic = "loaduvm: address should exist"]
          ELSE Segments(a, segs, n + 1)

(* uva2ka(), called by copyout() for the stack page, uses the null pointer *)
(* that walkpgdir() returns if the table is missing: it takes what the     *)
(* caller has at address 0 for a page table entry.  That is not one, and   *)
(* exec() fails, or else it names some page, and the model ends there.     *)
Stack(m, word0) ==
  LET top == PGROUNDUP(m.sz)
      a == allocuvm(m, top, top + 2 * PGSIZE)
      guard == (a.sz \div PGSIZE) - 2
  IN IF a.sz = 0 THEN [a EXCEPT !.ok = FALSE]
     ELSE IF PDX(guard) \notin a.pg.tab THEN [a EXCEPT !.panic = "clearpteu"]
     ELSE IF PDX(guard + 1) \notin a.pg.tab /\ word0 = "pte"
          THEN [a EXCEPT !.panic = "uva2ka: null pointer"]
     ELSE [a EXCEPT !.pg.nouser = @ \cup {guard},
                    !.ok = guard + 1 \in a.pg.pte]

exec(p, segs, bad, word0) ==
  LET k == setupkvm(Machine(NoPg))
      s == Segments(k, segs, 1)
      t == IF s.ok /\ s.panic = "no" /\ bad # "file" THEN Stack(s, word0) ELSE s
      old == freevm([t EXCEPT !.pg = proc[p].pg])
  IN
  /\ Running(p)
  /\ IF ~k.ok THEN Finish(p, k, FALSE, proc)
     ELSE IF t.panic # "no" THEN Finish(p, t, FALSE, proc)
     ELSE IF ~t.ok \/ bad # "no" THEN Finish(p, freevm(t), FALSE, proc)
     ELSE Finish(p, old, TRUE, [proc EXCEPT ![p].pg = t.pg, ![p].sz = t.sz])

(* exit() and the wait() of the parent, which frees stack and memory.      *)
wait(p, c) ==
  LET m == freevm(Machine(proc[c].pg)) IN
  /\ panicked = "no" /\ c # 1 /\ p = 1 /\ proc[c].state \in {"RUNNING", "FAULTS"}
  /\ Finish(p, kfree(m, 1), TRUE, [proc EXCEPT ![c] = Unused])

(* The first process must not exit.                                        *)
InitExits ==
  /\ panicked = "no" /\ proc[1].state = "FAULTS"
  /\ panicked' = "init exiting" /\ UNCHANGED <<mem, proc, last>>

(* userinit() and inituvm(): one page of memory.                           *)
Init ==
  LET k == setupkvm(kalloc([free |-> NF, lost |-> 0, pg |-> NoPg,
                            ok |-> TRUE, sz |-> 0, panic |-> "no"]))
      u == allocuvm(k, 0, PGSIZE)
  IN
  /\ mem = [free |-> u.free, lost |-> 0]
  /\ proc = [p \in Slot |-> IF p = 1 THEN [state |-> "RUNNING", pg |-> u.pg,
                                           sz |-> PGSIZE]
                            ELSE Unused]
  /\ last = [slot |-> 1, ok |-> TRUE] /\ panicked = "no"

Halted == panicked # "no" /\ UNCHANGED vars

Next ==
  \/ \E p, c \in Slot : fork(p, c) \/ wait(p, c)
  \/ \E p \in Slot, n \in Deltas : growproc(p, n)
  \/ \E p \in Slot, segs \in Images, bad \in {"no", "file", "args"}, word0 \in {"pte", "other"} :
       exec(p, segs, bad, word0)
  \/ InitExits \/ Halted

Spec == Init /\ [][Next]_vars

-----------------------------------------------------------------------------
(* The pages of a slot: its memory and tables, and the kernel stack.       *)
PagesOf(p) ==
  IF proc[p].state = "UNUSED" THEN 0
  ELSE 2 + Tables(proc[p].pg) + Cardinality(proc[p].pg.pte)

(* Every page frame is free, in use once, or was lost in one of three      *)
(* places when memory ran out: no call, wherever it fails, frees a page    *)
(* twice or forgets one elsewhere, and a slot that is free holds nothing.  *)
Accounting ==
  /\ mem.free + mem.lost + MapThenSumSet(PagesOf, Slot) = NF
  /\ \A p \in Slot : proc[p].state = "UNUSED" => proc[p] = Unused

(* Page tables fit the size: unless allocuvm() once counted a page that it *)
(* did not map, a process has exactly the pages below its size, and only   *)
(* then can copyuvm() or mappages() panic over a page missing or there.    *)
PagesFitSize ==
  /\ \A p \in Slot : proc[p].state = "RUNNING" /\ ~proc[p].pg.holed =>
       proc[p].pg.pte = {a \in Page : a * PGSIZE < proc[p].sz}
  /\ panicked \in {"remap", "copyuvm: pte should exist", "copyuvm: page not present"}
       => \E p \in Slot : proc[p].pg.holed

(* Physical memory is accounted for and page tables say what p->sz says.   *)
MemorySound == Accounting /\ PagesFitSize

(* What slot p has mapped of its size, and what of it user code may not use.*)
Below(p) == {a \in proc[p].pg.pte : a * PGSIZE < proc[p].sz}
NoUser(p) == proc[p].pg.nouser \cap Below(p)

(* A call that fails leaves its caller's memory as it was and gives no     *)
(* other process any: sbrk, exec and fork undo what they did before they   *)
(* ran out of memory.  Two failures do not come back: exec may stop the    *)
(* machine or, through uva2ka()'s null pointer, write anywhere, and sbrk   *)
(* down to nothing leaves a caller that cannot run.  A fork that succeeds gives the child its parent's   *)
(* pages, the guard page below the stack as inaccessible as it was.        *)
CallsAllOrNothing ==
  [][/\ \A p \in Slot :
          last' = [slot |-> p, ok |-> FALSE] /\ proc'[p].state # "FAULTS" =>
            /\ proc'[p].sz = proc[p].sz
            /\ Below(p)' = Below(p) /\ NoUser(p)' = NoUser(p)
            /\ \A c \in Slot \ {p} : proc'[c] = proc[c]
     /\ \A c \in Slot : proc[c].state = "UNUSED" /\ proc'[c].state # "UNUSED" =>
          \E p \in Slot : /\ proc'[c].sz = proc[p].sz
                          /\ proc'[c].pg.pte = Below(p)
                          /\ proc'[c].pg.nouser = NoUser(p)]_vars
=============================================================================
