------------------------------- MODULE Umalloc -------------------------------
(***************************************************************************)
(* The allocator of user programs (umalloc.c): a circular free list in the *)
(* order of addresses, through the static header base, which is address 0. *)
(* Addresses and sizes count headers.  h is the allocator's memory.        *)
(* Requests are below 2^31 bytes: above, the rounding of nbytes and the    *)
(* argument of sbrk() wrap, which is left out.                             *)
(***************************************************************************)
EXTENDS Integers, FiniteSets, TLC
LOCAL INSTANCE Functions

CONSTANTS
  NALLOC,   \* the least that morecore() asks for, 4096 in the code
  TOP,      \* bound: memory ends here, and sbrk() fails beyond
  HDR,      \* sizeof(Header)
  Bytes     \* sizes of requests

Addr == 0..TOP
Null == -1

VARIABLES
  h,      \* [freep, ptr, size, brk]: ptr and size are the headers
  used,   \* the blocks that the program holds, and the bytes it asked for
  arena   \* ghost: the headers that sbrk() has given to morecore()

vars == <<h, used, arena>>

-----------------------------------------------------------------------------
(* The free block, or base, after which bp goes.                           *)
RECURSIVE Before(_, _, _)
Before(m, bp, p) ==
  IF \/ bp > p /\ bp < m.ptr[p]
     \/ p >= m.ptr[p] /\ (bp > p \/ bp < m.ptr[p])
  THEN p ELSE Before(m, bp, m.ptr[p])

JoinUpper(m, bp, p) ==
  LET q == m.ptr[p] IN
  IF bp + m.size[bp] = q
  THEN [m EXCEPT !.size[bp] = @ + m.size[q], !.ptr[bp] = m.ptr[q],
                 !.size[q] = 0, !.ptr[q] = 0]
  ELSE [m EXCEPT !.ptr[bp] = q]

(* Mutant: the size of the lower neighbour is not increased. *)
JoinLowerForgets(m, bp, p) ==
  IF p + m.size[p] = bp
  THEN [m EXCEPT !.ptr[p] = m.ptr[bp], !.size[bp] = 0, !.ptr[bp] = 0, !.freep = p]
  ELSE [m EXCEPT !.ptr[p] = bp, !.freep = p]
JoinLower(m, bp, p) ==
  IF p + m.size[p] = bp
  THEN [m EXCEPT !.size[p] = @ + m.size[bp], !.ptr[p] = m.ptr[bp],
                 !.size[bp] = 0, !.ptr[bp] = 0, !.freep = p]
  ELSE [m EXCEPT !.ptr[p] = bp, !.freep = p]

FreeBlock(m, bp) ==
  LET p == Before(m, bp, m.freep) IN JoinLower(JoinUpper(m, bp, p), bp, p)

(* morecore(): m unchanged if sbrk() has no memory.                        *)
Ask(nu) == IF nu < NALLOC THEN NALLOC ELSE nu
HasCore(m, nu) == m.brk + Ask(nu) <= TOP + 1
morecore(m, nu) ==
  FreeBlock([m EXCEPT !.size[m.brk] = Ask(nu), !.brk = @ + Ask(nu)], m.brk)

(* malloc(): the search, and what is taken off the block p it ends at.     *)
(* The result is [m, p], p = 0 if there is no memory.                      *)
TakeFrom(m, prevp, p, nu) ==
  LET rest == m.size[p] - nu IN
  IF rest = 0
  THEN [m |-> [m EXCEPT !.ptr[prevp] = m.ptr[p], !.ptr[p] = 0, !.freep = prevp], p |-> p]
  ELSE [m |-> [m EXCEPT !.size[p] = rest, !.size[p + rest] = nu, !.freep = prevp],
        p |-> p + rest]

RECURSIVE Search(_, _, _, _)
Search(m, prevp, p, nu) ==
  IF m.size[p] >= nu THEN TakeFrom(m, prevp, p, nu)
  ELSE IF p # m.freep THEN Search(m, p, m.ptr[p], nu)
  ELSE IF ~HasCore(m, nu) THEN [m |-> m, p |-> 0]
  ELSE LET k == morecore(m, nu) IN Search(k, k.freep, k.ptr[k.freep], nu)

Started == IF h.freep = Null THEN [h EXCEPT !.freep = 0] ELSE h

nunits(nbytes) == ((nbytes + HDR - 1) \div HDR) + 1

malloc(nbytes) ==
  LET r == Search(Started, Started.freep, Started.ptr[Started.freep], nunits(nbytes)) IN
  /\ h' = r.m
  /\ used' = IF r.p = 0 THEN used ELSE used @@ (r.p :> nbytes)
  /\ arena' = arena \cup (h.brk..(r.m.brk - 1))

free(bp) ==
  /\ bp \in DOMAIN used
  /\ h' = FreeBlock(h, bp) /\ UNCHANGED arena
  /\ used' = Restrict(used, DOMAIN used \ {bp})

(* The program calls sbrk() itself, which leaves a gap.                    *)
Gap ==
  /\ h.brk < TOP /\ h' = [h EXCEPT !.brk = @ + 1] /\ UNCHANGED <<used, arena>>

Init ==
  /\ h = [freep |-> Null, brk |-> 1,
          ptr |-> [a \in Addr |-> 0], size |-> [a \in Addr |-> 0]]
  /\ used = << >> /\ arena = {}

Next == \/ \E nbytes \in Bytes : malloc(nbytes)
        \/ \E bp \in DOMAIN used : free(bp)
        \/ Gap

Spec == Init /\ [][Next]_vars

-----------------------------------------------------------------------------
(* The free blocks, following the list from base.                          *)
RECURSIVE ListFrom(_)
ListFrom(p) == IF p = 0 THEN {} ELSE {p} \cup ListFrom(h.ptr[p])
FreeBlocks == ListFrom(h.ptr[0])
Extent(b) == b..(b + h.size[b] - 1)

(* The heap is sound after any calls of malloc() and free(): the blocks    *)
(* that the program holds and those on the free list make up all of the    *)
(* memory and do not overlap, the list is in the order of addresses,       *)
(* neighbours that are both free have been joined, and every block has     *)
(* room for what was asked and less than a header more.                    *)
HeapSound ==
  LET all == DOMAIN used \cup FreeBlocks IN
  /\ DOMAIN used \cap FreeBlocks = {} /\ 0 \notin all
  /\ \A b \in DOMAIN used : (h.size[b] - 1) * HDR - used[b] \in 0..(HDR - 1)
  /\ UNION {Extent(b) : b \in all} = arena
  /\ \A b, c \in all : b # c => Extent(b) \cap Extent(c) = {}
  /\ \A b \in FreeBlocks : h.ptr[b] > b \/ h.ptr[b] = 0
  /\ \A b \in FreeBlocks : b + h.size[b] \notin FreeBlocks
  /\ h.freep # Null => h.freep \in FreeBlocks \cup {0}
=============================================================================
