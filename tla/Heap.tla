-------------------------------- MODULE Heap --------------------------------
(***************************************************************************)
(* The heap of kernel/memory/memory.c: two regions, each a sequence of     *)
(* blocks that begin with a struct heap_block.  A region has two lists of  *)
(* blocks, block_list and free_list, threaded through the same next and    *)
(* prev fields of the headers; the functions below are the code's, from a  *)
(* heap to a heap, in the code's order of assignments.                     *)
(*                                                                         *)
(* Addresses are bytes and NULL is 0.  Every function runs under heap_lock *)
(* (module Sync) and is one step, except krealloc, which releases the lock *)
(* before it moves a block.  Callers free or reallocate only pointers they *)
(* were given and have not freed.  The magic numbers are always right      *)
(* under that discipline and are left out, like the contents of blocks.    *)
(***************************************************************************)
EXTENDS Integers, FiniteSets, TLC

CONSTANTS
  Start, End,     \* the bounds of each region, functions of "internal", "psram"
  Header,         \* sizeof(struct heap_block), 20
  HEAP_MIN_BLOCK, \* 16
  HEAP_ALIGN,     \* 8
  WordMod,        \* the width of the counters, 2^32 in the code
  Sizes,          \* the sizes callers ask for
  MaxLive         \* bound on the pointers callers hold

Regions == {"internal", "psram"}

VARIABLES
  heap,   \* the regions' lists and counters, and the block headers
  live,   \* the pointers callers hold
  moving  \* the calls of krealloc that have released the lock to move a block

heapvars == <<heap, live, moving>>

NULL == 0

-----------------------------------------------------------------------------
(* The lists.                                                              *)

SetNext(h, b, n) == IF b = NULL THEN h ELSE [h EXCEPT !.hdr[b].next = n]
SetPrev(h, b, p) == IF b = NULL THEN h ELSE [h EXCEPT !.hdr[b].prev = p]
SetSize(h, b, s) == [h EXCEPT !.hdr[b].size = s]

\* r->used and r->free change by u and f, as unsigned words.
Count(h, r, u, f) == [h EXCEPT !.used[r] = (@ + u) % WordMod,
                               !.free[r] = (@ + f) % WordMod]

region_add_block(h, r, b) ==
  [SetPrev(SetNext(h, b, h.block_list[r]), h.block_list[r], b)
     EXCEPT !.block_list[r] = b]

region_add_free(h, r, b) ==
  [SetPrev(SetPrev(SetNext(h, b, h.free_list[r]), b, NULL), h.free_list[r], b)
     EXCEPT !.free_list[r] = b]

region_remove_free(h, r, b) ==
  LET n == h.hdr[b].next
      p == h.hdr[b].prev
      u == SetPrev(SetNext(h, p, n), n, p)
  IN [u EXCEPT !.free_list[r] = IF @ = b THEN n ELSE @,
               !.hdr[b].next = NULL, !.hdr[b].prev = NULL]

\* The blocks that region_find_free can return: the smallest that suffice of
\* those reached from free_list, the first of them in the list's order.
region_find_free(h, r, size) ==
  LET walk[b \in DOMAIN h.hdr \union {NULL}] ==
        IF b = NULL THEN NULL
        ELSE LET best == walk[h.hdr[b].next]
                 fits == h.hdr[b].free /\ h.hdr[b].size >= size
             IN IF fits /\ (best = NULL \/ h.hdr[b].size <= h.hdr[best].size)
                  THEN b ELSE best
  IN walk[h.free_list[r]]

\* Whether what is left of a block is worth a block of its own.
Splits(h, b, size) == h.hdr[b].size >= size + Header + HEAP_MIN_BLOCK

region_split_block(h, r, b, size) ==
  IF ~Splits(h, b, size) THEN h
  ELSE LET new  == b + Header + size
           next == h.hdr[b].next
           rest == h.hdr[b].size - size - Header
           made == [h EXCEPT !.hdr = (new :> [size |-> rest, free |-> TRUE,
                                              region |-> h.hdr[b].region,
                                              next |-> next, prev |-> b]) @@ @]
           cut  == SetSize(SetNext(SetPrev(made, next, new), b, new), b, size)
       IN Count(region_add_free(region_add_block(cut, r, new), r, new), r,
                0, rest + Header)

\* The first half of region_coalesce: absorb the block at next, which is read
\* again after it has been taken off the free list.
AbsorbNext(h, r, b) ==
  LET n == h.hdr[b].next IN
  IF n = NULL \/ ~h.hdr[n].free THEN h
  ELSE LET u == region_remove_free(h, r, n)
           a == u.hdr[b].next
           m == u.hdr[a].next
       IN SetPrev(SetNext(SetSize(u, b, u.hdr[b].size + Header + u.hdr[a].size), b, m),
                  m, b)

\* The second half: be absorbed by the block at prev, and go on the free list.
region_coalesce(h0, r, b) ==
  LET h == AbsorbNext(h0, r, b)
      p == h.hdr[b].prev
      n == h.hdr[b].next
  IN IF p = NULL \/ ~h.hdr[p].free THEN region_add_free(h, r, b)
     ELSE LET u == region_remove_free(h, r, p)
              v == SetSize(u, p, u.hdr[p].size + Header + u.hdr[b].size)
          IN region_add_free(SetPrev(SetNext(v, p, n), n, p), r, p)

-----------------------------------------------------------------------------
(* The operations.                                                         *)

\* One free block in each region; the second region's is one header short.
memory_init ==
  LET size == [r \in Regions |-> End[r] - Start[r]
                                   - (IF r = "psram" THEN 2 ELSE 1) * Header]
  IN [hdr |-> [b \in {Start[r] : r \in Regions} |->
                 LET r == CHOOSE s \in Regions : Start[s] = b IN
                 [size |-> size[r], free |-> TRUE, region |-> r,
                  next |-> NULL, prev |-> NULL]],
      free_list |-> Start, block_list |-> Start,
      used |-> [r \in Regions |-> 0], free |-> size]

HeapInit ==
  /\ heap = memory_init
  /\ live = {}
  /\ moving = {}

Aligned(size) == ((size + HEAP_ALIGN - 1) \div HEAP_ALIGN) * HEAP_ALIGN

\* region_alloc: the heap after it, given the block that was found.
region_alloc(r, b, size) ==
  LET h == region_split_block(region_remove_free(heap, r, b), r, b, size)
      all == h.hdr[b].size + Header
  IN Count([h EXCEPT !.hdr[b].free = FALSE], r, all, -all)

\* An allocation from region r; with no block found it returns NULL.
Allocate(r, size) ==
  /\ Cardinality(live) < MaxLive
  /\ LET b == region_find_free(heap, r, Aligned(size)) IN
     /\ b # NULL
     /\ heap' = region_alloc(r, b, Aligned(size))
     /\ live' = live \union {b + Header}
  /\ UNCHANGED moving

\* kmalloc and kzalloc, kmalloc_psram and kzalloc_psram.
kmalloc(size) == Allocate("internal", size)
kmalloc_psram(size) == Allocate("psram", size)

\* The pointers a call of krealloc is busy with; nobody else uses them.
InMove == {m.ptr : m \in moving} \union {m.to : m \in moving}

\* The heap after kfree of ptr.
Freed(h, ptr) ==
  LET b == ptr - Header
      r == h.hdr[b].region
      all == h.hdr[b].size + Header
  IN region_coalesce(Count([h EXCEPT !.hdr[b].free = TRUE], r, -all, all), r, b)

kfree(ptr) ==
  /\ ptr \notin InMove
  /\ heap' = Freed(heap, ptr)
  /\ live' = live \ {ptr}
  /\ UNCHANGED moving

\* krealloc in place: the block is large enough, or the block at next is free
\* and together they are.
krealloc(ptr, size) ==
  LET b == ptr - Header
      r == heap.hdr[b].region
      n == heap.hdr[b].next
      s == Aligned(size)
      both == heap.hdr[b].size + Header + heap.hdr[n].size
      grown == region_split_block(SetSize(region_remove_free(heap, r, n), b, both), r, b, s)
      grows == IF n = NULL THEN FALSE ELSE heap.hdr[n].free /\ both >= s
  IN /\ ptr \notin InMove
     /\ \/ /\ heap.hdr[b].size >= s
           /\ heap' = region_split_block(heap, r, b, s)
           /\ UNCHANGED moving
        \/ /\ heap.hdr[b].size < s
           /\ grows
           /\ heap' = Count(grown, r, grown.hdr[b].size, -grown.hdr[b].size)
           /\ UNCHANGED moving
        \/ /\ heap.hdr[b].size < s
           /\ ~grows
           /\ moving' = moving \union {[ptr |-> ptr, size |-> s, to |-> NULL]}
           /\ UNCHANGED heap
     /\ UNCHANGED live

\* The rest of krealloc, each call under the lock anew: kmalloc in the internal
\* region, and after the copy kfree of the old block.
ReallocAlloc(m) ==
  LET b == region_find_free(heap, "internal", m.size) IN
  /\ m.to = NULL
  /\ \/ /\ b = NULL
        /\ moving' = moving \ {m}
        /\ UNCHANGED <<heap, live>>
     \/ /\ b # NULL
        /\ heap' = region_alloc("internal", b, m.size)
        /\ live' = live \union {b + Header}
        /\ moving' = (moving \ {m}) \union {[m EXCEPT !.to = b + Header]}

ReallocFree(m) ==
  /\ m.to # NULL
  /\ heap' = Freed(heap, m.ptr)
  /\ live' = live \ {m.ptr}
  /\ moving' = moving \ {m}

HeapNext ==
  \/ \E size \in Sizes : kmalloc(size) \/ kmalloc_psram(size)
  \/ \E ptr \in live : kfree(ptr) \/ \E size \in Sizes : krealloc(ptr, size)
  \/ \E m \in moving : ReallocAlloc(m) \/ ReallocFree(m)

HeapSpec == HeapInit /\ [][HeapNext]_heapvars

-----------------------------------------------------------------------------
(* Properties.                                                             *)

\* The bytes of a block's data.
Extent(ptr) == ptr .. ptr + heap.hdr[ptr - Header].size - 1

\* ARCHITECTURE.md: "Two-region allocator: internal DRAM + PSRAM" with
\* "splitting and coalescing".  What callers hold lies inside the region it was
\* taken from, and no two allocations share a byte.
AllocationsDisjoint ==
  \A ptr \in live :
    LET r == heap.hdr[ptr - Header].region IN
    /\ ptr >= Start[r] /\ ptr + heap.hdr[ptr - Header].size <= End[r]
    /\ \A other \in live \ {ptr} : Extent(ptr) \cap Extent(other) = {}
=============================================================================
