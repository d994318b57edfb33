-------------------------------- MODULE Heap --------------------------------
(***************************************************************************)
(* The kernel heap (src/heap.rs): a linked list of blocks, each a header   *)
(* and its payload, that grows by pages from the PMM.  kmalloc and kfree   *)
(* run with HEAP_LOCK held, interrupts off: nobody else enters in between. *)
(* kmalloc is one action; kfree is one action that starts coalesce(), and  *)
(* one action per turn of its loop.                                        *)
(***************************************************************************)
EXTENDS Integers, FiniteSets

CONSTANTS
  HEAP_START, VMM_PAGE_SIZE, HEADER_SIZE, MIN_SPLIT,
  HEAP_INITIAL_PAGES, HEAP_MAX_PAGES,
  GROW_PAGES,    \* 16: the least kmalloc grows the heap by
  ALIGN,         \* 8: what sizes are rounded up to
  Sizes,         \* the sizes callers ask for
  FrameCounts    \* how many pages the PMM may have when the heap starts

ASSUME HeapAssumption ==
  /\ HEAP_START \in Nat \ {0} /\ HEADER_SIZE \in Nat \ {0} /\ MIN_SPLIT \in Nat \ {0}
  /\ VMM_PAGE_SIZE \in Nat /\ VMM_PAGE_SIZE > HEADER_SIZE
  /\ HEAP_INITIAL_PAGES \in Nat \ {0} /\ HEAP_MAX_PAGES \in Nat
  /\ GROW_PAGES \in Nat \ {0} /\ ALIGN \in Nat \ {0}
  /\ HEAP_INITIAL_PAGES <= HEAP_MAX_PAGES
  /\ Sizes \subseteq Nat \ {0} /\ FrameCounts \subseteq Nat

Null == 0

VARIABLES
  blk,           \* the headers on the list: address -> [size, is_free, next]
  HEAP_HEAD,
  HEAP_PAGES,
  frames,        \* pages the PMM has left
  cur,           \* coalesce()'s cursor, Null outside kfree
  live,          \* history: what callers have: pointer -> size asked for
  failed         \* history: the request kmalloc has just refused, or 0

vars == <<blk, HEAP_HEAD, HEAP_PAGES, frames, cur, live, failed>>

Addrs == DOMAIN blk
EndOf(b, a) == a + HEADER_SIZE + b[a].size
Top == HEAP_START + HEAP_PAGES * VMM_PAGE_SIZE

Header(size, free, next) == [size |-> size, is_free |-> free, next |-> next]

-----------------------------------------------------------------------------
\* expand_heap(pages): how many of the pages the PMM still has.
Mapped(pages) == IF pages <= frames THEN pages ELSE frames

Expandable(pages) == HEAP_PAGES + pages <= HEAP_MAX_PAGES /\ Mapped(pages) > 0

\* Mutant: the new block claims the whole of its pages, its header included.
NewSizeOver(mapped) == mapped * VMM_PAGE_SIZE

NewSize(mapped) == mapped * VMM_PAGE_SIZE - HEADER_SIZE

\* The list after expand_heap: one free block over the new pages at its tail.
Expanded(mapped) ==
  [a \in Addrs \cup {Top} |->
     IF a = Top THEN Header(NewSize(mapped), TRUE, Null)
     ELSE IF blk[a].next = Null THEN [blk[a] EXCEPT !.next = Top]
     ELSE blk[a]]

Init ==
  \E f \in FrameCounts :
    LET m == IF HEAP_INITIAL_PAGES <= f THEN HEAP_INITIAL_PAGES ELSE f IN
    /\ HEAP_PAGES = m /\ frames = f - m
    /\ IF m = 0 THEN HEAP_HEAD = Null /\ blk = [a \in {} |-> Header(0, FALSE, Null)]
       ELSE HEAP_HEAD = HEAP_START /\ blk = [a \in {HEAP_START} |-> Header(NewSize(m), TRUE, Null)]
    /\ cur = Null /\ live = [p \in {} |-> 0] /\ failed = 0

-----------------------------------------------------------------------------
Aligned(size) == ((size + ALIGN - 1) \div ALIGN) * ALIGN

\* Mutant: a free block is taken whatever its size.
FitsAny(b, a, n) == b[a].is_free

\* Mutant: an exact fit is not taken.
FitsLarger(b, a, n) == b[a].is_free /\ b[a].size > n

Fits(b, a, n) == b[a].is_free /\ b[a].size >= n

\* First fit; the list is in address order (Tiled).
FirstFit(b, a, n) ==
  a \in DOMAIN b /\ Fits(b, a, n) /\ \A c \in DOMAIN b : c < a => ~Fits(b, c, n)

Rest(size, n) == size - n - HEADER_SIZE

\* try_alloc: take block a, and split it if the rest is worth a block.
Taken(b, a, n) ==
  IF b[a].size >= n + HEADER_SIZE + MIN_SPLIT
  THEN LET s == a + HEADER_SIZE + n IN
       [c \in DOMAIN b \cup {s} |->
          IF c = s THEN Header(Rest(b[a].size, n), TRUE, b[a].next)
          ELSE IF c = a THEN Header(n, FALSE, s)
          ELSE b[c]]
  ELSE [b EXCEPT ![a].is_free = FALSE]

Give(a, size) == live' = [p \in DOMAIN live \cup {a + HEADER_SIZE} |->
                            IF p = a + HEADER_SIZE THEN size ELSE live[p]]

NeedPages(n) ==
  LET p == (n + HEADER_SIZE + VMM_PAGE_SIZE - 1) \div VMM_PAGE_SIZE IN
  IF p < GROW_PAGES THEN GROW_PAGES ELSE p

NoFit(b, n) == \A a \in DOMAIN b : ~Fits(b, a, n)

\* kmalloc finds a block.
KmallocFit(size) ==
  /\ cur = Null
  /\ \E a \in Addrs :
       /\ FirstFit(blk, a, Aligned(size))
       /\ blk' = Taken(blk, a, Aligned(size))
       /\ Give(a, size)
  /\ failed' = 0
  /\ UNCHANGED <<HEAP_HEAD, HEAP_PAGES, frames, cur>>

\* No block, but the heap grows; the retry may still find none, when the PMM had
\* fewer pages than asked for.
KmallocGrow(size) ==
  LET n == Aligned(size)
      m == Mapped(NeedPages(n))
      b == Expanded(m)
  IN /\ cur = Null /\ NoFit(blk, n) /\ Expandable(NeedPages(n))
     /\ HEAP_PAGES' = HEAP_PAGES + m /\ frames' = frames - m
     /\ HEAP_HEAD' = IF HEAP_HEAD = Null THEN Top ELSE HEAP_HEAD
     /\ \/ \E a \in DOMAIN b : /\ FirstFit(b, a, n)
                               /\ blk' = Taken(b, a, n) /\ Give(a, size) /\ failed' = 0
        \/ NoFit(b, n) /\ blk' = b /\ failed' = size /\ UNCHANGED live
     /\ UNCHANGED cur

\* No block and expand_heap refuses: kmalloc returns null.
KmallocFails(size) ==
  /\ cur = Null /\ NoFit(blk, Aligned(size)) /\ ~Expandable(NeedPages(Aligned(size)))
  /\ failed' = size
  /\ UNCHANGED <<blk, HEAP_HEAD, HEAP_PAGES, frames, cur, live>>

\* kfree of a pointer its caller has: the block becomes free, coalesce() begins.
Kfree(p) ==
  LET a == p - HEADER_SIZE IN
  /\ cur = Null /\ a \in Addrs /\ ~blk[a].is_free
  /\ blk' = [blk EXCEPT ![a].is_free = TRUE]
  /\ live' = [q \in DOMAIN live \ {p} |-> live[q]]
  /\ cur' = HEAP_HEAD /\ failed' = 0
  /\ UNCHANGED <<HEAP_HEAD, HEAP_PAGES, frames>>

\* Mutant: the cursor moves on after a merge.
AfterMergeNext(a) == blk[blk[a].next].next

\* "Don't advance cur -- keep trying to merge further".
AfterMerge(a) == a

Mergeable(a) ==
  /\ blk[a].is_free /\ blk[a].next # Null /\ blk[blk[a].next].is_free
  /\ EndOf(blk, a) = blk[a].next

CoalesceMerge ==
  /\ cur # Null /\ Mergeable(cur)
  /\ LET n == blk[cur].next IN
     blk' = [a \in Addrs \ {n} |->
               IF a = cur THEN Header(blk[cur].size + HEADER_SIZE + blk[n].size, TRUE, blk[n].next)
               ELSE blk[a]]
  /\ cur' = AfterMerge(cur)
  /\ UNCHANGED <<HEAP_HEAD, HEAP_PAGES, frames, live, failed>>

CoalesceAdvance ==
  /\ cur # Null /\ ~Mergeable(cur)
  /\ cur' = blk[cur].next
  /\ UNCHANGED <<blk, HEAP_HEAD, HEAP_PAGES, frames, live, failed>>

\* The other users of the PMM take a page.
OtherTakes ==
  /\ frames > 0 /\ frames' = frames - 1 /\ failed' = 0
  /\ UNCHANGED <<blk, HEAP_HEAD, HEAP_PAGES, cur, live>>

Next ==
  \/ \E size \in Sizes : KmallocFit(size) \/ KmallocGrow(size) \/ KmallocFails(size)
  \/ \E p \in DOMAIN live : Kfree(p)
  \/ CoalesceMerge \/ CoalesceAdvance \/ OtherTakes

Spec == Init /\ [][Next]_vars

-----------------------------------------------------------------------------
WellTyped(b) ==
  /\ DOMAIN b \subseteq Nat \ {0}
  /\ b \in [DOMAIN b -> [size : Nat \ {0}, is_free : BOOLEAN, next : Nat]]

TypeOK ==
  /\ WellTyped(blk)
  /\ HEAP_HEAD \in {Null, HEAP_START} /\ HEAP_PAGES \in 0 .. HEAP_MAX_PAGES
  /\ frames \in Nat /\ cur \in Nat /\ failed \in Nat
  /\ DOMAIN live \subseteq Nat /\ live \in [DOMAIN live -> Nat]

\* The blocks of list b lie end to end from HEAP_START to top.
Tiles(b, top) ==
  /\ top > HEAP_START => HEAP_START \in DOMAIN b
  /\ \A a \in DOMAIN b :
       /\ HEAP_START <= a /\ EndOf(b, a) <= top
       /\ IF b[a].next = Null THEN EndOf(b, a) = top
          ELSE b[a].next = EndOf(b, a) /\ EndOf(b, a) \in DOMAIN b
  /\ \A a, c \in DOMAIN b : a < c => EndOf(b, a) <= c

\* The list follows the addresses: from HEAP_START to the top of the heap the
\* blocks lie end to end, without a gap or an overlap, and `next` leads from
\* each to the one after it.
Tiled ==
  /\ HEAP_HEAD = (IF HEAP_PAGES = 0 THEN Null ELSE HEAP_START)
  /\ Tiles(blk, Top)

Backed(b, l) ==
  /\ \A p \in DOMAIN l :
       /\ p - HEADER_SIZE \in DOMAIN b
       /\ ~b[p - HEADER_SIZE].is_free /\ b[p - HEADER_SIZE].size >= l[p]
  /\ \A a \in DOMAIN b : ~b[a].is_free => a + HEADER_SIZE \in DOMAIN l

\* What callers have and what the list says agree: a pointer handed out is the
\* payload of a block in use that is large enough, and every block in use
\* belongs to a caller, so nothing is lost and nothing is handed out twice.
LiveBacked == Backed(blk, live)

\* "walk the entire list and merge any adjacent free blocks": when kfree returns
\* no free block is followed by a free block.
FreedCoalesced ==
  [][cur # Null /\ cur' = Null =>
       \A a \in Addrs : blk[a].is_free /\ blk[a].next # Null =>
                          ~blk[blk[a].next].is_free]_vars

\* kmalloc returns null only when no free block, not even one that a growth which
\* the PMM cut short has just added, is large enough.
RefusedOnlyIfNoFit ==
  failed # 0 => \A a \in Addrs : blk[a].is_free => blk[a].size < Aligned(failed)
=============================================================================
