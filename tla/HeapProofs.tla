----------------------------- MODULE HeapProofs -----------------------------
(***************************************************************************)
(* The kernel heap keeps its blocks end to end and its callers' memory     *)
(* apart, for every page, header and alignment size and supply of pages.   *)
(* The spinlock its callers hold excludes and restores, for every set of   *)
(* threads, interrupt handlers and locks and every depth of nesting.       *)
(***************************************************************************)
EXTENDS Heap, Spinlock, TLAPS

\* A leaf is given to the SMT solver and then to Zenon, a minute each.
USE SMTT(60), ZenonT(60)

-----------------------------------------------------------------------------
(* The kernel heap.                                                        *)

\* Behind coalesce()'s cursor no free block is followed by a free block.
CurInv ==
  cur # Null =>
    /\ cur \in Addrs
    /\ \A a \in Addrs : a < cur /\ blk[a].is_free /\ blk[a].next # Null
                          => ~blk[blk[a].next].is_free

HInv == TypeOK /\ Tiled /\ LiveBacked /\ CurInv

-----------------------------------------------------------------------------
\* Rounding up gives enough.
LEMMA AlignedEnough ==
  ASSUME NEW s \in Nat \ {0}
  PROVE  Aligned(s) \in Nat \ {0} /\ Aligned(s) >= s
<1> DEFINE q == (s + ALIGN - 1) \div ALIGN
<1>1. q \in Nat /\ s + ALIGN - 1 < (q + 1) * ALIGN
  BY HeapAssumption
<1>2. q * ALIGN \in Nat /\ (q + 1) * ALIGN = q * ALIGN + ALIGN
  <2> HIDE DEF q
  <2> QED
    BY <1>1, HeapAssumption
<1> QED
  BY <1>1, <1>2, HeapAssumption DEF Aligned

\* Whole pages hold at least a header and a byte.
LEMMA PagesHold ==
  ASSUME NEW m \in Nat \ {0}, NEW p \in Nat
  PROVE  /\ m * VMM_PAGE_SIZE \in Nat /\ p * VMM_PAGE_SIZE \in Nat
         /\ m * VMM_PAGE_SIZE > HEADER_SIZE
         /\ (p + m) * VMM_PAGE_SIZE = p * VMM_PAGE_SIZE + m * VMM_PAGE_SIZE
<1>1. m * VMM_PAGE_SIZE \in Nat /\ p * VMM_PAGE_SIZE \in Nat
  BY HeapAssumption
<1>2. m * VMM_PAGE_SIZE >= VMM_PAGE_SIZE
  BY HeapAssumption
<1>3. (p + m) * VMM_PAGE_SIZE = p * VMM_PAGE_SIZE + m * VMM_PAGE_SIZE
  BY HeapAssumption
<1> QED
  BY <1>1, <1>2, <1>3, HeapAssumption

\* try_alloc on a list that tiles: the list still tiles, block a is in use with
\* at least n bytes, every other block is as it was, and what is new is free.
LEMMA TakenTiles ==
  ASSUME NEW b, NEW top \in Nat, NEW a \in DOMAIN b, NEW n \in Nat \ {0},
         WellTyped(b), Tiles(b, top), Fits(b, a, n)
  PROVE  /\ WellTyped(Taken(b, a, n)) /\ Tiles(Taken(b, a, n), top)
         /\ DOMAIN b \subseteq DOMAIN Taken(b, a, n)
         /\ ~Taken(b, a, n)[a].is_free /\ Taken(b, a, n)[a].size >= n
         /\ \A c \in DOMAIN b \ {a} : /\ Taken(b, a, n)[c] = b[c]
         /\ \A c \in DOMAIN Taken(b, a, n) \ DOMAIN b : Taken(b, a, n)[c].is_free
<1> DEFINE t == Taken(b, a, n)
           s == a + HEADER_SIZE + n
<1>1. /\ a \in Nat \ {0} /\ b[a].size \in Nat \ {0} /\ b[a].size >= n
      /\ HEADER_SIZE \in Nat \ {0} /\ MIN_SPLIT \in Nat \ {0}
      /\ b[a].next \in Nat /\ HEAP_START \in Nat \ {0}
  BY HeapAssumption DEF WellTyped, Fits
<1>2. \A c \in DOMAIN b : c \in Nat \ {0} /\ b[c].size \in Nat \ {0}
                          /\ b[c].next \in Nat /\ b[c].is_free \in BOOLEAN
  BY DEF WellTyped
<1>3. CASE b[a].size >= n + HEADER_SIZE + MIN_SPLIT
  <2>1. t = [c \in DOMAIN b \cup {s} |->
               IF c = s THEN Header(b[a].size - n - HEADER_SIZE, TRUE, b[a].next)
               ELSE IF c = a THEN Header(n, FALSE, s) ELSE b[c]]
    BY <1>3 DEF Taken, Rest
  <2>2. s \notin DOMAIN b /\ s # a /\ s \in Nat \ {0}
    BY <1>1, <1>2, <1>3 DEF Tiles, EndOf
  <2>3. /\ DOMAIN t = DOMAIN b \cup {s}
        /\ t[s] = Header(b[a].size - n - HEADER_SIZE, TRUE, b[a].next)
        /\ t[a] = Header(n, FALSE, s)
        /\ \A c \in DOMAIN b \ {a} : t[c] = b[c]
    BY Zenon, <2>1, <2>2
  <2>4. WellTyped(t)
    <3>1. t[s] \in [size : Nat \ {0}, is_free : BOOLEAN, next : Nat]
      BY <1>1, <1>3, <2>3 DEF Header
    <3>2. t[a] \in [size : Nat \ {0}, is_free : BOOLEAN, next : Nat]
      BY <2>2, <2>3 DEF Header
    <3>3. \A c \in DOMAIN b \ {a} : t[c] \in [size : Nat \ {0}, is_free : BOOLEAN, next : Nat]
      BY <2>3 DEF WellTyped
    <3> HIDE DEF t, s
    <3> QED
      BY ZenonT(60), <2>1, <2>2, <2>3, <3>1, <3>2, <3>3 DEF WellTyped
  <2>5. /\ t[s].size = b[a].size - n - HEADER_SIZE /\ t[s].is_free /\ t[s].next = b[a].next
        /\ t[a].size = n /\ ~t[a].is_free /\ t[a].next = s
    BY <2>3 DEF Header
  <2> HIDE DEF t
  <2>6. /\ EndOf(t, s) = EndOf(b, a) /\ EndOf(t, a) = s /\ a < s /\ s < EndOf(b, a)
        /\ \A c \in DOMAIN b \ {a} : EndOf(t, c) = EndOf(b, c)
    <3>1. EndOf(t, s) = EndOf(b, a)
      BY <1>1, <1>3, <2>5 DEF EndOf
    <3>2. EndOf(t, a) = s /\ a < s /\ s < EndOf(b, a)
      BY <1>1, <1>3, <2>5 DEF EndOf
    <3>3. \A c \in DOMAIN b \ {a} : EndOf(t, c) = EndOf(b, c)
      BY <2>3 DEF EndOf
    <3> QED
      BY <3>1, <3>2, <3>3
  <2>7. Tiles(t, top)
    <3>1. top > HEAP_START => HEAP_START \in DOMAIN t
      BY <2>3 DEF Tiles
    <3>2. \A c \in DOMAIN t : HEAP_START <= c /\ EndOf(t, c) <= top
      <4>1. \A c \in DOMAIN b : HEAP_START <= c /\ EndOf(b, c) <= top
            /\ EndOf(b, c) \in Nat
        BY <1>1, <1>2 DEF Tiles, EndOf
      <4> HIDE DEF s
      <4> QED
        BY <1>1, <1>2, <2>2, <2>3, <2>6, <4>1
    <3>3. \A c \in DOMAIN t : IF t[c].next = Null THEN EndOf(t, c) = top
                              ELSE t[c].next = EndOf(t, c) /\ EndOf(t, c) \in DOMAIN t
      <4>1. \A c \in DOMAIN b : IF b[c].next = Null THEN EndOf(b, c) = top
                              ELSE b[c].next = EndOf(b, c) /\ EndOf(b, c) \in DOMAIN b
        BY DEF Tiles
      <4> HIDE DEF s
      <4> QED
        BY ZenonT(60), <2>2, <2>3, <2>5, <2>6, <4>1 DEF Null
    <3>4. \A c, d \in DOMAIN t : c < d => EndOf(t, c) <= d
      <4>1. \A c, d \in DOMAIN b : c < d => EndOf(b, c) <= d
        BY DEF Tiles
      <4>2. \A c \in DOMAIN b : EndOf(b, c) \in Nat /\ EndOf(b, c) > c
        BY <1>1, <1>2 DEF EndOf
      <4> HIDE DEF s
      <4>3. \A c \in DOMAIN b : c < s => c <= a
        BY <1>1, <1>2, <2>2, <2>6, <4>1, <4>2
      <4>4. \A c \in DOMAIN b : s < c => EndOf(b, a) <= c
        BY <1>1, <1>2, <2>2, <2>6, <4>1, <4>2
      <4>5. \A c \in DOMAIN b : c < a => EndOf(b, c) <= s
        BY <1>1, <1>2, <2>2, <2>6, <4>1, <4>2
      <4>6. \A c \in DOMAIN b : a < c => s <= c
        BY <1>1, <1>2, <2>2, <2>6, <4>1, <4>2
      <4> QED
        BY <1>1, <1>2, <2>2, <2>3, <2>6, <4>1, <4>2, <4>3, <4>4, <4>5, <4>6
    <3> QED
      BY <3>1, <3>2, <3>3, <3>4 DEF Tiles
  <2>8. DOMAIN b \subseteq DOMAIN t /\ t[a].size >= n
        /\ \A c \in DOMAIN t \ DOMAIN b : t[c].is_free
    <3>1. t[a].size >= n
      BY <1>1, <2>5
    <3> HIDE DEF s
    <3>2. DOMAIN b \subseteq DOMAIN t /\ \A c \in DOMAIN t \ DOMAIN b : t[c].is_free
      BY <2>3, <2>5, Zenon
    <3> QED
      BY <3>1, <3>2
  <2> QED
    BY Zenon, <2>3, <2>4, <2>5, <2>7, <2>8 DEF t
<1>4. CASE ~(b[a].size >= n + HEADER_SIZE + MIN_SPLIT)
  <2>1. t = [b EXCEPT ![a].is_free = FALSE]
    BY <1>4 DEF Taken
  <2>2. /\ DOMAIN t = DOMAIN b /\ t[a].size = b[a].size /\ t[a].next = b[a].next
        /\ ~t[a].is_free /\ \A c \in DOMAIN b \ {a} : t[c] = b[c]
        /\ t[a] \in [size : Nat \ {0}, is_free : BOOLEAN, next : Nat]
    BY ZenonT(60), <2>1 DEF WellTyped
  <2>3. t = [c \in DOMAIN b |-> t[c]]
    BY Zenon, <2>1
  <2> HIDE DEF t
  <2>4. WellTyped(t)
    BY <2>2, <2>3 DEF WellTyped
  <2>5. \A c \in DOMAIN b : EndOf(t, c) = EndOf(b, c) /\ t[c].next = b[c].next
    BY <2>2 DEF EndOf
  <2>6. Tiles(t, top)
    BY <2>2, <2>5 DEF Tiles
  <2> QED
    BY <1>1, <2>2, <2>4, <2>6 DEF t
<1> QED
  BY <1>3, <1>4

\* What try_alloc does to callers: they keep what they have and get block a.
LEMMA TakenBacks ==
  ASSUME NEW b, NEW l, NEW a \in DOMAIN b, NEW n, NEW size \in Nat, NEW t, NEW k,
         DOMAIN b \subseteq Nat, DOMAIN l \subseteq Nat,
         Backed(b, l), b[a].is_free,
         DOMAIN b \subseteq DOMAIN t, ~t[a].is_free, t[a].size >= size,
         \A c \in DOMAIN b \ {a} : t[c] = b[c],
         \A c \in DOMAIN t \ DOMAIN b : t[c].is_free,
         k = [p \in DOMAIN l \cup {a + HEADER_SIZE} |->
                IF p = a + HEADER_SIZE THEN size ELSE l[p]]
  PROVE  Backed(t, k) /\ k \in [DOMAIN k -> {size} \cup {l[p] : p \in DOMAIN l}]
         /\ DOMAIN k = DOMAIN l \cup {a + HEADER_SIZE}
         /\ \A p \in DOMAIN l : p # a + HEADER_SIZE /\ k[p] = l[p]
<1>1. a \in Nat /\ HEADER_SIZE \in Nat /\ (a + HEADER_SIZE) - HEADER_SIZE = a
  BY HeapAssumption
<1>2. \A p \in DOMAIN l : p - HEADER_SIZE # a /\ p # a + HEADER_SIZE
  BY <1>1 DEF Backed
<1>3. \A p \in DOMAIN k : /\ p - HEADER_SIZE \in DOMAIN t
                          /\ ~t[p - HEADER_SIZE].is_free /\ t[p - HEADER_SIZE].size >= k[p]
  BY <1>1, <1>2 DEF Backed
<1>4. \A c \in DOMAIN t : ~t[c].is_free => c + HEADER_SIZE \in DOMAIN k
  BY DEF Backed
<1>5. /\ k \in [DOMAIN k -> {size} \cup {l[p] : p \in DOMAIN l}]
      /\ DOMAIN k = DOMAIN l \cup {a + HEADER_SIZE}
      /\ \A p \in DOMAIN l : p # a + HEADER_SIZE /\ k[p] = l[p]
  BY <1>2
<1> QED
  BY Zenon, <1>3, <1>4, <1>5 DEF Backed

\* expand_heap: the list reaches the new top, and callers notice nothing.
LEMMA ExpandTiles ==
  ASSUME TypeOK, Tiled, LiveBacked, NEW m \in Nat \ {0}
  PROVE  LET e == Expanded(m)
             top == HEAP_START + (HEAP_PAGES + m) * VMM_PAGE_SIZE
         IN /\ WellTyped(e) /\ Tiles(e, top) /\ Backed(e, live) /\ top \in Nat
            /\ DOMAIN e = Addrs \cup {Top}
            /\ \A a \in Addrs : e[a].size = blk[a].size
<1> DEFINE e == Expanded(m)
           top == HEAP_START + (HEAP_PAGES + m) * VMM_PAGE_SIZE
           size == m * VMM_PAGE_SIZE - HEADER_SIZE
           old(a) == IF blk[a].next = Null THEN [blk[a] EXCEPT !.next = Top] ELSE blk[a]
<1>1. /\ Top \in Nat \ {0} /\ top \in Nat \ {0} /\ size \in Nat \ {0} /\ Top >= HEAP_START
      /\ Top + HEADER_SIZE + size = top /\ HEAP_PAGES \in Nat /\ Top < top
  <2>1. HEAP_PAGES \in Nat
    BY DEF TypeOK
  <2>2. /\ m * VMM_PAGE_SIZE \in Nat /\ HEAP_PAGES * VMM_PAGE_SIZE \in Nat
        /\ m * VMM_PAGE_SIZE > HEADER_SIZE
        /\ (HEAP_PAGES + m) * VMM_PAGE_SIZE = HEAP_PAGES * VMM_PAGE_SIZE + m * VMM_PAGE_SIZE
    BY <2>1, PagesHold
  <2> QED
    BY <2>1, <2>2, HeapAssumption DEF Top
<1>2. \A a \in Addrs : /\ a \in Nat \ {0} /\ blk[a].size \in Nat \ {0} /\ blk[a].next \in Nat
                       /\ blk[a].is_free \in BOOLEAN /\ a < Top /\ a # Top
  <2> SUFFICES ASSUME NEW a \in Addrs
               PROVE  /\ a \in Nat \ {0} /\ blk[a].size \in Nat \ {0} /\ blk[a].next \in Nat
                      /\ blk[a].is_free \in BOOLEAN /\ a < Top /\ a # Top
    OBVIOUS
  <2>1. /\ a \in Nat \ {0} /\ blk[a].size \in Nat \ {0} /\ blk[a].next \in Nat
        /\ blk[a].is_free \in BOOLEAN
    BY DEF TypeOK, WellTyped, Addrs
  <2>2. a + HEADER_SIZE + blk[a].size <= Top
    BY DEF Tiled, Tiles, EndOf, Addrs
  <2>3. a < Top
    BY <1>1, <2>1, <2>2, HeapAssumption
  <2> QED
    BY <1>1, <2>1, <2>3
<1>3. e = [a \in Addrs \cup {Top} |-> IF a = Top THEN Header(size, TRUE, Null) ELSE old(a)]
  BY DEF Expanded, NewSize
<1>4. /\ DOMAIN e = Addrs \cup {Top} /\ e[Top] = Header(size, TRUE, Null)
      /\ \A a \in Addrs : e[a] = old(a)
  BY Zenon, <1>2, <1>3
<1> HIDE DEF e, size
<1>5. \A a \in Addrs : /\ e[a].size = blk[a].size /\ e[a].is_free = blk[a].is_free
                       /\ e[a].next = (IF blk[a].next = Null THEN Top ELSE blk[a].next)
                       /\ e[a] \in [size : Nat \ {0}, is_free : BOOLEAN, next : Nat]
  <2> SUFFICES ASSUME NEW a \in Addrs
               PROVE  /\ e[a].size = blk[a].size /\ e[a].is_free = blk[a].is_free
                      /\ e[a].next = (IF blk[a].next = Null THEN Top ELSE blk[a].next)
                      /\ e[a] \in [size : Nat \ {0}, is_free : BOOLEAN, next : Nat]
    OBVIOUS
  <2>1. blk[a] \in [size : Nat \ {0}, is_free : BOOLEAN, next : Nat]
    BY DEF TypeOK, WellTyped, Addrs
  <2>2. e[a] = old(a) /\ Top \in Nat
    BY <1>1, <1>4
  <2>3. CASE blk[a].next = Null
    <3>1. e[a] = [blk[a] EXCEPT !.next = Top]
      BY <2>2, <2>3
    <3> QED
      BY <2>1, <2>2, <2>3, <3>1
  <2>4. CASE blk[a].next # Null
    BY <2>1, <2>2, <2>4
  <2> QED
    BY <2>3, <2>4
<1>6. /\ e[Top].size = size /\ e[Top].is_free /\ e[Top].next = Null
      /\ e[Top] \in [size : Nat \ {0}, is_free : BOOLEAN, next : Nat]
  BY <1>1, <1>4 DEF Header, Null
<1>7. WellTyped(e)
  BY ZenonT(60), <1>1, <1>2, <1>3, <1>4, <1>5, <1>6 DEF WellTyped
<1>8. /\ EndOf(e, Top) = top
      /\ \A a \in Addrs : EndOf(e, a) = EndOf(blk, a) /\ EndOf(e, a) <= Top
  BY <1>1, <1>5, <1>6 DEF EndOf, Tiled, Tiles, Addrs
<1>9. Tiles(e, top)
  <2>0. /\ Top > HEAP_START => HEAP_START \in Addrs
        /\ \A a \in Addrs : HEAP_START <= a /\
             IF blk[a].next = Null THEN EndOf(blk, a) = Top
             ELSE blk[a].next = EndOf(blk, a) /\ EndOf(blk, a) \in Addrs
        /\ \A a, c \in Addrs : a < c => EndOf(blk, a) <= c
    BY DEF Tiled, Tiles, Addrs
  <2>1. HEAP_START \in DOMAIN e
    BY <1>1, <1>4, <2>0, HeapAssumption
  <2>2. \A a \in Addrs : EndOf(blk, a) \in Nat
    BY <1>2, HeapAssumption DEF EndOf
  <2> HIDE DEF top
  <2>3. \A a \in DOMAIN e : HEAP_START <= a /\ EndOf(e, a) <= top
    BY <1>1, <1>4, <1>8, <2>0, <2>2
  <2>4. \A a \in DOMAIN e : IF e[a].next = Null THEN EndOf(e, a) = top
                            ELSE e[a].next = EndOf(e, a) /\ EndOf(e, a) \in DOMAIN e
    <3>1. Top # Null
      BY <1>1 DEF Null
    <3>2. \A a \in Addrs : e[a].next # Null /\ e[a].next = EndOf(e, a)
                           /\ EndOf(e, a) \in DOMAIN e
      BY <1>4, <1>5, <1>8, <2>0, <3>1
    <3> QED
      BY Zenon, <1>4, <1>6, <1>8, <3>2
  <2>5. \A a, c \in DOMAIN e : a < c => EndOf(e, a) <= c
    <3>1. \A a, c \in Addrs : a < c => EndOf(e, a) <= c
      BY <1>8, <2>0
    <3>2. \A a \in Addrs : EndOf(e, a) <= Top /\ ~(Top < a)
      BY <1>1, <1>2, <1>8
    <3>3. ~(Top < Top)
      BY <1>1
    <3> QED
      BY <1>4, <3>1, <3>2, <3>3
  <2> QED
    BY <2>1, <2>3, <2>4, <2>5 DEF Tiles
<1>10. Backed(e, live)
  BY Zenon, <1>4, <1>5, <1>6 DEF LiveBacked, Backed, Addrs
<1> QED
  BY <1>1, <1>4, <1>5, <1>7, <1>9, <1>10 DEF e

-----------------------------------------------------------------------------
LEMMA InitInv == Init => HInv
<1> SUFFICES ASSUME NEW f \in FrameCounts, NEW m,
                    m = (IF HEAP_INITIAL_PAGES <= f THEN HEAP_INITIAL_PAGES ELSE f),
                    HEAP_PAGES = m, frames = f - m,
                    IF m = 0 THEN HEAP_HEAD = Null /\ blk = [a \in {} |-> Header(0, FALSE, Null)]
                    ELSE HEAP_HEAD = HEAP_START
                         /\ blk = [a \in {HEAP_START} |-> Header(NewSize(m), TRUE, Null)],
                    cur = Null, live = [p \in {} |-> 0], failed = 0
             PROVE  HInv
  BY Zenon DEF Init
<1>1. m \in 0 .. HEAP_MAX_PAGES /\ f - m \in Nat
  BY HeapAssumption
<1>2. /\ HEAP_HEAD \in {Null, HEAP_START} /\ HEAP_PAGES \in 0 .. HEAP_MAX_PAGES
      /\ frames \in Nat /\ cur \in Nat /\ failed \in Nat
      /\ DOMAIN live = {} /\ live \in [DOMAIN live -> Nat]
  BY Zenon, <1>1 DEF Null
<1>3. CASE m = 0
  <2>1. DOMAIN blk = {} /\ Top = HEAP_START /\ HEAP_HEAD = Null
        /\ blk \in [{} -> [size : Nat \ {0}, is_free : BOOLEAN, next : Nat]]
    <3>1. HEAP_HEAD = Null /\ blk = [a \in {} |-> Header(0, FALSE, Null)]
      BY Zenon, <1>3
    <3>2. 0 * VMM_PAGE_SIZE = 0 /\ HEAP_START + 0 = HEAP_START
      BY HeapAssumption
    <3>3. Top = HEAP_START
      BY <1>3, <3>2 DEF Top
    <3> QED
      BY <3>1, <3>3
  <2>2. ~(HEAP_START > HEAP_START)
    BY HeapAssumption
  <2> QED
    BY <1>2, <1>3, <2>1, <2>2
    DEF HInv, TypeOK, WellTyped, Tiled, Tiles, LiveBacked, Backed, CurInv, Addrs
<1>4. CASE m # 0
  <2>1. /\ DOMAIN blk = {HEAP_START} /\ HEAP_HEAD = HEAP_START
        /\ blk[HEAP_START] = Header(NewSize(m), TRUE, Null)
        /\ blk = [a \in {HEAP_START} |-> Header(NewSize(m), TRUE, Null)]
    BY <1>4
  <2>2. /\ m * VMM_PAGE_SIZE \in Nat /\ m * VMM_PAGE_SIZE > HEADER_SIZE
        /\ HEAP_START \in Nat \ {0} /\ HEADER_SIZE \in Nat
    BY <1>1, <1>4, PagesHold, HeapAssumption
  <2>3. NewSize(m) \in Nat \ {0} /\ HEAP_START + HEADER_SIZE + NewSize(m) = Top
    BY <2>2 DEF NewSize, Top
  <2>4. /\ blk[HEAP_START].size = NewSize(m) /\ blk[HEAP_START].is_free
        /\ blk[HEAP_START].next = Null
        /\ blk[HEAP_START] \in [size : Nat \ {0}, is_free : BOOLEAN, next : Nat]
    BY <2>1, <2>3 DEF Header, Null
  <2>5. WellTyped(blk)
    BY Zenon, <2>1, <2>2, <2>4 DEF WellTyped
  <2>6. EndOf(blk, HEAP_START) = Top /\ HEAP_START <= HEAP_START /\ Top <= Top
        /\ ~(HEAP_START < HEAP_START)
    BY <2>2, <2>3, <2>4 DEF EndOf
  <2>7. Tiled
    BY Zenon, <1>4, <2>1, <2>4, <2>6 DEF Tiled, Tiles
  <2> QED
    BY Zenon, <1>2, <2>1, <2>4, <2>5, <2>7 DEF HInv, TypeOK, LiveBacked, Backed, CurInv
<1> QED
  BY <1>3, <1>4

LEMMA FitInv == ASSUME HInv, NEW size \in Sizes, KmallocFit(size) PROVE HInv'
<1> DEFINE n == Aligned(size)
<1>1. PICK a \in Addrs : Fits(blk, a, n) /\ blk' = Taken(blk, a, n) /\ Give(a, size)
  BY DEF KmallocFit, FirstFit
<1>2. cur = Null /\ failed' = 0 /\ UNCHANGED <<HEAP_HEAD, HEAP_PAGES, frames, cur>>
  BY DEF KmallocFit
<1>3. size \in Nat \ {0} /\ n \in Nat \ {0} /\ n >= size
  BY AlignedEnough, HeapAssumption
<1> HIDE DEF n
<1>4. WellTyped(blk) /\ Tiles(blk, Top) /\ Backed(blk, live) /\ a \in DOMAIN blk
  BY DEF HInv, TypeOK, Tiled, LiveBacked, Addrs
<1>5. Top \in Nat /\ Top' = Top
  <2>1. HEAP_PAGES \in Nat
    BY DEF HInv, TypeOK
  <2> QED
    BY <1>2, <2>1, HeapAssumption DEF Top
<1>6. /\ WellTyped(blk') /\ Tiles(blk', Top) /\ DOMAIN blk \subseteq DOMAIN blk'
      /\ ~blk'[a].is_free /\ blk'[a].size >= n
      /\ \A c \in DOMAIN blk \ {a} : blk'[c] = blk[c]
      /\ \A c \in DOMAIN blk' \ DOMAIN blk : blk'[c].is_free
  <2> DEFINE t == Taken(blk, a, n)
  <2>1. /\ WellTyped(t) /\ Tiles(t, Top) /\ DOMAIN blk \subseteq DOMAIN t
        /\ ~t[a].is_free /\ t[a].size >= n
        /\ \A c \in DOMAIN blk \ {a} : t[c] = blk[c]
        /\ \A c \in DOMAIN t \ DOMAIN blk : t[c].is_free
    BY <1>1, <1>3, <1>4, <1>5, TakenTiles
  <2> QED
    BY Zenon, <1>1, <2>1
<1>7. /\ Backed(blk', live') /\ live' \in [DOMAIN live' -> {size} \cup {live[p] : p \in DOMAIN live}]
      /\ DOMAIN live' = DOMAIN live \cup {a + HEADER_SIZE}
  <2>1. DOMAIN blk \subseteq Nat /\ DOMAIN live \subseteq Nat /\ blk[a].is_free
        /\ blk'[a].size >= size
    <3>1. blk'[a].size \in Nat /\ n \in Nat /\ size \in Nat
      BY <1>3, <1>4, <1>6 DEF WellTyped
    <3> QED
      BY <1>1, <1>3, <1>6, <3>1 DEF HInv, TypeOK, WellTyped, Fits
  <2> QED
    BY <1>1, <1>3, <1>4, <1>6, <2>1, TakenBacks DEF Give
<1>8. live' \in [DOMAIN live' -> Nat] /\ DOMAIN live' \subseteq Nat
  <2>1. \A p \in DOMAIN live : live[p] \in Nat /\ p \in Nat
    BY DEF HInv, TypeOK
  <2>2. a + HEADER_SIZE \in Nat /\ size \in Nat
    BY <1>3, <1>4, HeapAssumption DEF WellTyped
  <2> QED
    BY <1>7, <2>1, <2>2
<1>9. TypeOK' /\ Tiled' /\ LiveBacked' /\ CurInv'
  <2>1. TypeOK'
    BY <1>2, <1>6, <1>8 DEF HInv, TypeOK
  <2>2. Tiled'
    BY <1>2, <1>5, <1>6 DEF HInv, Tiled
  <2> QED
    BY <1>2, <1>7, <2>1, <2>2 DEF LiveBacked, CurInv
<1> QED
  BY <1>9 DEF HInv

LEMMA GrowInv == ASSUME HInv, NEW size \in Sizes, KmallocGrow(size) PROVE HInv'
<1> DEFINE n == Aligned(size)
           m == Mapped(NeedPages(n))
           e == Expanded(m)
           top == HEAP_START + (HEAP_PAGES + m) * VMM_PAGE_SIZE
<1>1. /\ cur = Null /\ UNCHANGED cur /\ HEAP_PAGES' = HEAP_PAGES + m /\ frames' = frames - m
      /\ HEAP_HEAD' = IF HEAP_HEAD = Null THEN Top ELSE HEAP_HEAD
      /\ HEAP_PAGES + NeedPages(n) <= HEAP_MAX_PAGES /\ m > 0
  BY DEF KmallocGrow, Expandable
<1>2. size \in Nat \ {0} /\ n \in Nat \ {0} /\ n >= size
  BY AlignedEnough, HeapAssumption
<1>3. NeedPages(n) \in Nat
  <2> HIDE DEF n
  <2> QED
    BY <1>2, HeapAssumption DEF NeedPages
<1>4. m \in Nat \ {0} /\ m <= NeedPages(n) /\ m <= frames
  <2>1. frames \in Nat
    BY DEF HInv, TypeOK
  <2> HIDE DEF n
  <2> QED
    BY <1>1, <1>3, <2>1 DEF Mapped
<1>5. \/ \E a \in DOMAIN e : FirstFit(e, a, n) /\ blk' = Taken(e, a, n) /\ Give(a, size) /\ failed' = 0
      \/ blk' = e /\ failed' = size /\ UNCHANGED live
  BY DEF KmallocGrow
<1> HIDE DEF n, m
<1>6. /\ WellTyped(e) /\ Tiles(e, top) /\ Backed(e, live) /\ top \in Nat
      /\ DOMAIN e = Addrs \cup {Top}
  BY Zenon, <1>4, ExpandTiles DEF HInv
<1>7. top = Top' /\ HEAP_PAGES' \in 0 .. HEAP_MAX_PAGES /\ frames' \in Nat /\ HEAP_PAGES' # 0
  <2>1. HEAP_PAGES \in Nat /\ frames \in Nat
    BY DEF HInv, TypeOK
  <2> QED
    BY <1>1, <1>3, <1>4, <2>1, HeapAssumption DEF Top
<1>8. HEAP_HEAD' = HEAP_START
  <2>1. CASE HEAP_PAGES = 0
    <3>1. HEAP_HEAD = Null
      BY <2>1 DEF HInv, Tiled
    <3>2. 0 * VMM_PAGE_SIZE = 0 /\ HEAP_START + 0 = HEAP_START
      BY HeapAssumption
    <3> QED
      BY <1>1, <2>1, <3>1, <3>2 DEF Top
  <2>2. CASE HEAP_PAGES # 0
    <3>1. HEAP_HEAD = HEAP_START /\ HEAP_START # Null
      BY <2>2, HeapAssumption DEF HInv, Tiled, Null
    <3> QED
      BY <1>1, <3>1
  <2> QED
    BY <2>1, <2>2
<1> HIDE DEF e, top
<1> DEFINE Grown == /\ WellTyped(blk') /\ Tiles(blk', top) /\ Backed(blk', live')
                    /\ failed' \in Nat
                    /\ DOMAIN live' \subseteq Nat /\ live' \in [DOMAIN live' -> Nat]
<1>9. Grown
  <2>1. CASE blk' = e /\ failed' = size /\ UNCHANGED live
    BY <1>2, <1>6, <2>1 DEF HInv, TypeOK
  <2>2. ASSUME NEW a \in DOMAIN e, FirstFit(e, a, n), blk' = Taken(e, a, n),
               Give(a, size), failed' = 0
        PROVE  Grown
    <3> DEFINE t == Taken(e, a, n)
    <3>0. Fits(e, a, n)
      BY Zenon, <2>2 DEF FirstFit
    <3>1. /\ WellTyped(t) /\ Tiles(t, top) /\ DOMAIN e \subseteq DOMAIN t
          /\ ~t[a].is_free /\ t[a].size >= n
          /\ \A c \in DOMAIN e \ {a} : t[c] = e[c]
          /\ \A c \in DOMAIN t \ DOMAIN e : t[c].is_free
      BY <1>2, <1>6, <2>2, <3>0, TakenTiles
    <3>2. /\ DOMAIN e \subseteq Nat /\ DOMAIN live \subseteq Nat /\ e[a].is_free
          /\ \A p \in DOMAIN live : live[p] \in Nat /\ p \in Nat
      BY Zenon, <1>6, <3>0 DEF HInv, TypeOK, WellTyped, Fits
    <3>3. t[a].size >= size
      <4>1. t[a].size \in Nat
        BY <3>1 DEF WellTyped
      <4> HIDE DEF t
      <4> QED
        BY <1>2, <3>1, <4>1
    <3>4. a + HEADER_SIZE \in Nat
      BY <3>2, HeapAssumption
    <3> HIDE DEF t
    <3>5. /\ Backed(t, live') /\ DOMAIN live' = DOMAIN live \cup {a + HEADER_SIZE}
          /\ live' \in [DOMAIN live' -> {size} \cup {live[p] : p \in DOMAIN live}]
      BY <1>2, <1>6, <2>2, <3>1, <3>2, <3>3, TakenBacks DEF Give
    <3>6. blk' = t
      BY <2>2 DEF t
    <3> QED
      BY <1>2, <2>2, <3>1, <3>2, <3>4, <3>5, <3>6
  <2> QED
    BY <1>5, <2>1, <2>2
<1>10. TypeOK' /\ Tiled' /\ LiveBacked' /\ CurInv'
  <2>1. TypeOK'
    BY <1>1, <1>7, <1>8, <1>9 DEF HInv, TypeOK
  <2>2. Tiled'
    BY <1>7, <1>8, <1>9 DEF Tiled
  <2> QED
    BY <1>1, <1>9, <2>1, <2>2 DEF LiveBacked, CurInv
<1> QED
  BY <1>10 DEF HInv

LEMMA KfreeInv == ASSUME HInv, NEW p \in DOMAIN live, Kfree(p) PROVE HInv'
<1> DEFINE a == p - HEADER_SIZE
<1>1. /\ cur = Null /\ a \in DOMAIN blk /\ blk' = [blk EXCEPT ![a].is_free = TRUE]
      /\ live' = [q \in DOMAIN live \ {p} |-> live[q]]
      /\ cur' = HEAP_HEAD /\ failed' = 0 /\ UNCHANGED <<HEAP_HEAD, HEAP_PAGES, frames>>
  BY DEF Kfree, Addrs
<1>2. p \in Nat /\ HEADER_SIZE \in Nat /\ a + HEADER_SIZE = p
  BY HeapAssumption DEF HInv, TypeOK
<1> HIDE DEF a
<1>3. /\ DOMAIN blk' = DOMAIN blk /\ blk'[a].size = blk[a].size /\ blk'[a].next = blk[a].next
      /\ blk'[a].is_free /\ \A c \in DOMAIN blk \ {a} : blk'[c] = blk[c]
      /\ blk'[a] \in [size : Nat \ {0}, is_free : BOOLEAN, next : Nat]
      /\ blk' = [c \in DOMAIN blk |-> blk'[c]]
  BY Zenon, <1>1 DEF HInv, TypeOK, WellTyped
<1>4. WellTyped(blk')
  BY <1>3 DEF HInv, TypeOK, WellTyped
<1>5. \A c \in DOMAIN blk : EndOf(blk', c) = EndOf(blk, c) /\ blk'[c].next = blk[c].next
  BY <1>3 DEF EndOf
<1>6. Tiled'
  <2>1. Top' = Top
    BY <1>1 DEF Top
  <2>2. Tiles(blk, Top) /\ HEAP_HEAD = (IF HEAP_PAGES = 0 THEN Null ELSE HEAP_START)
    BY DEF HInv, Tiled
  <2>3. Tiles(blk', Top)
    BY <1>3, <1>5, <2>2 DEF Tiles
  <2> QED
    BY <1>1, <2>1, <2>2, <2>3 DEF Tiled
<1>7. TypeOK'
  <2>1. DOMAIN live' \subseteq Nat /\ live' \in [DOMAIN live' -> Nat]
    BY <1>1 DEF HInv, TypeOK
  <2>2. HEAP_HEAD \in Nat
    BY HeapAssumption DEF HInv, TypeOK, Null
  <2> QED
    BY <1>1, <1>4, <2>1, <2>2 DEF HInv, TypeOK
<1>8. LiveBacked'
  <2>1. \A q \in DOMAIN live \ {p} : q - HEADER_SIZE # a /\ q \in Nat
    BY <1>2, HeapAssumption DEF HInv, TypeOK
  <2>2. DOMAIN live' = DOMAIN live \ {p} /\ \A q \in DOMAIN live \ {p} : live'[q] = live[q]
    BY <1>1
  <2>3. \A c \in DOMAIN blk : c # a => c + HEADER_SIZE # p
    <3>1. \A c \in DOMAIN blk : c \in Nat
      BY DEF HInv, TypeOK, WellTyped
    <3>2. a \in Nat
      BY <1>1, <3>1
    <3> QED
      BY <1>2, <3>1, <3>2
  <2> QED
    BY <1>3, <2>1, <2>2, <2>3 DEF HInv, LiveBacked, Backed
<1>9. CurInv'
  <2>1. HEAP_PAGES # 0
    <3> SUFFICES ASSUME HEAP_PAGES = 0 PROVE FALSE
      OBVIOUS
    <3>1. 0 * VMM_PAGE_SIZE = 0 /\ HEAP_START + 0 = HEAP_START
      BY HeapAssumption
    <3>2. EndOf(blk, a) <= HEAP_START /\ HEAP_START <= a
      BY <1>1, <3>1 DEF HInv, Tiled, Tiles, Top
    <3>3. a \in Nat /\ blk[a].size \in Nat \ {0}
      BY <1>1 DEF HInv, TypeOK, WellTyped
    <3> QED
      BY <3>2, <3>3, HeapAssumption DEF EndOf
  <2>2. HEAP_HEAD = HEAP_START /\ HEAP_START \in DOMAIN blk
    <3>1. HEAP_PAGES \in Nat /\ HEAP_PAGES # 0
      BY <2>1 DEF HInv, TypeOK
    <3>2. HEAP_PAGES * VMM_PAGE_SIZE > HEADER_SIZE /\ HEAP_PAGES * VMM_PAGE_SIZE \in Nat
      BY <3>1, PagesHold
    <3>3. Top > HEAP_START
      BY <3>2, HeapAssumption DEF Top
    <3> QED
      BY <2>1, <3>3 DEF HInv, Tiled, Tiles
  <2>3. \A c \in DOMAIN blk : c \in Nat /\ ~(c < HEAP_START)
    BY HeapAssumption DEF HInv, TypeOK, WellTyped, Tiled, Tiles
  <2> QED
    BY <1>1, <1>3, <2>2, <2>3 DEF CurInv, Addrs
<1> QED
  BY <1>6, <1>7, <1>8, <1>9 DEF HInv

LEMMA MergeInv == ASSUME HInv, CoalesceMerge PROVE HInv'
<1> DEFINE n == blk[cur].next
           size == blk[cur].size + HEADER_SIZE + blk[n].size
<1>1. /\ cur # Null /\ blk[cur].is_free /\ n # Null /\ blk[n].is_free /\ EndOf(blk, cur) = n
      /\ blk' = [a \in DOMAIN blk \ {n} |->
                   IF a = cur THEN Header(size, TRUE, blk[n].next) ELSE blk[a]]
      /\ cur' = cur /\ UNCHANGED <<HEAP_HEAD, HEAP_PAGES, frames, live, failed>>
  BY DEF CoalesceMerge, Mergeable, AfterMerge, Addrs
<1>2. cur \in DOMAIN blk /\ n \in DOMAIN blk
  BY <1>1 DEF HInv, CurInv, Tiled, Tiles, Addrs
<1>3. \A a \in DOMAIN blk : a \in Nat \ {0} /\ blk[a].size \in Nat \ {0} /\ blk[a].next \in Nat
                            /\ blk[a] \in [size : Nat \ {0}, is_free : BOOLEAN, next : Nat]
  BY DEF HInv, TypeOK, WellTyped
<1>4. cur < n /\ cur # n /\ size \in Nat \ {0} /\ HEADER_SIZE \in Nat \ {0}
  BY <1>1, <1>2, <1>3, HeapAssumption DEF EndOf
<1>5. /\ DOMAIN blk' = DOMAIN blk \ {n} /\ blk'[cur] = Header(size, TRUE, blk[n].next)
      /\ \A a \in DOMAIN blk \ {n, cur} : blk'[a] = blk[a]
  BY ZenonT(60), <1>1, <1>2, <1>4
<1>6. blk'[cur].size = size /\ blk'[cur].is_free /\ blk'[cur].next = blk[n].next
      /\ blk'[cur] \in [size : Nat \ {0}, is_free : BOOLEAN, next : Nat]
  BY <1>2, <1>3, <1>4, <1>5 DEF Header
<1>7. /\ EndOf(blk', cur) = EndOf(blk, n)
      /\ \A a \in DOMAIN blk \ {n, cur} : EndOf(blk', a) = EndOf(blk, a)
  <2>1. EndOf(blk', cur) = EndOf(blk, n)
    <3>1. /\ cur \in Nat /\ n \in Nat /\ blk[cur].size \in Nat /\ blk[n].size \in Nat
          /\ n = cur + HEADER_SIZE + blk[cur].size
          /\ blk'[cur].size = blk[cur].size + HEADER_SIZE + blk[n].size
      BY ZenonT(60), <1>1, <1>2, <1>3, <1>6 DEF EndOf
    <3> HIDE DEF n
    <3>2. cur + HEADER_SIZE + blk'[cur].size = n + HEADER_SIZE + blk[n].size
      BY <1>4, <3>1
    <3> QED
      BY <3>2 DEF EndOf
  <2>2. \A a \in DOMAIN blk \ {n, cur} : EndOf(blk', a) = EndOf(blk, a)
    BY <1>5 DEF EndOf
  <2> QED
    BY <2>1, <2>2
<1> HIDE DEF size
<1>8. WellTyped(blk')
  <2>1. \A a \in DOMAIN blk' : blk'[a] \in [size : Nat \ {0}, is_free : BOOLEAN, next : Nat]
    <3> HIDE DEF n
    <3> QED
      BY Zenon, <1>3, <1>5, <1>6
  <2>2. blk' = [a \in DOMAIN blk' |-> blk'[a]]
    BY Zenon, <1>1
  <2> QED
    BY <1>3, <1>5, <2>1, <2>2 DEF WellTyped
<1>9. /\ Top > HEAP_START => HEAP_START \in DOMAIN blk
      /\ \A a \in DOMAIN blk :
           /\ HEAP_START <= a /\ EndOf(blk, a) <= Top /\ EndOf(blk, a) \in Nat /\ a < EndOf(blk, a)
           /\ IF blk[a].next = Null THEN EndOf(blk, a) = Top
              ELSE blk[a].next = EndOf(blk, a) /\ EndOf(blk, a) \in DOMAIN blk
      /\ \A a, c \in DOMAIN blk : a < c => EndOf(blk, a) <= c
  <2>1. \A a \in DOMAIN blk : EndOf(blk, a) \in Nat /\ a < EndOf(blk, a)
    BY <1>3, HeapAssumption DEF EndOf
  <2> QED
    BY <2>1 DEF HInv, Tiled, Tiles
<1> HIDE DEF n
\* Only the block at the cursor ends where the absorbed one begins.
<1>10. \A a \in DOMAIN blk : a # cur => EndOf(blk, a) # n
  <2> SUFFICES ASSUME NEW a \in DOMAIN blk, a # cur, EndOf(blk, a) = n PROVE FALSE
    OBVIOUS
  <2>1. a < n /\ (a < cur \/ cur < a)
    BY <1>2, <1>3, <1>9
  <2>2. CASE a < cur
    BY <1>2, <1>3, <1>4, <1>9, <2>2
  <2>3. CASE cur < a
    BY <1>1, <1>2, <1>3, <1>9, <2>1, <2>3
  <2> QED
    BY <2>1, <2>2, <2>3
<1>11. n # HEAP_START
  BY <1>2, <1>3, <1>4, <1>9, HeapAssumption
<1>12. Tiles(blk', Top)
  <2>1. Top > HEAP_START => HEAP_START \in DOMAIN blk'
    BY Zenon, <1>5, <1>9, <1>11
  <2>2. \A a \in DOMAIN blk' : HEAP_START <= a /\ EndOf(blk', a) <= Top
    BY <1>2, <1>5, <1>7, <1>9
  <2>3. \A a \in DOMAIN blk' : IF blk'[a].next = Null THEN EndOf(blk', a) = Top
                              ELSE blk'[a].next = EndOf(blk', a) /\ EndOf(blk', a) \in DOMAIN blk'
    <3>1. \A a \in DOMAIN blk \ {n, cur} :
            IF blk'[a].next = Null THEN EndOf(blk', a) = Top
            ELSE blk'[a].next = EndOf(blk', a) /\ EndOf(blk', a) \in DOMAIN blk'
      BY <1>5, <1>7, <1>9, <1>10
    <3>2. IF blk'[cur].next = Null THEN EndOf(blk', cur) = Top
          ELSE blk'[cur].next = EndOf(blk', cur) /\ EndOf(blk', cur) \in DOMAIN blk'
      <4>1. EndOf(blk, n) # n
        BY <1>2, <1>3, <1>9
      <4> QED
        BY ZenonT(60), <1>2, <1>5, <1>6, <1>7, <1>9, <4>1
    <3> QED
      BY ZenonT(60), <1>5, <3>1, <3>2
  <2>4. \A a, c \in DOMAIN blk' : a < c => EndOf(blk', a) <= c
    <3>1. \A a, c \in DOMAIN blk \ {n} : a < c /\ a # cur => EndOf(blk', a) <= c
      BY <1>7, <1>9
    <3>2. ASSUME NEW c \in DOMAIN blk \ {n}, cur < c PROVE EndOf(blk, n) <= c
      <4>1. n <= c
        BY ZenonT(60), <1>1, <1>2, <1>9, <3>2
      <4>2. n < c
        BY <1>2, <1>3, <4>1
      <4> QED
        BY Zenon, <1>2, <1>9, <4>2
    <3> QED
      BY Zenon, <1>5, <1>7, <3>1, <3>2
  <2> QED
    BY <2>1, <2>2, <2>3, <2>4 DEF Tiles
<1>13. Backed(blk', live)
  BY ZenonT(60), <1>1, <1>2, <1>5, <1>6 DEF HInv, LiveBacked, Backed
<1>14. CurInv'
  <2> SUFFICES ASSUME NEW a \in DOMAIN blk', a < cur, blk'[a].is_free, blk'[a].next # Null
               PROVE  ~blk'[blk'[a].next].is_free
    BY ZenonT(60), <1>1, <1>2, <1>4, <1>5 DEF CurInv, Addrs
  <2>1. a \in DOMAIN blk /\ a # n /\ a # cur /\ blk'[a] = blk[a]
    BY <1>2, <1>3, <1>5
  <2>2. ~blk[blk[a].next].is_free
    BY Zenon, <1>1, <2>1 DEF HInv, CurInv, Addrs
  <2>3. blk[a].next # n /\ blk[a].next # cur /\ blk[a].next \in DOMAIN blk
    BY <1>1, <1>9, <2>1, <2>2
  <2> QED
    BY <1>5, <2>1, <2>2, <2>3
<1> QED
  <2>1. Top' = Top
    BY <1>1 DEF Top
  <2>2. TypeOK'
    BY <1>1, <1>8 DEF HInv, TypeOK
  <2>3. Tiled'
    BY <1>1, <1>12, <2>1 DEF HInv, Tiled
  <2>4. LiveBacked'
    BY <1>1, <1>13 DEF LiveBacked
  <2> QED
    BY <1>14, <2>2, <2>3, <2>4 DEF HInv

\* Where the loop moves on, its block and the next one are not both free.
LEMMA AdvancePast ==
  ASSUME HInv, CoalesceAdvance
  PROVE  \A a \in DOMAIN blk : a <= cur /\ blk[a].is_free /\ blk[a].next # Null
                                 => ~blk[blk[a].next].is_free
<1>1. cur # Null /\ cur \in DOMAIN blk /\ ~Mergeable(cur)
  BY DEF CoalesceAdvance, HInv, CurInv, Addrs
<1>2. blk[cur].is_free /\ blk[cur].next # Null => ~blk[blk[cur].next].is_free
  BY <1>1 DEF Mergeable, HInv, Tiled, Tiles
<1>3. \A a \in DOMAIN blk : a \in Nat /\ cur \in Nat
  BY DEF HInv, TypeOK, WellTyped
<1>4. \A a \in DOMAIN blk : a <= cur => a = cur \/ a < cur
  BY <1>3
<1> QED
  BY <1>1, <1>2, <1>4 DEF HInv, CurInv, Addrs

LEMMA AdvanceInv == ASSUME HInv, CoalesceAdvance PROVE HInv'
<1>1. /\ cur # Null /\ cur' = blk[cur].next /\ cur \in DOMAIN blk
      /\ UNCHANGED <<blk, HEAP_HEAD, HEAP_PAGES, frames, live, failed>>
  BY DEF CoalesceAdvance, HInv, CurInv, Addrs
<1>2. cur' \in Nat
  BY <1>1 DEF HInv, TypeOK, WellTyped
<1>3. TypeOK' /\ Tiled' /\ LiveBacked'
  BY <1>1, <1>2 DEF HInv, TypeOK, Tiled, LiveBacked, Top
<1>4. CurInv'
  <2> SUFFICES ASSUME cur' # Null
               PROVE  /\ cur' \in DOMAIN blk
                      /\ \A a \in DOMAIN blk : a < cur' => a <= cur
    BY <1>1, AdvancePast DEF CurInv, Addrs
  <2>1. cur' = EndOf(blk, cur) /\ EndOf(blk, cur) \in DOMAIN blk
    BY <1>1 DEF HInv, Tiled, Tiles
  <2>2. \A a, c \in DOMAIN blk : a < c => EndOf(blk, a) <= c
    BY DEF HInv, Tiled, Tiles
  <2>3. \A a \in DOMAIN blk : a \in Nat
    BY DEF HInv, TypeOK, WellTyped
  <2> QED
    BY <1>1, <2>1, <2>2, <2>3
<1> QED
  BY <1>3, <1>4 DEF HInv

LEMMA NextInv == HInv /\ [Next]_vars => HInv'
<1> SUFFICES ASSUME HInv, [Next]_vars PROVE HInv'
  OBVIOUS
<1>1. ASSUME NEW size \in Sizes, KmallocFit(size) PROVE HInv'
  BY <1>1, FitInv
<1>2. ASSUME NEW size \in Sizes, KmallocGrow(size) PROVE HInv'
  BY <1>2, GrowInv
<1>3. ASSUME NEW size \in Sizes, KmallocFails(size) PROVE HInv'
  <2>1. size \in Nat
    BY HeapAssumption
  <2> QED
    BY <1>3, <2>1 DEF KmallocFails, HInv, TypeOK, Tiled, LiveBacked, CurInv, Top, Addrs
<1>4. ASSUME NEW p \in DOMAIN live, Kfree(p) PROVE HInv'
  BY <1>4, KfreeInv
<1>5. CASE CoalesceMerge
  BY <1>5, MergeInv
<1>6. CASE CoalesceAdvance
  BY <1>6, AdvanceInv
<1>7. CASE OtherTakes
  <2>1. frames' \in Nat /\ failed' \in Nat
    BY <1>7 DEF OtherTakes, HInv, TypeOK
  <2> QED
    BY <1>7, <2>1 DEF OtherTakes, HInv, TypeOK, Tiled, LiveBacked, CurInv, Top, Addrs
<1>8. CASE UNCHANGED vars
  BY <1>8 DEF vars, HInv, TypeOK, Tiled, LiveBacked, CurInv, Top, Addrs
<1> QED
  BY <1>1, <1>2, <1>3, <1>4, <1>5, <1>6, <1>7, <1>8 DEF Next

-----------------------------------------------------------------------------
\* Every reachable state of the heap satisfies the inductive invariant.
THEOREM Invariance == Spec => []HInv
BY InitInv, NextInv, PTL DEF Spec

\* The variables keep their types.
THEOREM TypeCorrect == Spec => []TypeOK
<1>1. HInv => TypeOK
  BY DEF HInv
<1> QED
  BY <1>1, Invariance, PTL

\* The blocks always lie end to end from HEAP_START to the top of the heap.
THEOREM AlwaysTiled == Spec => []Tiled
<1>1. HInv => Tiled
  BY DEF HInv
<1> QED
  BY <1>1, Invariance, PTL

\* Every pointer a caller has is backed by a block of its own, large enough, and
\* no block in use is without a caller.
THEOREM AlwaysBacked == Spec => []LiveBacked
<1>1. HInv => LiveBacked
  BY DEF HInv
<1> QED
  BY <1>1, Invariance, PTL

\* When kfree returns, no free block is followed by a free block.
THEOREM AlwaysCoalesced == Spec => FreedCoalesced
<1> DEFINE Done == cur # Null /\ cur' = Null =>
                     \A a \in Addrs : blk[a].is_free /\ blk[a].next # Null =>
                                        ~blk[blk[a].next].is_free
<1>1. HInv /\ [Next]_vars => Done
  <2> SUFFICES ASSUME HInv, [Next]_vars, cur # Null, cur' = Null
               PROVE  \A a \in DOMAIN blk : blk[a].is_free /\ blk[a].next # Null =>
                                              ~blk[blk[a].next].is_free
    BY DEF Addrs
  <2>1. CoalesceAdvance
    BY Zenon DEF Next, KmallocFit, KmallocGrow, KmallocFails, Kfree, CoalesceMerge, AfterMerge,
           OtherTakes, vars
  <2>2. cur \in DOMAIN blk /\ blk[cur].next = Null
    BY Zenon, <2>1 DEF CoalesceAdvance, HInv, CurInv, Addrs
  <2>3. EndOf(blk, cur) = Top /\ (\A a \in DOMAIN blk : EndOf(blk, a) <= Top)
        /\ (\A a, c \in DOMAIN blk : a < c => EndOf(blk, a) <= c)
    BY <2>2 DEF HInv, Tiled, Tiles
  <2>4. \A a \in DOMAIN blk : a \in Nat /\ a < EndOf(blk, a) /\ EndOf(blk, a) \in Nat
    BY HeapAssumption DEF HInv, TypeOK, WellTyped, EndOf
  <2>5. \A a \in DOMAIN blk : a <= cur
    BY <2>2, <2>3, <2>4
  <2> QED
    BY <2>1, <2>5, AdvancePast
<1> QED
  BY <1>1, Invariance, PTL DEF Spec, FreedCoalesced

-----------------------------------------------------------------------------
\* A refusal is remembered only between two calls: kfree forgets it before
\* coalesce() starts to change the sizes of the free blocks.
RefusalInv == RefusedOnlyIfNoFit /\ (cur # Null => failed = 0)

LEMMA RefusalStep == HInv /\ RefusalInv /\ [Next]_vars => RefusalInv'
<1> SUFFICES ASSUME HInv, RefusalInv, [Next]_vars PROVE RefusalInv'
  OBVIOUS
<1>1. CASE failed' = 0
  BY <1>1 DEF RefusalInv, RefusedOnlyIfNoFit
<1>2. ASSUME NEW size \in Sizes, cur' = Null, failed' = size,
             NoFit(blk', Aligned(size)), WellTyped(blk')
      PROVE  RefusalInv'
  <2>1. Aligned(size) \in Nat
    BY AlignedEnough, HeapAssumption
  <2>2. ASSUME NEW a \in DOMAIN blk', blk'[a].is_free
        PROVE  blk'[a].size < Aligned(size)
    <3>1. blk'[a].size \in Nat
      BY <1>2 DEF WellTyped
    <3>2. ~(blk'[a].size >= Aligned(size))
      BY <1>2, <2>2 DEF NoFit, Fits
    <3> QED
      BY <2>1, <3>1, <3>2
  <2> QED
    BY <1>2, <2>2 DEF RefusalInv, RefusedOnlyIfNoFit, Addrs
<1>3. WellTyped(blk') /\ WellTyped(blk)
  BY NextInv DEF HInv, TypeOK
<1>4. ASSUME NEW size \in Sizes, KmallocGrow(size) PROVE RefusalInv'
  <2> DEFINE n == Aligned(size)
             b == Expanded(Mapped(NeedPages(n)))
  <2>1. failed' = 0 \/ (NoFit(b, n) /\ blk' = b /\ failed' = size)
    BY Zenon, <1>4 DEF KmallocGrow
  <2>2. cur' = Null
    BY Zenon, <1>4 DEF KmallocGrow
  <2> QED
    BY Zenon, <1>1, <1>2, <1>3, <2>1, <2>2
<1>5. ASSUME NEW size \in Sizes, KmallocFails(size) PROVE RefusalInv'
  BY Zenon, <1>2, <1>3, <1>5 DEF KmallocFails
<1>6. CASE CoalesceMerge \/ CoalesceAdvance
  BY Zenon, <1>1, <1>6 DEF CoalesceMerge, CoalesceAdvance, RefusalInv
<1>7. CASE UNCHANGED vars
  BY <1>7 DEF vars, RefusalInv, RefusedOnlyIfNoFit, Addrs
<1> QED
  BY Zenon, <1>1, <1>4, <1>5, <1>6, <1>7 DEF Next, KmallocFit, Kfree, OtherTakes

\* kmalloc returns null only if no free block, those of a growth that was cut
\* short included, holds the request: the first-fit scan of try_alloc misses
\* nothing, before the growth and in the retry after it.
THEOREM RefusalsJustified == Spec => []RefusedOnlyIfNoFit
<1>1. Init => RefusalInv
  BY DEF Init, RefusalInv, RefusedOnlyIfNoFit
<1>2. RefusalInv => RefusedOnlyIfNoFit
  BY DEF RefusalInv
<1> QED
  BY <1>1, <1>2, RefusalStep, Invariance, PTL DEF Spec

-----------------------------------------------------------------------------
(* The spinlock: the inductive invariant.                                  *)

\* Only the actor that has the CPU is inside a lock, and interrupts are off.
InsideInv ==
  /\ \A a \in Actors : a # Running => holding[a] = << >>
  /\ holding[Running] # << >> => ~irqs_on
  /\ irq # NoIrq => ~irqs_on
  /\ \A i \in Irqs : i # irq => wants[i] = << >>

\* The locks an actor is inside are different ones; the outermost remembers
\* the flag the actor came with, the others remember "disabled".
NestInv ==
  \A a \in Actors :
    /\ \A i, j \in 1 .. Len(holding[a]) : holding[a][i] = holding[a][j] => i = j
    /\ \A i \in 2 .. Len(holding[a]) : saved_flags[holding[a][i]] = FALSE
    /\ holding[a] # << >> => saved_flags[holding[a][1]] = before[a]
    /\ a \in Irqs /\ holding[a] # << >> => ~before[a]

\* Between pushfq and cli the local `flags` is the flag the actor has, or will
\* have when it gets the CPU back.
FlagsInv ==
  /\ wants[Running] # << >> =>
       /\ flags[Running] = irqs_on
       /\ ~Holds(Running, wants[Running][1])
  /\ irq # NoIrq /\ wants[thread] # << >> => flags[thread]
  /\ \A t \in Threads \ {thread} : wants[t] # << >> => flags[t] = parked[t]

SInv == LockTypeOK /\ InsideInv /\ NestInv /\ FlagsInv /\ LockedIffHeld

-----------------------------------------------------------------------------
\* The actor that has the CPU is a thread or a handler.
LEMMA RunningIsActor == LockTypeOK => Running \in Actors /\ thread \in Actors
BY DEF LockTypeOK, Running, Actors

LEMMA LockInitInv == LockInit => SInv
<1> SUFFICES ASSUME LockInit PROVE SInv
  OBVIOUS
<1>0. \A a \in Actors : holding[a] = << >> /\ wants[a] = << >> /\ Len(holding[a]) = 0
  BY DEF LockInit
<1>1. LockTypeOK
  BY ActorAssumption DEF LockInit, LockTypeOK
<1>2. Running \in Actors /\ thread \in Actors /\ Irqs \subseteq Actors
      /\ Threads \subseteq Actors
  BY <1>1, RunningIsActor DEF Actors
<1>3. InsideInv /\ FlagsInv
  BY Zenon, <1>0, <1>2, ActorAssumption DEF LockInit, InsideInv, FlagsInv
<1>4. NestInv /\ LockedIffHeld
  BY <1>0 DEF LockInit, NestInv, LockedIffHeld, Holds
<1> QED
  BY <1>1, <1>3, <1>4 DEF SInv

\* A step that moves the CPU, or only reads the flags, leaves the locks alone.
LEMMA LocksUntouched ==
  ASSUME SInv, UNCHANGED <<saved_flags, locked, holding, before>>
  PROVE  NestInv' /\ LockedIffHeld'
BY DEF SInv, NestInv, LockedIffHeld, Holds

LEMMA LockPushfInv == ASSUME SInv, NEW l \in Locks, LockPushf(l) PROVE SInv'
<1> DEFINE a == Running
<1>0. a \in Actors /\ thread \in Actors
  BY RunningIsActor DEF SInv
<1>1. /\ wants[a] = << >> /\ ~Holds(a, l)
      /\ flags' = [flags EXCEPT ![a] = irqs_on] /\ wants' = [wants EXCEPT ![a] = << l >>]
      /\ UNCHANGED <<saved_flags, locked, irqs_on, thread, irq, parked, holding, before>>
  BY DEF LockPushf
<1>2. LockTypeOK'
  BY ZenonT(60), <1>0, <1>1 DEF SInv, LockTypeOK
<1>3. Running' = Running
  BY Zenon, <1>1 DEF Running
<1>4. InsideInv'
  <2>1. \A i \in Irqs : i # irq => i # a /\ i \in Actors
    BY <1>0, ActorAssumption DEF Running, Actors, SInv, LockTypeOK
  <2> QED
    BY Zenon, <1>0, <1>1, <1>3, <2>1 DEF SInv, InsideInv, LockTypeOK
<1>5. FlagsInv'
  <2>1. wants'[a] = << l >> /\ flags'[a] = irqs_on
    BY Zenon, <1>0, <1>1 DEF SInv, LockTypeOK
  <2>2. \A b \in Actors : b # a => wants'[b] = wants[b] /\ flags'[b] = flags[b]
    BY Zenon, <1>0, <1>1 DEF SInv, LockTypeOK
  <2>3. Holds(a, l)' <=> Holds(a, l)
    BY <1>1, <1>3 DEF Holds
  <2>4. irq # NoIrq => thread # a
    BY ActorAssumption DEF Running, SInv, LockTypeOK
  <2>5. \A t \in Threads \ {thread} : t \in Actors /\ t # a
    BY ActorAssumption DEF Running, Actors, SInv, LockTypeOK
  <2>6. Running' = a /\ irqs_on' = irqs_on /\ thread' = thread /\ irq' = irq /\ parked' = parked
    BY Zenon, <1>1, <1>3
  <2>7. flags'[Running'] = irqs_on' /\ ~Holds(Running, wants[Running][1])'
    <3>1. wants'[a][1] = l
      BY <2>1
    <3>2. ~Holds(a, l)'
      BY Zenon, <1>1, <2>3
    <3> QED
      BY Zenon, <2>1, <2>6, <3>1, <3>2 DEF Holds
  <2>8. irq' # NoIrq /\ wants'[thread'] # << >> => flags'[thread']
    BY Zenon, <1>0, <2>2, <2>4, <2>6, RunningIsActor DEF SInv, FlagsInv
  <2>9. \A t \in Threads \ {thread'} : wants'[t] # << >> => flags'[t] = parked'[t]
    BY Zenon, <2>2, <2>5, <2>6 DEF SInv, FlagsInv
  <2> QED
    BY Zenon, <2>7, <2>8, <2>9 DEF FlagsInv
<1> QED
  BY <1>1, <1>2, <1>4, <1>5, LocksUntouched DEF SInv

LEMMA LockCliInv == ASSUME SInv, LockCli PROVE SInv'
<1> DEFINE a == Running
           l == wants[a][1]
           n == Len(holding[a])
<1>0. a \in Actors /\ thread \in Actors
  BY RunningIsActor DEF SInv
<1>1. /\ wants[a] # << >>
      /\ saved_flags' = [saved_flags EXCEPT ![l] = flags[a]] /\ locked' = [locked EXCEPT ![l] = 1]
      /\ holding' = [holding EXCEPT ![a] = Append(holding[a], l)]
      /\ irqs_on' = FALSE /\ wants' = [wants EXCEPT ![a] = << >>]
      /\ before' = [before EXCEPT ![a] = IF holding[a] = << >> THEN irqs_on ELSE before[a]]
      /\ UNCHANGED <<thread, irq, parked, flags>>
  BY Zenon DEF LockCli, Disable
<1>2. l \in Locks /\ flags[a] = irqs_on /\ ~Holds(a, l) /\ holding[a] \in Seq(Locks)
  BY <1>0, <1>1 DEF SInv, LockTypeOK, FlagsInv
<1>3. /\ Append(holding[a], l) \in Seq(Locks) /\ Len(Append(holding[a], l)) = n + 1
      /\ \A i \in 1 .. n : Append(holding[a], l)[i] = holding[a][i]
      /\ Append(holding[a], l)[n + 1] = l /\ n \in Nat
      /\ \A i \in 1 .. n + 1 : i \in 1 .. n \/ i = n + 1
  BY <1>2
<1>4. LockTypeOK'
  BY Zenon, <1>0, <1>1, <1>2, <1>3 DEF SInv, LockTypeOK
<1>5. Running' = Running /\ holding'[a] = Append(holding[a], l)
      /\ \A b \in Actors : b # a => holding'[b] = holding[b] /\ holding[b] = << >>
  BY ZenonT(60), <1>0, <1>1 DEF Running, SInv, LockTypeOK, InsideInv
<1>6. InsideInv'
  <2>1. \A i \in Irqs : i # irq => wants'[i] = << >>
    BY <1>0, <1>1 DEF SInv, InsideInv, LockTypeOK, Actors
  <2> QED
    BY Zenon, <1>1, <1>5, <2>1 DEF InsideInv
<1>7. NestInv'
  <2> SUFFICES ASSUME NEW b \in Actors
               PROVE  /\ \A i, j \in 1 .. Len(holding'[b]) :
                           holding'[b][i] = holding'[b][j] => i = j
                      /\ \A i \in 2 .. Len(holding'[b]) : saved_flags'[holding'[b][i]] = FALSE
                      /\ holding'[b] # << >> => saved_flags'[holding'[b][1]] = before'[b]
                      /\ b \in Irqs /\ holding'[b] # << >> => ~before'[b]
    BY Zenon DEF NestInv
  <2>1. CASE b # a
    BY <1>5, <2>1
  <2>2. CASE b = a
    <3>1. \A i \in 1 .. n : holding[a][i] # l /\ holding[a][i] \in Locks
      BY <1>2 DEF Holds
    <3>2. saved_flags'[l] = irqs_on /\ \A m \in Locks : m # l => saved_flags'[m] = saved_flags[m]
      BY ZenonT(60), <1>1, <1>2 DEF SInv, LockTypeOK
    <3>3. \A i, j \in 1 .. n + 1 :
            Append(holding[a], l)[i] = Append(holding[a], l)[j] => i = j
      BY <1>0, <1>3, <3>1 DEF SInv, NestInv
    <3>4. \A i \in 2 .. n + 1 : saved_flags'[Append(holding[a], l)[i]] = FALSE
      <4> SUFFICES ASSUME NEW i \in 2 .. n + 1
                   PROVE  saved_flags'[Append(holding[a], l)[i]] = FALSE
        BY Zenon
      <4>1. CASE i \in 2 .. n
        <5>1. i \in 1 .. n
          BY <1>3, <4>1
        <5>2. saved_flags[holding[a][i]] = FALSE
          BY Zenon, <1>0, <4>1 DEF SInv, NestInv
        <5> QED
          BY <1>3, <3>1, <3>2, <5>1, <5>2
      <4>2. CASE i = n + 1
        <5>1. holding[a] # << >> /\ irqs_on = FALSE
          BY <1>2, <1>3, <4>2 DEF SInv, InsideInv, LockTypeOK
        <5> QED
          BY Zenon, <1>3, <3>2, <4>2, <5>1
      <4>3. i \in 2 .. n \/ i = n + 1
        BY <1>3
      <4> QED
        BY Zenon, <4>1, <4>2, <4>3
    <3>5. saved_flags'[Append(holding[a], l)[1]] = before'[a]
      <4>1. CASE holding[a] = << >>
        BY <1>0, <1>1, <1>2, <1>3, <3>2, <4>1 DEF SInv, LockTypeOK
      <4>2. CASE holding[a] # << >>
        <5>1. 1 \in 1 .. n /\ before'[a] = before[a]
          BY <1>0, <1>1, <1>2, <4>2 DEF SInv, LockTypeOK
        <5> QED
          BY <1>0, <1>3, <3>1, <3>2, <4>2, <5>1 DEF SInv, NestInv
      <4> QED
        BY Zenon, <4>1, <4>2
    <3>6. a \in Irqs => ~before'[a]
      <4>1. a \in Irqs => irq # NoIrq /\ ~irqs_on
        BY Zenon, ActorAssumption DEF Running, SInv, LockTypeOK, InsideInv
      <4> QED
        BY ZenonT(60), <1>0, <1>1, <4>1 DEF SInv, LockTypeOK, NestInv
    <3>7. holding'[b] = Append(holding[a], l) /\ Len(holding'[b]) = n + 1
      BY ZenonT(60), <1>3, <1>5, <2>2
    <3> HIDE DEF a, l, n
    <3>8. \A i, j \in 1 .. Len(holding'[b]) : holding'[b][i] = holding'[b][j] => i = j
      BY Zenon, <3>3, <3>7
    <3>9. \A i \in 2 .. Len(holding'[b]) : saved_flags'[holding'[b][i]] = FALSE
      BY Zenon, <3>4, <3>7
    <3> QED
      BY Zenon, <2>2, <3>5, <3>6, <3>7, <3>8, <3>9
  <2> QED
    BY Zenon, <2>1, <2>2
<1>8. FlagsInv'
  <2>1. wants'[a] = << >> /\ \A b \in Actors : b # a => wants'[b] = wants[b]
    BY <1>0, <1>1 DEF SInv, LockTypeOK
  <2>2. \A t \in Threads \ {thread} : t \in Actors
    BY Zenon DEF Actors
  <2> QED
    BY Zenon, <1>0, <1>1, <1>5, <2>1, <2>2 DEF SInv, FlagsInv
<1>9. LockedIffHeld'
  <2>1. \A m \in Locks : Holds(a, m)' <=> Holds(a, m) \/ m = l
    BY <1>3, <1>5 DEF Holds
  <2>2. \A b \in Actors, m \in Locks : b # a => ~Holds(b, m)' /\ ~Holds(b, m)
    BY <1>5 DEF Holds
  <2>3. locked'[l] = 1 /\ \A m \in Locks : m # l => locked'[m] = locked[m]
    BY ZenonT(60), <1>1, <1>2 DEF SInv, LockTypeOK
  <2> QED
    BY <1>0, <1>2, <1>5, <2>1, <2>2, <2>3 DEF SInv, LockedIffHeld
<1> QED
  BY <1>4, <1>6, <1>7, <1>8, <1>9 DEF SInv

\* A depth that is not 1 is at least 2.
LEMMA DepthTwo == \A k \in Nat \ {0} : k # 1 => k \in 2 .. k
OBVIOUS

\* What unlock() does: the innermost lock goes, the rest stays as it was.
LEMMA UnlockStep ==
  ASSUME SInv, Unlock
  PROVE  LET a == Running
             n == Len(holding[a])
         IN /\ a \in Actors /\ n \in Nat \ {0}
            /\ holding'[a] \in Seq(Locks) /\ Len(holding'[a]) = n - 1
            /\ \A i \in 1 .. n - 1 : holding'[a][i] = holding[a][i]
            /\ \A b \in Actors : b # a => holding'[b] = holding[b] /\ holding[b] = << >>
            /\ holding[a][n] \in Locks
            /\ holding' = [holding EXCEPT ![a] = SubSeq(holding[a], 1, n - 1)]
<1> DEFINE a == Running
           n == Len(holding[a])
<1>0. a \in Actors
  BY RunningIsActor DEF SInv
<1>1. n > 0 /\ holding' = [holding EXCEPT ![a] = SubSeq(holding[a], 1, n - 1)]
  BY DEF Unlock
<1>2. holding[a] \in Seq(Locks) /\ n \in Nat
  BY <1>0 DEF SInv, LockTypeOK
<1>3. /\ SubSeq(holding[a], 1, n - 1) \in Seq(Locks)
      /\ Len(SubSeq(holding[a], 1, n - 1)) = n - 1
      /\ \A i \in 1 .. n - 1 : SubSeq(holding[a], 1, n - 1)[i] = holding[a][i]
  BY <1>1, <1>2
<1>4. holding'[a] = SubSeq(holding[a], 1, n - 1)
      /\ \A b \in Actors : b # a => holding'[b] = holding[b] /\ holding[b] = << >>
  BY <1>0, <1>1 DEF SInv, LockTypeOK, InsideInv
<1> QED
  BY <1>0, <1>1, <1>2, <1>3, <1>4

LEMMA UnlockInv == ASSUME SInv, Unlock PROVE SInv'
<1> DEFINE a == Running
           n == Len(holding[a])
           l == holding[a][n]
<1>1. /\ a \in Actors /\ n \in Nat \ {0}
      /\ holding'[a] \in Seq(Locks) /\ Len(holding'[a]) = n - 1
      /\ \A i \in 1 .. n - 1 : holding'[a][i] = holding[a][i]
      /\ \A b \in Actors : b # a => holding'[b] = holding[b] /\ holding[b] = << >>
      /\ l \in Locks /\ holding' = [holding EXCEPT ![a] = SubSeq(holding[a], 1, n - 1)]
  BY Zenon, UnlockStep
<1>2. /\ locked' = [locked EXCEPT ![l] = 0] /\ irqs_on' = saved_flags[l] /\ wants[a] = << >>
      /\ UNCHANGED <<saved_flags, thread, irq, parked, flags, wants, before>>
  BY DEF Unlock, Clear, Restore
<1>3. holding' \in [Actors -> Seq(Locks)]
  BY Zenon, <1>1 DEF SInv, LockTypeOK
<1>4. LockTypeOK'
  BY ZenonT(60), <1>1, <1>2, <1>3 DEF SInv, LockTypeOK
<1>5. Running' = Running /\ thread \in Actors
  BY Zenon, <1>2, RunningIsActor DEF Running, SInv
<1>6. InsideInv'
  <2>1. holding'[a] # << >> => n \in 2 .. Len(holding[a])
    BY <1>1
  <2>2. n \in 2 .. Len(holding[a]) => saved_flags[l] = FALSE
    BY ZenonT(60), <1>1 DEF SInv, NestInv
  <2>3. irq # NoIrq => saved_flags[l] = FALSE
    <3>1. CASE n = 1
      <4>1. irq # NoIrq => a \in Irqs
        BY DEF Running, SInv, LockTypeOK
      <4>2. holding[a] # << >>
        BY <1>1
      <4> QED
        BY <1>1, <3>1, <4>1, <4>2 DEF SInv, NestInv, LockTypeOK
    <3>2. CASE n # 1
      <4>1. n \in Nat \ {0} /\ n # 1
        BY <1>1, <3>2
      <4>2. n \in 2 .. n
        BY <4>1, DepthTwo, Zenon
      <4> QED
        BY <2>2, <4>2, Zenon
    <3> QED
      BY Zenon, <3>1, <3>2
  <2> QED
    BY ZenonT(60), <1>1, <1>2, <1>5, <2>1, <2>2, <2>3 DEF SInv, InsideInv
<1>7. NestInv'
  <2> SUFFICES ASSUME NEW b \in Actors
               PROVE  /\ \A i, j \in 1 .. Len(holding'[b]) :
                           holding'[b][i] = holding'[b][j] => i = j
                      /\ \A i \in 2 .. Len(holding'[b]) : saved_flags[holding'[b][i]] = FALSE
                      /\ holding'[b] # << >> => saved_flags[holding'[b][1]] = before[b]
                      /\ b \in Irqs /\ holding'[b] # << >> => ~before[b]
    BY Zenon, <1>2 DEF NestInv
  <2>1. CASE b # a
    BY <1>1, <2>1
  <2>2. CASE b = a
    <3>1. /\ \A i, j \in 1 .. n : holding[a][i] = holding[a][j] => i = j
          /\ \A i \in 2 .. n : saved_flags[holding[a][i]] = FALSE
          /\ holding[a] # << >> => saved_flags[holding[a][1]] = before[a]
          /\ a \in Irqs /\ holding[a] # << >> => ~before[a]
      BY Zenon, <1>1 DEF SInv, NestInv
    <3>2. holding[a] # << >>
      BY <1>1
    <3>3. holding'[a] # << >> => 1 \in 1 .. n - 1
      BY <1>1
    <3>4. \A i \in 1 .. n - 1 : i \in 1 .. n
      BY <1>1
    <3>5. \A i \in 2 .. n - 1 : i \in 2 .. n /\ i \in 1 .. n - 1
      BY <1>1
    <3> HIDE DEF a, n, l
    <3> QED
      BY <1>1, <2>2, <3>1, <3>2, <3>3, <3>4, <3>5
  <2> QED
    BY Zenon, <2>1, <2>2
<1>8. FlagsInv'
  <2>1. \A t \in Threads \ {thread} : t \in Actors
    BY Zenon DEF Actors
  <2> QED
    BY ZenonT(60), <1>2, <1>5, <2>1 DEF SInv, FlagsInv
<1>9. LockedIffHeld'
  <2>1. \A m \in Locks : Holds(a, m)' <=> Holds(a, m) /\ m # l
    <3>1. \A i, j \in 1 .. n : holding[a][i] = holding[a][j] => i = j
      BY <1>1 DEF SInv, NestInv
    <3>2. \A i \in 1 .. n : i \in 1 .. n - 1 \/ i = n
      BY <1>1
    <3>3. \A i \in 1 .. n - 1 : i \in 1 .. n /\ i # n
      BY <1>1
    <3>4. n \in 1 .. n
      BY <1>1
    <3> SUFFICES ASSUME NEW m \in Locks
                 PROVE  (\E i \in 1 .. n - 1 : holding'[a][i] = m)
                          <=> (\E i \in 1 .. n : holding[a][i] = m) /\ m # l
      BY <1>1, <1>5 DEF Holds
    <3>5. \A i \in 1 .. n - 1 : holding'[a][i] = holding[a][i]
      BY <1>1
    <3>6. l = holding[a][n]
      OBVIOUS
    <3> HIDE DEF a, n, l
    <3> QED
      BY Zenon, <3>1, <3>2, <3>3, <3>4, <3>5, <3>6
  <2>2. \A b \in Actors, m \in Locks : b # a => ~Holds(b, m)' /\ ~Holds(b, m)
    BY <1>1 DEF Holds
  <2>3. locked'[l] = 0 /\ \A m \in Locks : m # l => locked'[m] = locked[m]
    BY ZenonT(60), <1>1, <1>2 DEF SInv, LockTypeOK
  <2> QED
    BY <1>1, <1>5, <2>1, <2>2, <2>3 DEF SInv, LockedIffHeld
<1> QED
  BY <1>4, <1>6, <1>7, <1>8, <1>9 DEF SInv

\* The gate and iretq: the handler has no lock at either end.
LEMMA FlagInv == ASSUME SInv, NEW i \in Irqs, Interrupt(i) PROVE SInv'
<1>1. /\ irqs_on /\ irq = NoIrq /\ irq' = i /\ irqs_on' = FALSE
      /\ UNCHANGED <<saved_flags, locked, thread, parked, holding, flags, wants, before>>
  BY Zenon DEF Interrupt
<1>2. /\ i \in Actors /\ thread \in Actors /\ Running = thread /\ Running' = i
      /\ i # NoIrq /\ i # thread
  BY ZenonT(60), <1>1, ActorAssumption DEF Running, SInv, LockTypeOK, Actors
<1>3. LockTypeOK'
  BY Zenon, <1>1 DEF SInv, LockTypeOK
<1>4. holding[thread] = << >> /\ holding[i] = << >> /\ wants[i] = << >>
  BY <1>1, <1>2 DEF SInv, InsideInv
<1>5. InsideInv'
  <2>1. \A b \in Actors : holding[b] = << >>
    BY <1>2, <1>4 DEF SInv, InsideInv
  <2>2. \A j \in Irqs : j # i => wants[j] = << >>
    BY Zenon, <1>1, ActorAssumption DEF SInv, InsideInv
  <2> QED
    BY <1>1, <1>2, <2>1, <2>2 DEF InsideInv
<1>6. FlagsInv'
  <2>1. wants[thread] # << >> => flags[thread] = TRUE
    BY Zenon, <1>1, <1>2 DEF SInv, FlagsInv, LockTypeOK
  <2> QED
    BY Zenon, <1>1, <1>2, <1>4, <2>1 DEF SInv, FlagsInv
<1> QED
  BY <1>1, <1>3, <1>5, <1>6, LocksUntouched DEF SInv

LEMMA IretInv == ASSUME SInv, Iret PROVE SInv'
<1>1. /\ irq # NoIrq /\ holding[irq] = << >> /\ wants[irq] = << >>
      /\ irq' = NoIrq /\ irqs_on' = TRUE
      /\ UNCHANGED <<saved_flags, locked, thread, parked, holding, flags, wants, before>>
  BY Zenon DEF Iret
<1>2. thread \in Actors /\ Running = irq /\ Running' = thread /\ thread # irq
      /\ irq \in Irqs
  BY <1>1, ActorAssumption DEF Running, SInv, LockTypeOK, Actors
<1>3. LockTypeOK'
  BY Zenon, <1>1 DEF SInv, LockTypeOK
<1>4. \A b \in Actors : holding[b] = << >> /\ Len(holding[b]) = 0
  BY <1>1, <1>2 DEF SInv, InsideInv
<1>5. InsideInv'
  BY <1>1, <1>2, <1>4 DEF SInv, InsideInv
<1>6. FlagsInv'
  <2>1. wants[thread] # << >> => flags[thread] = TRUE
    BY ZenonT(60), <1>1, <1>2 DEF SInv, FlagsInv, LockTypeOK
  <2>2. \A m : ~Holds(thread, m)'
    BY <1>1, <1>2, <1>4 DEF Holds
  <2> QED
    BY Zenon, <1>1, <1>2, <2>1, <2>2 DEF SInv, FlagsInv
<1> QED
  BY <1>1, <1>3, <1>5, <1>6, LocksUntouched DEF SInv

\* Handing the CPU to another thread, by the timer or by yield_thread().
LEMMA SwitchInv ==
  ASSUME SInv, NEW t \in Threads, irq = NoIrq, holding[thread] = << >>,
         wants[thread] # << >> => flags[thread] = irqs_on,
         parked' = [parked EXCEPT ![thread] = irqs_on],
         thread' = t, irqs_on' = parked'[t],
         UNCHANGED <<saved_flags, locked, irq, holding, flags, wants, before>>
  PROVE  SInv'
<1>1. /\ t \in Actors /\ thread \in Actors /\ thread \in Threads
      /\ Running = thread /\ Running' = t
  BY Zenon DEF Running, SInv, LockTypeOK, Actors
<1>2. LockTypeOK'
  BY Zenon DEF SInv, LockTypeOK
<1>3. \A b \in Actors : holding[b] = << >> /\ Len(holding[b]) = 0
  BY <1>1 DEF SInv, InsideInv
<1>4. InsideInv'
  BY Zenon, <1>1, <1>3 DEF SInv, InsideInv
<1>5. FlagsInv'
  <2>1. \A u \in Threads : wants[u] # << >> => flags[u] = parked'[u]
    BY Zenon, <1>1 DEF SInv, FlagsInv, LockTypeOK
  <2>2. \A m : ~Holds(t, m)'
    BY <1>1, <1>3 DEF Holds
  <2> QED
    BY Zenon, <1>1, <2>1, <2>2 DEF FlagsInv
<1> QED
  BY Zenon, <1>2, <1>4, <1>5, LocksUntouched DEF SInv

LEMMA LockNextInv == SInv /\ [LockNext]_lock_vars => SInv'
<1> SUFFICES ASSUME SInv, [LockNext]_lock_vars PROVE SInv'
  OBVIOUS
<1>0. irq = NoIrq => /\ Running = thread
                     /\ wants[thread] # << >> => flags[thread] = irqs_on
  BY DEF Running, SInv, FlagsInv
<1>1. ASSUME NEW l \in Locks, LockPushf(l) PROVE SInv'
  BY <1>1, LockPushfInv
<1>2. CASE LockCli
  BY <1>2, LockCliInv
<1>3. CASE Unlock
  BY <1>3, UnlockInv
<1>4. CASE Iret
  BY <1>4, IretInv
<1>5. ASSUME NEW i \in Irqs, Interrupt(i) PROVE SInv'
  BY <1>5, FlagInv
<1>6. ASSUME NEW t \in Threads, Preempt(t) PROVE SInv'
  <2>1. irqs_on = TRUE /\ irq = NoIrq
    BY <1>6 DEF Preempt, SInv, LockTypeOK
  <2>2. holding[thread] = << >>
    BY Zenon, <1>0, <2>1 DEF SInv, InsideInv
  <2> QED
    BY Zenon, <1>0, <1>6, <2>1, <2>2, SwitchInv DEF Preempt
<1>7. ASSUME NEW t \in Threads, yield_thread(t) PROVE SInv'
  BY ZenonT(60), <1>0, <1>7, SwitchInv DEF yield_thread
<1>8. CASE UNCHANGED lock_vars
  <2>1. LockTypeOK' /\ InsideInv' /\ FlagsInv'
    BY ZenonT(60), <1>8 DEF lock_vars, SInv, LockTypeOK, InsideInv, FlagsInv, Running, Holds
  <2> QED
    BY ZenonT(60), <1>8, <2>1, LocksUntouched DEF lock_vars, SInv
<1> QED
  BY Zenon, <1>1, <1>2, <1>3, <1>4, <1>5, <1>6, <1>7, <1>8 DEF LockNext

-----------------------------------------------------------------------------
\* Every reachable state of the lock satisfies the inductive invariant.
THEOREM LockInvariance == LockSpec => []SInv
BY LockInitInv, LockNextInv, PTL DEF LockSpec

\* No two actors are ever inside the same lock.
THEOREM ExcludesAlways == LockSpec => []MutualExclusion
<1>1. SInv => MutualExclusion
  <2> SUFFICES ASSUME SInv, NEW a \in Actors, NEW b \in Actors, NEW l \in Locks,
                      Holds(a, l), Holds(b, l)
               PROVE  a = b
    BY DEF MutualExclusion
  <2>1. \A x \in Actors : Holds(x, l) => holding[x] # << >>
    BY DEF Holds
  <2> QED
    BY <2>1 DEF SInv, InsideInv
<1> QED
  BY <1>1, LockInvariance, PTL

\* `locked` is 1 exactly while somebody is inside the lock.
THEOREM LockedIffHeldAlways == LockSpec => []LockedIffHeld
<1>1. SInv => LockedIffHeld
  BY DEF SInv
<1> QED
  BY <1>1, LockInvariance, PTL

\* The variables keep their types.
THEOREM LockTypeCorrect == LockSpec => []LockTypeOK
<1>1. SInv => LockTypeOK
  BY DEF SInv
<1> QED
  BY <1>1, LockInvariance, PTL

\* Leaving the outermost lock restores the interrupt flag the actor came with;
\* leaving an inner one keeps interrupts off.
THEOREM FlagsAlwaysRestored == LockSpec => FlagsRestored
<1> DEFINE Restored == \A a \in Actors : Len(holding'[a]) < Len(holding[a]) =>
                         irqs_on' = (holding'[a] = << >> /\ before[a])
<1>1. SInv /\ [LockNext]_lock_vars => Restored
  <2> SUFFICES ASSUME SInv, [LockNext]_lock_vars, NEW a \in Actors,
                      Len(holding'[a]) < Len(holding[a])
               PROVE  irqs_on' = (holding'[a] = << >> /\ before[a])
    OBVIOUS
  <2>1. holding[a] \in Seq(Locks) /\ Len(holding[a]) \in Nat
    BY DEF SInv, LockTypeOK
  <2>2. holding' # holding
    BY <2>1
  <2>3. ~LockCli
    <3> SUFFICES ASSUME LockCli PROVE FALSE
      BY Zenon
    <3>1. holding'[a] = holding[a] \/ holding'[a] = Append(holding[a], wants[a][1])
      BY Zenon DEF LockCli, SInv, LockTypeOK
    <3>2. wants[Running] # << >> /\ Running \in Actors
      BY Zenon, RunningIsActor DEF LockCli, SInv
    <3>3. CASE a = Running
      <4>1. wants[a][1] \in Locks
        BY <3>2, <3>3 DEF SInv, LockTypeOK
      <4> QED
        BY <2>1, <3>1, <4>1
    <3>4. CASE a # Running
      BY <2>1, <3>4 DEF LockCli, SInv, LockTypeOK
    <3> QED
      BY <3>3, <3>4
  <2>4. Unlock
    BY ZenonT(60), <2>2, <2>3 DEF LockNext, LockPushf, Iret, Interrupt, Preempt, yield_thread, lock_vars
  <2> DEFINE n == Len(holding[a])
             l == holding[a][n]
  <2>5. a = Running
    BY <2>1, <2>4, UnlockStep
  <2>6. n \in Nat \ {0} /\ Len(holding'[a]) = n - 1 /\ holding'[a] \in Seq(Locks)
    BY Zenon, <2>4, <2>5, UnlockStep
  <2>7. irqs_on' = saved_flags[l]
    BY <2>4, <2>5 DEF Unlock, Restore
  <2>8. CASE n = 1
    <3>1. holding'[a] = << >> /\ holding[a] # << >>
      <4>1. Len(holding'[a]) = 0 /\ Len(holding[a]) # 0
        BY <2>6, <2>8
      <4>2. \A q \in Seq(Locks) : Len(q) = 0 <=> q = << >>
        OBVIOUS
      <4>3. holding[a] # << >>
        BY <4>1
      <4> QED
        BY <2>6, <4>1, <4>2, <4>3, Zenon
    <3>2. saved_flags[holding[a][1]] = before[a]
      BY <3>1 DEF SInv, NestInv
    <3>3. l = holding[a][1]
      BY Zenon, <2>8
    <3> HIDE DEF l
    <3>4. irqs_on' = before[a] /\ before[a] \in BOOLEAN
      BY ZenonT(60), <2>7, <3>2, <3>3 DEF SInv, LockTypeOK
    <3> QED
      BY <3>1, <3>4, Zenon
  <2>9. CASE n # 1
    <3>0. n \in Nat \ {0} /\ n # 1
      BY <2>6, <2>9
    <3>1. holding'[a] # << >> /\ n \in 2 .. Len(holding[a])
      <4>1. n \in 2 .. Len(holding[a])
        BY <3>0, DepthTwo, Zenon
      <4>2. holding'[a] # << >>
        <5> HIDE DEF n
        <5>1. Len(holding'[a]) # 0
          BY <2>6, <3>0
        <5> QED
          BY <5>1
      <4> QED
        BY <4>1, <4>2
    <3>2. saved_flags[l] = FALSE
      BY <3>1 DEF SInv, NestInv
    <3> HIDE DEF l
    <3> QED
      BY <2>7, <3>1, <3>2, Zenon
  <2> QED
    BY <2>8, <2>9
<1> QED
  BY <1>1, LockInvariance, PTL DEF LockSpec, FlagsRestored

=============================================================================
