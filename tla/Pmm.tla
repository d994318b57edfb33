-------------------------------- MODULE Pmm --------------------------------
(***************************************************************************)
(* The physical page allocator (src/pmm.rs): a bitmap with one bit per     *)
(* page, set = used, a count of the clear bits, and the set-up from the    *)
(* Multiboot memory map.  Its callers hold the CPU with interrupts off or  *)
(* are the only thread that allocates, so each call is one action.         *)
(***************************************************************************)
EXTENDS Integers, FiniteSets, FiniteSetsExt

CONSTANTS
  MAX_PAGES,     \* pages the bitmap covers
  PAGE_SIZE,     \* bytes of a page
  LOW_END,       \* 0x100000: end of legacy memory, start of the kernel image
  KERNEL_END,    \* __bss_end
  MemoryMaps,    \* Multiboot maps: sets of [base, length, type] regions
  Ranges,        \* <<start, end>> of the Multiboot structures and modules
  Clients,       \* heap, page tables, ELF loader, brk, mmap
  Nobody

ASSUME PmmAssumption ==
  /\ MAX_PAGES \in Nat \ {0} /\ PAGE_SIZE \in Nat \ {0}
  /\ LOW_END \in Nat \ {0} /\ KERNEL_END \in Nat /\ LOW_END <= KERNEL_END
  /\ MemoryMaps \subseteq SUBSET [base : Nat, length : Nat, type : Nat]
  /\ Ranges \subseteq Nat \X Nat
  /\ Nobody \notin Clients

Pages == 0 .. MAX_PAGES - 1

VARIABLES
  BITMAP,        \* the pages whose bit is set
  FREE_PAGES,
  TOTAL_PAGES,
  boot,          \* how far kernel_main is: "start", "reserve" or "up"
  map,           \* the memory map the machine was booted with
  reserved,      \* history: <<start, end>> of the memory set aside at boot
  owner          \* history: who got a page from alloc_page

pmm_vars == <<BITMAP, FREE_PAGES, TOTAL_PAGES, boot, map, reserved, owner>>

PmmInit ==
  /\ BITMAP = {} /\ FREE_PAGES = 0 /\ TOTAL_PAGES = 0
  /\ boot = "start" /\ map \in MemoryMaps
  /\ reserved = {} /\ owner = [p \in Pages |-> Nobody]

-----------------------------------------------------------------------------

\* The pages mark_region_free clears: the region's start and end are both
\* rounded down.
FreeSpan(base, length) ==
  {p \in Pages : base \div PAGE_SIZE <= p /\ p < (base + length) \div PAGE_SIZE}

\* Mutant: the end is rounded down.
UsedSpanDown(base, length) ==
  {p \in Pages : base \div PAGE_SIZE <= p /\ p < (base + length) \div PAGE_SIZE}

\* The pages mark_region_used sets: the end is rounded up.
UsedSpan(base, length) ==
  {p \in Pages : base \div PAGE_SIZE <= p
                 /\ p < (base + length + PAGE_SIZE - 1) \div PAGE_SIZE}

\* The type-1 regions of the map; pages beyond the bitmap are clamped away.
Available(m) == UNION {FreeSpan(r.base, r.length) : r \in {q \in m : q.type = 1}}

\* Mutant: every page of the span is counted, whether its bit was set or not.
NewlyUsedAll(span, bitmap) == span

\* The pages whose bit mark_region_used finds clear: only those are counted.
NewlyUsed(span, bitmap) == span \ bitmap

\* init(): everything used, then the available regions freed, then the first
\* megabyte and the kernel image reserved.
init ==
  LET avail == Available(map)
      kept == UsedSpan(0, LOW_END) \cup UsedSpan(LOW_END, KERNEL_END - LOW_END)
      bitmap == (Pages \ avail) \cup kept
      free == Cardinality(avail) - Cardinality(NewlyUsed(kept, Pages \ avail))
  IN /\ boot = "start" /\ boot' = "reserve"
     /\ BITMAP' = bitmap /\ FREE_PAGES' = free
     /\ TOTAL_PAGES' = free + Cardinality(bitmap)
     /\ reserved' = {<<0, LOW_END>>, <<LOW_END, KERNEL_END>>}
     /\ UNCHANGED <<map, owner>>

\* kernel_main reserves the Multiboot structures and the initrd module.
reserve_range(start, end) ==
  LET span == IF end <= start THEN {} ELSE UsedSpan(start, end - start) IN
  /\ boot = "reserve"
  /\ BITMAP' = BITMAP \cup span
  /\ FREE_PAGES' = FREE_PAGES - Cardinality(NewlyUsed(span, BITMAP))
  /\ reserved' = reserved \cup {<<start, end>>}
  /\ UNCHANGED <<TOTAL_PAGES, boot, map, owner>>

BootDone ==
  /\ boot = "reserve" /\ boot' = "up"
  /\ UNCHANGED <<BITMAP, FREE_PAGES, TOTAL_PAGES, map, reserved, owner>>

-----------------------------------------------------------------------------
\* The scan takes the lowest clear bit; 0 means out of memory.
FirstFree(bitmap) == IF Pages \subseteq bitmap THEN 0 ELSE Min(Pages \ bitmap)

\* Mutant: the bit of the page handed out is not set.
TakeNothing(p) == UNCHANGED BITMAP

Take(p) == BITMAP' = BITMAP \cup {p}

alloc_page(c) ==
  /\ boot = "up" /\ ~(Pages \subseteq BITMAP)
  /\ LET p == FirstFree(BITMAP) IN
     /\ Take(p) /\ FREE_PAGES' = FREE_PAGES - 1
     /\ owner' = [owner EXCEPT ![p] = c]
  /\ UNCHANGED <<TOTAL_PAGES, boot, map, reserved>>

\* alloc_page() returned 0: nothing changes but the caller's fortune.
alloc_page_fails ==
  /\ boot = "up" /\ Pages \subseteq BITMAP
  /\ UNCHANGED pmm_vars

Freeable(p) == p # 0 /\ p < MAX_PAGES

\* free_page() by the owner, or of the 0 that a failed alloc_page returned.
free_page(p) ==
  /\ boot = "up" /\ (p \in Pages => p = 0 \/ owner[p] # Nobody)
  /\ Freeable(p) /\ p \in BITMAP
  /\ BITMAP' = BITMAP \ {p} /\ FREE_PAGES' = FREE_PAGES + 1
  /\ owner' = [owner EXCEPT ![p] = Nobody]
  /\ UNCHANGED <<TOTAL_PAGES, boot, map, reserved>>

PmmNext ==
  \/ init \/ BootDone
  \/ \E r \in Ranges : reserve_range(r[1], r[2])
  \/ \E c \in Clients : alloc_page(c)
  \/ alloc_page_fails
  \/ \E p \in 0 .. MAX_PAGES : free_page(p)

PmmSpec == PmmInit /\ [][PmmNext]_pmm_vars

-----------------------------------------------------------------------------
\* FREE_PAGES, a u32, never underflows and never exceeds the bitmap.
PmmTypeOK ==
  /\ BITMAP \subseteq Pages /\ FREE_PAGES \in 0 .. MAX_PAGES
  /\ TOTAL_PAGES \in 0 .. MAX_PAGES
  /\ boot \in {"start", "reserve", "up"} /\ map \in MemoryMaps
  /\ reserved \subseteq Nat \X Nat
  /\ owner \in [Pages -> Clients \cup {Nobody}]

\* Through overlapping regions, reservations, allocations and frees, FREE_PAGES
\* (what `meminfo` prints) is the number of clear bits.
CountExact ==
  boot # "start" => FREE_PAGES = Cardinality(Pages \ BITMAP)

\* A page that somebody has is never handed to anybody else.
NoStealing ==
  [][\A p \in Pages : owner[p] # Nobody => owner'[p] \in {owner[p], Nobody}]_pmm_vars

\* The pages that bytes of the range lie in.
Touched(r) == {p \in Pages : r[1] < r[2] /\ p * PAGE_SIZE < r[2] /\ r[1] < (p + 1) * PAGE_SIZE}

\* No byte of legacy memory, of the kernel image or of the boot modules is in a
\* page that is handed out, wherever in a page they begin and end; page 0 is
\* one of them, so that no successful alloc_page() returns 0.
ReservedKept ==
  /\ boot # "start" => 0 \in BITMAP /\ owner[0] = Nobody
  /\ \A r \in reserved : \A p \in Touched(r) : p \in BITMAP /\ owner[p] = Nobody

=============================================================================
