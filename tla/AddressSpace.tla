---------------------------- MODULE AddressSpace ----------------------------
(***************************************************************************)
(* Who maps pages: the kernel heap when it grows (src/heap.rs), programs   *)
(* through brk and mmap (src/syscall.rs), the ELF loader (src/elf.rs).     *)
(* Programs and the heap run with interrupts off, so each call is atomic.  *)
(***************************************************************************)
EXTENDS Vmm

CONSTANTS
  ClientSets,    \* who may map pages: sets of "boot", "heap", "mmap", "fixed",
                 \* "brk", "elf" and "unmap"
  ModulePages,   \* where the boot loader put the modules
  HEAP_START_PAGE, HEAP_PAGES_MAX,
  MMAP_START,    \* initial MMAP_NEXT
  FixedPages,    \* pages programs ask for with MAP_FIXED
  Segments,      \* <<first page, pages>> of ELF segments
  PageBytes,
  Breaks         \* addresses programs pass to brk

\* Modules, heap and mmap's own choices lie below 4 GB.  Programs' requests lie
\* above, within the four levels.  The boot tables lie below what mmap hands out,
\* and none is the first frame of a large page.
ASSUME SpaceAssumption ==
  /\ PageBytes \in Nat \ {0} /\ MMAP_START \in Nat
  /\ ModulePages \subseteq Frames /\ FixedPages \subseteq HighPages
  /\ HEAP_START_PAGE \in Nat /\ HEAP_PAGES_MAX \in Nat
  /\ HEAP_START_PAGE + HEAP_PAGES_MAX <= Identity
  /\ \A s \in Segments : s[1] \in Nat /\ s[2] \in Nat /\ s[1] + s[2] <= K * K * K * K
  /\ Breaks \subseteq 0 .. K * K * K * K * PageBytes
  /\ \A f \in {Pml4, Pdpt, Pd} : f < MMAP_START /\ \A i \in 1 .. K - 1 : f # i * K

VARIABLES
  HEAP_MAPPED,
  MMAP_NEXT,
  CURRENT_BRK,   \* an address, not a page number
  halted,        \* the kernel itself faulted: isr_handler stops the machine
  clients,       \* who maps pages in this behaviour
  asked          \* history: the frame each page was last given

space_vars == <<mem, used, tables, HEAP_MAPPED, MMAP_NEXT, CURRENT_BRK, halted, clients, asked>>

SpaceInit ==
  /\ VmmInit
  /\ HEAP_MAPPED = 0 /\ MMAP_NEXT = MMAP_START /\ CURRENT_BRK = 0
  /\ halted = FALSE /\ clients \in ClientSets /\ asked = [v \in {} |-> 0]

Runs(client) == client \in clients /\ ~halted /\ UNCHANGED clients

State == [mem |-> mem, used |-> used, tables |-> tables]

\* Mutant: the frame is not taken out of the PMM.
TakeFrameNot(st, f) == st

TakeFrame(st, f) == [st EXCEPT !.used = @ \cup {f}]

AllMapped(m, v, n) == \A p \in v .. v + n - 1 : Translate(m, p) # 0

\* Memory of pages v .. v+n-1, all mapped, after a memset or a memcpy.
Fill(m, v, n, content) ==
  LET hit == {Translate(m, p) : p \in v .. v + n - 1}
  IN [f \in Frames |-> IF f \in hit THEN content ELSE m[f]]

\* The loop of the four callers: a frame and a mapping for each page from v on,
\* until the PMM has none, or, if the loop writes each page (touch), one is not
\* mapped.  `done` counts the pages that were gone through.
MapOne(r, v, i, touch) ==
  LET p == v + i - 1
      f == LowestFree(r.st.used)
      st == map_page(TakeFrame(r.st, f), p, f)
  IN IF r.done < i - 1 \/ f = 0 THEN r
     ELSE [st |-> st,
           done |-> IF touch /\ ~AllMapped(st.mem, p, 1) THEN r.done ELSE i,
           got |-> [q \in DOMAIN r.got \cup {p} |-> IF q = p THEN f ELSE r.got[q]]]

NoneMapped == [st |-> State, done |-> 0, got |-> asked]

MapRun(v, n, touch) ==
  LET run[i \in 0 .. n] ==
        IF i = 0 THEN NoneMapped ELSE MapOne(run[i - 1], v, i, touch)
  IN run[n]

Become(r, m) ==
  /\ mem' = m /\ used' = r.st.used /\ tables' = r.st.tables /\ asked' = r.got

-----------------------------------------------------------------------------
\* kernel_main, before the heap exists: map a page of the modules to itself
\* unless get_physical finds it mapped.
map_module(v) ==
  LET st == map_page(State, v, v) IN
  /\ Runs("boot") /\ HEAP_MAPPED = 0 /\ used = KernelFrames
  /\ get_physical(mem, v) = 0
  /\ mem' = st.mem /\ used' = st.used /\ tables' = st.tables
  /\ UNCHANGED <<HEAP_MAPPED, MMAP_NEXT, CURRENT_BRK, halted, asked>>

\* expand_heap for one page more.
expand_heap ==
  LET r == MapRun(HEAP_START_PAGE + HEAP_MAPPED, 1, FALSE) IN
  /\ Runs("heap") /\ HEAP_MAPPED < HEAP_PAGES_MAX
  /\ Become(r, r.st.mem)
  /\ HEAP_MAPPED' = HEAP_MAPPED + r.done
  /\ UNCHANGED <<MMAP_NEXT, CURRENT_BRK, halted>>

\* The rest of sys_mmap: memset, which only faults on a page that has no table.
MmapAt(v, n) ==
  LET r == MapRun(v, n, FALSE)
      ok == r.done = n /\ AllMapped(r.st.mem, v, n)
  IN /\ Become(r, IF ok THEN Fill(r.st.mem, v, n, Zeroed) ELSE r.st.mem)
     /\ halted' = (r.done = n /\ ~ok)
     /\ UNCHANGED <<HEAP_MAPPED, CURRENT_BRK>>

\* mmap without MAP_FIXED: MMAP_NEXT moves even if frames run out.
sys_mmap(n) ==
  /\ Runs("mmap") /\ MMAP_NEXT + n <= Identity
  /\ MmapAt(MMAP_NEXT, n)
  /\ MMAP_NEXT' = MMAP_NEXT + n

sys_mmap_fixed(v, n) ==
  /\ Runs("fixed")
  /\ MmapAt(v, n) /\ UNCHANGED MMAP_NEXT

\* The pages sys_brk maps: from the page of the old break, but none below 4 GB.
BrkFirst ==
  LET p == CURRENT_BRK \div PageBytes IN IF p < Identity THEN Identity ELSE p

BrkEnd(addr) == (addr + PageBytes - 1) \div PageBytes

sys_brk(addr) ==
  /\ Runs("brk") /\ addr >= CURRENT_BRK
  /\ IF addr < Identity * PageBytes
     THEN CURRENT_BRK' = addr /\ UNCHANGED <<mem, used, tables, asked>>
     ELSE LET n == BrkEnd(addr) - BrkFirst
              r == MapRun(BrkFirst, n, FALSE)
          IN /\ Become(r, r.st.mem)
             /\ CURRENT_BRK' = IF r.done = n THEN addr ELSE CURRENT_BRK
  /\ UNCHANGED <<HEAP_MAPPED, MMAP_NEXT, halted>>

\* elf::load of a program of one segment above 4 GB and, when it succeeds,
\* set_brk.  The loader clears each page it has just mapped.
elf_load(v, n) ==
  LET r == MapRun(v, n, TRUE)
      p == v + r.done
  IN
  /\ Runs("elf") /\ v >= Identity
  /\ Become(r, Fill(r.st.mem, v, r.done, Data))
  /\ CURRENT_BRK' = IF r.done = n THEN (v + n) * PageBytes ELSE CURRENT_BRK
  /\ halted' = (r.done < n /\ r.got # asked /\ p \in DOMAIN r.got
                /\ ~AllMapped(r.st.mem, p, 1))
  /\ UNCHANGED <<HEAP_MAPPED, MMAP_NEXT>>

\* unmap_page, which nothing in the kernel calls yet.
Unmap(v) ==
  LET st == unmap_page(State, v) IN
  /\ v \in DOMAIN asked /\ Runs("unmap")
  /\ mem' = st.mem /\ asked' = [q \in DOMAIN asked \ {v} |-> asked[q]]
  /\ UNCHANGED <<used, tables, HEAP_MAPPED, MMAP_NEXT, CURRENT_BRK, halted>>

SpaceNext ==
  \/ \E v \in ModulePages : map_module(v)
  \/ expand_heap
  \/ \E n \in 1 .. 2 : sys_mmap(n)
  \/ \E v \in FixedPages : sys_mmap_fixed(v, 1)
  \/ \E a \in Breaks : sys_brk(a)
  \/ \E s \in Segments : elf_load(s[1], s[2])
  \/ \E v \in FixedPages : Unmap(v)

SpaceSpec == SpaceInit /\ [][SpaceNext]_space_vars

-----------------------------------------------------------------------------
\* Who maps pages below the identity map's end, and who above it.  Mapping below
\* makes the first frames of large pages into tables, whoever they belong to, so
\* the two sides are only safe from each other when one of them is idle.
LowClients == {"boot", "heap", "mmap"}
HighClients == {"brk", "elf", "fixed"}
OneSided == clients \cap LowClients = {} \/ clients \cap HighClients = {}

High == {v \in DOMAIN asked : v >= Identity /\ clients \cap LowClients = {}}

\* Whatever one side maps, the kernel's identity map is left as boot.s built it:
\* the tables that the kernel walks through it stay where it looks for them.
IdentityKept == OneSided => \A v \in Frames : Translate(mem, v) = v

\* Above the identity map two pages never share a frame, and no page of a
\* program is a page table or memory of the kernel.
HighExclusive ==
  \A v \in High : Translate(mem, v) # 0 =>
    /\ Translate(mem, v) \notin tables \cup KernelFrames
    /\ \A w \in High : Translate(mem, w) = Translate(mem, v) => v = w

=============================================================================
