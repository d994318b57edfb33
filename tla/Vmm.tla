-------------------------------- MODULE Vmm --------------------------------
(***************************************************************************)
(* Four-level page tables (src/vmm.rs) as they lie in physical memory, on  *)
(* top of the identity map of 2 MB pages that boot.s builds.  A page table *)
(* is a frame seen as K entries; the CPU's own walk is Translate, the      *)
(* kernel's walks are map_page, unmap_page and get_physical.  Addresses    *)
(* are page numbers, and 0 is the null pointer and "not mapped".           *)
(***************************************************************************)
EXTENDS Integers, FiniteSets, FiniteSetsExt

CONSTANTS
  K,             \* entries of a table, and pages under a large page (512)
  KernelFrames,  \* frames PMM never hands out; 0 is one of them
  Pml4, Pdpt, Pd \* boot_pml4, boot_pdpt and boot_pd0

Frames == 0 .. K * K - 1      \* physical memory, all of it identity-mapped
Identity == K * K             \* first page above the identity map
HighPages == Identity .. K * K * K * K - 1
None == [to |-> 0, huge |-> FALSE, present |-> FALSE]

ASSUME VmmAssumption ==
  /\ K \in Nat /\ K > 1 /\ KernelFrames \subseteq Frames
  /\ {0, Pml4, Pdpt, Pd} \subseteq KernelFrames
  /\ Cardinality({0, Pml4, Pdpt, Pd}) = 4

\* Pages under one entry of a table, from the last level up.
Span == <<1, K, K * K, K * K * K>>

Index(v, level) == (v \div Span[level + 1]) % K

VARIABLES
  mem,       \* every frame as K entries
  used,      \* the PMM's bitmap
  tables     \* history: the frames that are page tables

\* What boot.s leaves: PML4[0] -> PDPT[0] -> a directory of large pages.
Small(f) == [to |-> f, huge |-> FALSE, present |-> TRUE]
Large(f) == [to |-> f, huge |-> TRUE, present |-> TRUE]

Zeroed == [i \in 0 .. K - 1 |-> None]

\* What a frame of data may look like when it is read as a table.
Data == [i \in 0 .. K - 1 |-> Small(Pml4)]

VmmInit ==
  /\ \E ram \in {Data, Zeroed} : mem = [f \in Frames |->
              CASE f = Pml4 -> [Zeroed EXCEPT ![0] = Small(Pdpt)]
                [] f = Pdpt -> [Zeroed EXCEPT ![0] = Small(Pd)]
                [] f = Pd -> [i \in 0 .. K - 1 |-> Large(i * K)]
                [] OTHER -> ram]
  /\ used = KernelFrames
  /\ tables = {Pml4, Pdpt, Pd}

-----------------------------------------------------------------------------
\* The CPU's translation of page v, 0 if there is none.
Translate(m, v) ==
  LET e4 == m[Pml4][Index(v, 3)]
      e3 == m[e4.to][Index(v, 2)]
      e2 == m[e3.to][Index(v, 1)]
      e1 == m[e2.to][Index(v, 0)]
  IN IF ~e4.present \/ ~e3.present \/ ~e2.present THEN 0
     ELSE IF e2.huge THEN e2.to + Index(v, 0)
     ELSE IF e1.present THEN e1.to ELSE 0

-----------------------------------------------------------------------------
(* The kernel's operations, on a state st = [mem, used, tables].           *)

\* pmm::alloc_page: the lowest frame whose bit is clear, 0 if there is none.
LowestFree(bitmap) ==
  IF Frames \subseteq bitmap THEN 0 ELSE Min(Frames \ bitmap)

NewTable(st, f) == [st.mem EXCEPT ![f] = Zeroed]

\* Mutant: a large page is replaced by an empty table.
LeadsOnSmall(e) == e.present /\ ~e.huge

LeadsOn(e) == e.present

\* walk_or_alloc: the table an entry leads to, allocating it if need be.
walk_or_alloc(st, table, i) ==
  LET e == st.mem[table][i]
      f == LowestFree(st.used)
  IN CASE LeadsOn(e) -> [st |-> st, next |-> e.to]
       [] ~LeadsOn(e) /\ f = 0 -> [st |-> st, next |-> 0]
       [] OTHER ->
            [st |-> [mem |-> [NewTable(st, f) EXCEPT ![table][i] = Small(f)],
                     used |-> st.used \cup {f}, tables |-> st.tables \cup {f}],
             next |-> f]

\* map_page: silently gives up when a table cannot be allocated.
map_page(st, v, phys) ==
  LET w3 == walk_or_alloc(st, Pml4, Index(v, 3))
      w2 == walk_or_alloc(w3.st, w3.next, Index(v, 2))
      w1 == walk_or_alloc(w2.st, w2.next, Index(v, 1))
  IN CASE w3.next = 0 -> w3.st
       [] w3.next # 0 /\ w2.next = 0 -> w2.st
       [] w3.next # 0 /\ w2.next # 0 /\ w1.next = 0 -> w1.st
       [] OTHER -> [w1.st EXCEPT !.mem[w1.next][Index(v, 0)] = Small(phys)]

\* walk_readonly: 0 when the entry is not present.
walk_readonly(m, table, i) == IF m[table][i].present THEN m[table][i].to ELSE 0

\* The page table that get_physical and unmap_page reach, or 0.
TableOf(m, v) ==
  LET pdpt == walk_readonly(m, Pml4, Index(v, 3))
      pd == walk_readonly(m, pdpt, Index(v, 2))
  IN IF pdpt = 0 \/ pd = 0 THEN 0 ELSE walk_readonly(m, pd, Index(v, 1))

unmap_page(st, v) ==
  LET pt == TableOf(st.mem, v) IN
  IF pt = 0 THEN st ELSE [st EXCEPT !.mem[pt][Index(v, 0)] = None]

EntryFrame(e) == IF e.present THEN e.to ELSE 0

get_physical(m, v) ==
  LET pt == TableOf(m, v) IN
  IF pt = 0 THEN 0 ELSE EntryFrame(m[pt][Index(v, 0)])
=============================================================================
