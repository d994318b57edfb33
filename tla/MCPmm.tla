------------------------------- MODULE MCPmm -------------------------------
(* Small instances of the page allocator.                                  *)
EXTENDS Pmm, TLC

Region(b, l, t) == [base |-> b, length |-> l, type |-> t]

\* Pages of four bytes: aligned maps; a hole; overlapping regions; a region that
\* ends within a page; one that reaches past the bitmap; one that begins within
\* a page.
SomeMaps ==
  { {Region(0, 28, 1)},
    {Region(0, 4, 1), Region(4, 4, 2), Region(8, 40, 1)},
    {Region(0, 20, 1), Region(12, 10, 1)},
    {Region(0, 4, 1), Region(4, 10, 2), Region(14, 10, 1)} }

\* An initrd within one page, one across two, an empty one, one partly past
\* the end of memory.
BootRanges == {<<17, 18>>, <<11, 13>>, <<20, 20>>, <<26, 33>>}

ClientSymmetry == Permutations(Clients)
=============================================================================
