------------------------------ MODULE MCFat16 ------------------------------
(* /disk on a disk of three clusters and two directory slots. *)
EXTENDS DiskVfs, TLC

CONSTANTS
  d1, d2,
  MaxFaults  \* bound: failed writes and crashes

MCUpper == [c \in {"a", "A", "b", "B", "."} |-> IF c = "a" THEN "A" ELSE IF c = "b" THEN "B" ELSE c]
MCNames == {<<"A">>, <<"b", "b", "b", ".", "a">>, <<"B", "B", ".", "A">>}
MCNames83 == {<<<<"A">>, <<>>>>, <<<<"B", "B">>, <<"A">>>>}
MCGiven == <<<<"A">>, <<>>>>
MCContents == {<<>>, <<d2, d1>>}

\* Once a stale chain was freed nothing is claimed about files any more.
Bounded == ~tainted /\ faults <= MaxFaults
=============================================================================
