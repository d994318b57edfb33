------------------------------- MODULE MCVfs -------------------------------
(* A small instance of Vfs: two nodes besides the root and the file of     *)
(* the initial RAM disk, two names, paths of at most two components.       *)
EXTENDS Vfs, TLC

CONSTANTS r, i0, n1, n2, nil, na, nb, noname

SomeAddr == {r, i0, n1, n2}
SomeNames == {na, nb}
SomePaths == {<<na>>, <<nb>>, <<na, na>>, <<nb, na>>}
EitherWorkload == {{"dirs"}, {"data"}}
Alike == Permutations({n1, n2})
=============================================================================
