----------------------------- MODULE VfsProofs -----------------------------
(***************************************************************************)
(* The tree of the virtual file system is sound, its files keep their      *)
(* bytes, its descriptors refer to nodes and no call puts a node out of    *)
(* reach, for every set of addresses, names and paths and every limit on   *)
(* children and open files.                                                *)
(***************************************************************************)
EXTENDS Vfs, SequenceTheorems, WellFoundedInduction, FiniteSetTheorems, TLAPS

\* A leaf is given to the SMT solver and then to Zenon, a minute each.
USE SMTT(60), ZenonT(60)

-----------------------------------------------------------------------------
(* Least elements, which is what a search from the front finds.            *)

LEMMA LeastExists ==
  ASSUME NEW S, S \subseteq Nat, S # {}
  PROVE  \E x \in S : \A y \in S : x <= y
<1>1. PICK x \in S : \A y \in S : ~(<<y, x>> \in OpToRel(<, Nat))
  BY NatLessThanWellFounded, WFMin, Zenon
<1>2. ASSUME NEW y \in S PROVE x <= y
  <2>1. <<y, x>> \in Nat \X Nat
    BY <1>1, Zenon
  <2>2. ~(y < x)
    BY <1>1, <2>1 DEF OpToRel
  <2>3. x \in Nat /\ y \in Nat
    BY <1>1, Zenon
  <2> QED
    BY <2>2, <2>3
<1> QED
  BY <1>1, <1>2, Zenon

-----------------------------------------------------------------------------
(* RAM files.                                                              *)

\* The part of the buffer that is not yet in the file is zero.
TailZero(f) == \A i \in f.size .. f.capacity-1 : f.data[i] = 0

LEMMA NewCapFits ==
  ASSUME NEW f, IsFile(f), NEW needed \in Nat,
         needed > f.capacity, GrowEnds(f, needed)
  PROVE  NewCap(f, needed) \in 1 .. U32-1 /\ NewCap(f, needed) >= needed
<1>1. Enough(f, needed) \subseteq 1 .. U32-1 /\ Enough(f, needed) # {}
  BY DEF GrowEnds, Enough, Doublings
<1>2. \E c \in Enough(f, needed) : \A d \in Enough(f, needed) : c <= d
  <2>1. Enough(f, needed) \subseteq Nat
    BY <1>1, RamfsAssumption
  <2> QED
    BY <1>1, <2>1, LeastExists
<1>3. NewCap(f, needed) \in Enough(f, needed)
  BY <1>2 DEF NewCap
<1> QED
  BY <1>1, <1>3 DEF Enough, StopsAt

\* A write into a buffer that is large enough.
LEMMA StoredKeeps ==
  ASSUME NEW f, IsFile(f), TailZero(f), NEW c, IsContent(c), Holds(f, c),
         NEW n \in Nat, NEW offset \in Nat, offset + n <= f.capacity,
         NEW bytes \in [0 .. n-1 -> Byte]
  PROVE  LET g == Stored(f, offset, bytes, n)
             d == Overwritten(c, offset, bytes, n)
         IN  IsFile(g) /\ TailZero(g) /\ IsContent(d) /\ Holds(g, d)
<1> DEFINE g == Stored(f, offset, bytes, n)
           d == Overwritten(c, offset, bytes, n)
           len == IF offset + n > f.size THEN offset + n ELSE f.size
           byte(i) == IF i \in offset .. offset+n-1 THEN bytes[i - offset] ELSE f.data[i]
           spec(i) == IF i \in offset .. offset+n-1 THEN bytes[i - offset]
                      ELSE IF i < c.len THEN c.at[i] ELSE 0
<1>1. /\ f.capacity \in 0 .. U32-1 /\ f.size \in 0 .. f.capacity
      /\ f.data \in [0 .. f.capacity-1 -> Byte]
      /\ c.at \in [0 .. c.len-1 -> Byte]
      /\ f.size = c.len
      /\ U32 \in Nat /\ 0 \in Byte
  BY RamfsAssumption DEF IsFile, IsContent, Holds
<1>2. g = [size |-> len, capacity |-> f.capacity,
           data |-> [i \in 0 .. f.capacity-1 |-> byte(i)]]
  BY DEF Stored, SizeAfter
<1>3. d = [len |-> len, at |-> [i \in 0 .. len-1 |-> spec(i)]]
  BY <1>1 DEF Overwritten
<1>4. len \in 0 .. f.capacity /\ f.size <= len /\ offset + n <= len
  BY <1>1
<1>5. ASSUME NEW i \in offset .. offset+n-1 PROVE bytes[i - offset] \in Byte
  BY <1>5
<1>6. \A i \in 0 .. f.capacity-1 : byte(i) \in Byte
  BY Zenon, <1>1, <1>5
<1>7. \A i \in 0 .. len-1 : spec(i) \in Byte
  <2> TAKE i \in 0 .. len-1
  <2>1. CASE i \in offset .. offset+n-1
    BY <2>1, <1>5
  <2>2. CASE i \notin offset .. offset+n-1
    <3>1. i < c.len => i \in 0 .. c.len-1
      BY <1>1, <1>4
    <3>2. i < c.len => c.at[i] \in Byte
      BY <3>1, <1>1
    <3> QED
      BY <2>2, <3>2, <1>1
  <2> QED
    BY <2>1, <2>2
<1>8. \A i \in 0 .. len-1 : byte(i) = spec(i)
  <2> TAKE i \in 0 .. len-1
  <2>1. ASSUME i < c.len PROVE f.data[i] = c.at[i]
    BY <1>1, <1>4, <2>1 DEF Holds
  <2>2. ASSUME ~(i < c.len) PROVE f.data[i] = 0
    BY <1>1, <1>4, <2>2 DEF TailZero
  <2> QED
    BY <2>1, <2>2
<1>9. \A i \in len .. f.capacity-1 : byte(i) = 0
  <2> TAKE i \in len .. f.capacity-1
  <2>1. i \in f.size .. f.capacity-1 /\ i \notin offset .. offset+n-1
    BY <1>1, <1>4
  <2> QED
    BY <2>1 DEF TailZero
<1> HIDE DEF byte, spec, len, g, d
<1>10. IsFile(g) /\ IsContent(d)
  BY <1>1, <1>2, <1>3, <1>4, <1>6, <1>7 DEF IsFile, IsContent
<1>11. TailZero(g)
  BY <1>1, <1>2, <1>4, <1>9 DEF TailZero
<1>12. Holds(g, d)
  BY <1>1, <1>2, <1>3, <1>4, <1>8 DEF Holds
<1> QED
  BY <1>10, <1>11, <1>12 DEF g, d

\* Moving a file to a larger buffer changes nothing that can be read.
LEMMA GrownKeeps ==
  ASSUME NEW f, IsFile(f), NEW c, IsContent(c), Holds(f, c),
         NEW cap \in 1 .. U32-1, cap > f.capacity
  PROVE  LET g == Grown(f, cap)
         IN  IsFile(g) /\ TailZero(g) /\ g.capacity = cap /\ Holds(g, c)
<1> DEFINE byte(i) == IF i < f.size THEN f.data[i] ELSE 0
<1>1. /\ f.capacity \in 0 .. U32-1 /\ f.size \in 0 .. f.capacity
      /\ f.data \in [0 .. f.capacity-1 -> Byte]
      /\ f.size = c.len
      /\ U32 \in Nat /\ 0 \in Byte
  BY RamfsAssumption DEF IsFile, Holds
<1>2. Grown(f, cap) = [size |-> f.size, capacity |-> cap,
                       data |-> [i \in 0 .. cap-1 |-> byte(i)]]
  BY DEF Grown
<1>3. \A i \in 0 .. cap-1 : byte(i) \in Byte
  BY <1>1
<1>4. \A i \in 0 .. f.size-1 : i \in 0 .. cap-1 /\ byte(i) = f.data[i]
  BY <1>1
<1>5. \A i \in f.size .. cap-1 : i \in 0 .. cap-1 /\ byte(i) = 0
  BY <1>1
<1> HIDE DEF byte
<1> QED
  BY <1>1, <1>2, <1>3, <1>4, <1>5 DEF IsFile, TailZero, Holds

\* ramfs_write does what a file is for, at every offset and whether or not
\* the buffer has to grow: the file afterwards is the file before, with the
\* bytes written over it and zeros in the gap.
THEOREM WriteKeeps ==
  ASSUME NEW f, IsFile(f), TailZero(f), NEW c, IsContent(c), Holds(f, c),
         NEW n \in Nat, NEW offset \in Nat, offset + n <= U32-1,
         GrowEnds(f, offset + n),
         NEW bytes \in [0 .. n-1 -> Byte]
  PROVE  LET g == RamfsWrite(f, offset, bytes, n)
             d == Overwritten(c, offset, bytes, n)
         IN  IsFile(g) /\ TailZero(g) /\ IsContent(d) /\ Holds(g, d)
<1> DEFINE needed == offset + n
<1>0. needed \in Nat /\ f.capacity \in Nat
  BY RamfsAssumption DEF IsFile
<1>1. CASE needed > f.capacity
  <2> DEFINE cap == NewCap(f, needed)
             h == Grown(f, cap)
  <2>1. cap \in 1 .. U32-1 /\ cap >= needed
    BY <1>0, <1>1, NewCapFits
  <2>2. cap > f.capacity
    BY <1>0, <1>1, <2>1, RamfsAssumption
  <2>3. IsFile(h) /\ TailZero(h) /\ h.capacity = cap /\ Holds(h, c)
    BY <2>1, <2>2, GrownKeeps
  <2>4. RamfsWrite(f, offset, bytes, n) = Stored(h, offset, bytes, n)
    BY <1>1 DEF RamfsWrite
  <2>5. offset + n <= h.capacity
    BY <1>0, <2>1, <2>3
  <2> HIDE DEF h, cap
  <2> QED
    BY <2>3, <2>4, <2>5, StoredKeeps
<1>2. CASE ~(needed > f.capacity)
  <2>1. RamfsWrite(f, offset, bytes, n) = Stored(f, offset, bytes, n)
    BY <1>2 DEF RamfsWrite
  <2>2. offset + n <= f.capacity
    BY <1>0, <1>2
  <2> QED
    BY <2>1, <2>2, StoredKeeps
<1> QED
  BY <1>1, <1>2

-----------------------------------------------------------------------------
(* The inductive invariant.                                                *)

\* A walk is at a node that exists, what rename moves has a parent, and the
\* path rename moves it to has a last component.
CallInv ==
  /\ call.cur # Null => kind[call.cur] # "free"
  /\ call.op = "rename_from" => call.to # << >>
  /\ call.op = "rename_to" => call.node \in Addr /\ parent[call.node] # Null

\* Every RAM file, and the memory of those to come, holds its content and
\* is zero beyond it.
DataInv == \A a \in Addr : TailZero(file[a]) /\ Holds(file[a], content[a])

IInv == TypeOK /\ TreeSound /\ FdSound /\ CallInv /\ DataInv

\* The part of the types that is about the tree.
TreeType ==
  /\ kind \in [Addr -> Kind]
  /\ name \in [Addr -> Name \union {NoName}]
  /\ kids \in [Addr -> Seq(Addr)]
  /\ \A a \in Addr : Len(kids[a]) <= VFS_MAX_CHILDREN
  /\ parent \in [Addr -> Addr \union {Null}]

LEMMA EmptyFileFine ==
  IsFile(EmptyFile) /\ TailZero(EmptyFile) /\ IsContent(NoContent) /\ Holds(EmptyFile, NoContent)
BY RamfsAssumption DEF EmptyFile, NoContent, IsFile, TailZero, IsContent, Holds

LEMMA InitInv == Init => IInv
<1> SUFFICES ASSUME Init PROVE IInv
  OBVIOUS
<1>1. TreeType /\ TreeSound
  <2>1. /\ kind = [a \in Addr |-> CASE a = Root -> "dir" [] a = InitrdNode -> "initrd"
                                    [] OTHER -> "free"]
        /\ name = [a \in Addr |-> IF a = InitrdNode THEN InitrdName ELSE NoName]
        /\ kids = [a \in Addr |-> IF a = Root THEN <<InitrdNode>> ELSE << >>]
        /\ parent = [a \in Addr |-> IF a = InitrdNode THEN Root ELSE Null]
    BY DEF Init
  <2>2. kind \in [Addr -> Kind] /\ name \in [Addr -> Name \union {NoName}]
    BY <2>1, VfsAssumption DEF Kind
  <2>3. parent \in [Addr -> Addr \union {Null}]
    BY <2>1, VfsAssumption
  <2>4. kids \in [Addr -> Seq(Addr)] /\ \A a \in Addr : Len(kids[a]) <= VFS_MAX_CHILDREN
    BY <2>1, VfsAssumption
  <2>5. TreeSound
    BY <2>1, VfsAssumption DEF TreeSound
  <2> QED
    BY <2>2, <2>3, <2>4, <2>5 DEF TreeType
<1>2. DataInv /\ DOMAIN file = Addr /\ DOMAIN content = Addr
      /\ \A a \in Addr : IsFile(file[a]) /\ IsContent(content[a])
  BY EmptyFileFine DEF Init, DataInv
<1>3. FdSound /\ fds \in [FD -> [in_use: BOOLEAN, node: Addr \union {Null}, offset: 0 .. U32-1]]
  BY RamfsAssumption DEF Init, FdSound, NoFd
<1>4. CallInv /\ call \in [op: Op, cur: Addr \union {Null}, rest: Seq(Name),
             node: Addr \union {Null}, to: Seq(Name), name: Name \union {NoName}]
  BY DEF Init, CallInv, NoCall, Op
<1>5. /\ blocks \in Int /\ stale \in SUBSET FD /\ hungAt \in 0 .. U32-1
      /\ wild \in BOOLEAN /\ workload \in Workloads
  <2>1. blocks = 2 /\ stale = {} /\ hungAt = 0 /\ wild = FALSE /\ workload \in Workloads
    BY DEF Init
  <2>2. hungAt \in 0 .. U32-1
    BY <2>1, RamfsAssumption
  <2>3. blocks \in Int
    BY <2>1
  <2>4. stale \in SUBSET FD /\ wild \in BOOLEAN
    BY <2>1, Zenon
  <2> QED
    BY <2>1, <2>2, <2>3, <2>4
<1> QED
  BY <1>1, <1>2, <1>3, <1>4, <1>5 DEF IInv, TypeOK, TreeType

-----------------------------------------------------------------------------
(* The three ways in which the tree changes.                               *)

\* A list without its i-th element.
LEMMA WithoutFacts ==
  ASSUME NEW S, NEW s \in Seq(S), NEW i \in 1 .. Len(s)
  PROVE  /\ Without(s, i) \in Seq(S)
         /\ Len(Without(s, i)) = Len(s) - 1
         /\ \A j \in 1 .. Len(s) - 1 :
               Without(s, i)[j] = s[IF j < i THEN j ELSE j + 1]
<1>1. Len(s) \in Nat /\ Len(s) - 1 \in Nat
  BY LenProperties
<1>2. \A j \in 1 .. Len(s) - 1 : (IF j < i THEN s[j] ELSE s[j + 1]) \in S
  BY <1>1, ElementOfSeq
<1>3. Without(s, i) \in [1 .. Len(s) - 1 -> S]
  BY <1>2 DEF Without
<1>4. Without(s, i) \in Seq(S)
  BY <1>1, <1>3, IsASeq
<1>5. Len(Without(s, i)) = Len(s) - 1
  BY <1>1, <1>3, <1>4, LenProperties
<1>6. \A j \in 1 .. Len(s) - 1 :
         Without(s, i)[j] = s[IF j < i THEN j ELSE j + 1]
  BY DEF Without
<1> QED
  BY Zenon, <1>4, <1>5, <1>6

\* What TreeSound says of one child.
LEMMA ChildFacts ==
  ASSUME TreeType, TreeSound, NEW d \in Addr, NEW i \in DOMAIN kids[d]
  PROVE  /\ i \in 1 .. Len(kids[d]) /\ kids[d][i] \in Addr
         /\ kind[d] = "dir" /\ kind[kids[d][i]] # "free" /\ parent[kids[d][i]] = d
         /\ kids[d][i] # Root
         /\ \A j \in DOMAIN kids[d] : kids[d][i] = kids[d][j] => i = j
<1>1. kids[d] \in Seq(Addr)
  BY DEF TreeType
<1>2. i \in 1 .. Len(kids[d]) /\ kids[d][i] \in Addr
  BY <1>1, LenProperties, ElementOfSeq
<1>3. /\ kind[d] = "dir" /\ kind[kids[d][i]] # "free" /\ parent[kids[d][i]] = d
      /\ \A j \in DOMAIN kids[d] : kids[d][i] = kids[d][j] => i = j
  BY DEF TreeSound
<1>4. kids[d][i] # Root
  BY <1>3, VfsAssumption DEF TreeSound
<1> QED
  BY <1>2, <1>3, <1>4

LEMMA AttachInv ==
  ASSUME TreeType, TreeSound, NEW d \in Addr, CanAdd(d), NEW a \in FreeNodes,
         NEW k \in Kind \ {"free"}, NEW n \in Name, Attach(d, a, k, n)
  PROVE  /\ TreeType' /\ TreeSound'
         /\ \A x \in Addr : kind[x] # "free" => kind'[x] = kind[x] /\ parent'[x] = parent[x]
         /\ kind'[a] # "free"
<1>1. a \in Addr /\ kind[a] = "free" /\ kind[d] = "dir" /\ a # d /\ a # Root
  BY DEF FreeNodes, CanAdd, TreeSound
<1>2. /\ kind' = [kind EXCEPT ![a] = k]
      /\ name' = [name EXCEPT ![a] = n]
      /\ parent' = [parent EXCEPT ![a] = d]
      /\ kids' = [kids EXCEPT ![d] = Append(@, a)]
  BY DEF Attach
<1>3. \A x \in Addr : kids[x] \in Seq(Addr) /\ Len(kids[x]) \in Nat
                      /\ DOMAIN kids[x] = 1 .. Len(kids[x])
  BY LenProperties DEF TreeType
<1>4. /\ kids'[d] \in Seq(Addr) /\ Len(kids'[d]) = Len(kids[d]) + 1
      /\ DOMAIN kids'[d] = 1 .. Len(kids[d]) + 1
      /\ \A i \in 1 .. Len(kids[d]) : kids'[d][i] = kids[d][i]
      /\ kids'[d][Len(kids[d]) + 1] = a
  BY <1>1, <1>2, <1>3, AppendProperties DEF TreeType
<1>5. \A x \in Addr : x # d => kids'[x] = kids[x]
  BY <1>2 DEF TreeType
<1>6. TreeType'
  <2>1. kids' \in [Addr -> Seq(Addr)]
    BY <1>1, <1>2, <1>3, <1>4, <1>5 DEF TreeType
  <2>2. ASSUME NEW x \in Addr PROVE Len(kids'[x]) <= VFS_MAX_CHILDREN
    <3>1. Len(kids[d]) + 1 <= VFS_MAX_CHILDREN
      BY <1>3, VfsAssumption DEF CanAdd
    <3>2. CASE x = d
      BY <3>1, <3>2, <1>4
    <3>3. CASE x # d
      BY <3>3, <1>5 DEF TreeType
    <3> QED
      BY <3>2, <3>3
  <2> QED
    BY <1>1, <1>2, <2>1, <2>2 DEF TreeType
<1>7. /\ \A x \in Addr : kind[x] # "free" => kind'[x] = kind[x] /\ parent'[x] = parent[x]
      /\ kind'[a] # "free" /\ parent'[a] = d
  BY <1>1, <1>2 DEF TreeType
<1>8. ASSUME NEW x \in Addr, NEW i \in DOMAIN kids'[x]
      PROVE  /\ kind'[x] = "dir" /\ kind'[kids'[x][i]] # "free" /\ parent'[kids'[x][i]] = x
             /\ \A j \in DOMAIN kids'[x] : kids'[x][i] = kids'[x][j] => i = j
  <2>1. CASE x # d
    <3>1. kids'[x] = kids[x] /\ i \in DOMAIN kids[x]
      BY Zenon, <2>1, <1>5, <1>8
    <3> QED
      BY <3>1, <1>7, ChildFacts
  <2>2. CASE x = d
    <3>1. kind'[d] = "dir"
      BY Zenon, <1>1, <1>7
    <3>2. ASSUME NEW j \in 1 .. Len(kids[d])
          PROVE  /\ kids'[d][j] = kids[d][j] /\ kids[d][j] \in Addr
                 /\ kind[kids[d][j]] # "free" /\ parent[kids[d][j]] = d /\ kids[d][j] # a
                 /\ \A m \in 1 .. Len(kids[d]) : kids[d][j] = kids[d][m] => j = m
      BY <1>1, <1>3, <1>4, ChildFacts
    <3>3. CASE i = Len(kids[d]) + 1
      BY <2>2, <3>1, <3>2, <3>3, <1>3, <1>4, <1>7
    <3>4. CASE i \in 1 .. Len(kids[d])
      <4>1. kids'[d][i] = kids[d][i] /\ kind'[kids[d][i]] # "free" /\ parent'[kids[d][i]] = d
        BY ZenonT(60), <3>2, <3>4, <1>7
      <4>2. ASSUME NEW j \in 1 .. Len(kids[d]) + 1, kids'[d][i] = kids'[d][j] PROVE i = j
        <5>1. CASE j = Len(kids[d]) + 1
          BY Zenon, <5>1, <4>2, <3>2, <3>4, <1>4
        <5>2. CASE j \in 1 .. Len(kids[d])
          BY <5>2, <4>2, <3>2, <3>4
        <5>3. Len(kids[d]) \in Nat
          BY <1>3
        <5> QED
          BY <5>1, <5>2, <5>3
      <4> QED
        BY Zenon, <2>2, <3>1, <4>1, <4>2, <1>4
    <3> QED
      BY <2>2, <3>3, <3>4, <1>3, <1>4, <1>8
  <2> QED
    BY <2>1, <2>2
<1>9. kind'[Root] = "dir" /\ parent'[Root] = Null
  BY ZenonT(60), <1>7, VfsAssumption DEF TreeSound
<1> QED
  BY <1>6, <1>7, <1>8, <1>9 DEF TreeSound

\* A child taken out of the list it is in is in no list any more, and the
\* rest is as it was.
LEMMA UnhookedFacts ==
  ASSUME TreeType, TreeSound, NEW d \in Addr, NEW i \in DOMAIN kids[d]
  PROVE  LET ks == Unhooked(d, i)
         IN  /\ ks \in [Addr -> Seq(Addr)]
             /\ \A x \in Addr : /\ Len(ks[x]) <= VFS_MAX_CHILDREN
                                /\ DOMAIN ks[x] = 1 .. Len(ks[x]) /\ Len(ks[x]) \in Nat
             /\ Len(ks[d]) < VFS_MAX_CHILDREN
             /\ \A x \in Addr : \A j \in DOMAIN ks[x] :
                   /\ ks[x][j] \in Addr \ {kids[d][i]}
                   /\ kind[x] = "dir" /\ kind[ks[x][j]] # "free" /\ parent[ks[x][j]] = x
                   /\ \A m \in DOMAIN ks[x] : ks[x][j] = ks[x][m] => j = m
<1> DEFINE ks == Unhooked(d, i)
           len == Len(kids[d])
           old(j) == IF j < i THEN j ELSE j + 1
<1>1. kids \in [Addr -> Seq(Addr)] /\ kids[d] \in Seq(Addr)
  BY DEF TreeType
<1>2. i \in 1 .. len /\ len \in Nat /\ DOMAIN kids[d] = 1 .. len
  BY Zenon, <1>1, LenProperties
<1>3. /\ ks[d] \in Seq(Addr) /\ Len(ks[d]) = len - 1
      /\ \A j \in 1 .. len - 1 : ks[d][j] = kids[d][old(j)]
  BY Zenon, <1>1, <1>2, WithoutFacts DEF Unhooked
<1>4. \A x \in Addr : x # d => ks[x] = kids[x]
  BY <1>1 DEF Unhooked
<1>5. ks \in [Addr -> Seq(Addr)]
  BY <1>1, <1>3, <1>4 DEF Unhooked
<1>6. \A x \in Addr : DOMAIN ks[x] = 1 .. Len(ks[x]) /\ Len(ks[x]) \in Nat
  BY <1>5, LenProperties
<1>7. len <= VFS_MAX_CHILDREN /\ Len(ks[d]) < VFS_MAX_CHILDREN
  <2>1. len <= VFS_MAX_CHILDREN
    BY DEF TreeType
  <2> HIDE DEF len, ks, old
  <2> QED
    BY <2>1, <1>2, <1>3, VfsAssumption, RamfsAssumption
<1>8. \A x \in Addr : Len(ks[x]) <= VFS_MAX_CHILDREN
  <2> TAKE x \in Addr
  <2>1. CASE x = d
    BY <2>1, <1>3, <1>2, <1>7, VfsAssumption
  <2>2. CASE x # d
    BY <2>2, <1>4 DEF TreeType
  <2> QED
    BY <2>1, <2>2
<1>9. \A j \in 1 .. len - 1 : old(j) \in 1 .. len /\ old(j) # i
  BY <1>2
<1>10. \A j, m \in 1 .. len - 1 : old(j) = old(m) => j = m
  BY <1>2
<1> HIDE DEF ks, len, old
<1>11. ASSUME NEW x \in Addr, NEW j \in DOMAIN ks[x]
       PROVE  /\ ks[x][j] \in Addr \ {kids[d][i]}
              /\ kind[x] = "dir" /\ kind[ks[x][j]] # "free" /\ parent[ks[x][j]] = x
              /\ \A m \in DOMAIN ks[x] : ks[x][j] = ks[x][m] => j = m
  <2>1. CASE x # d
    <3>1. ks[x] = kids[x] /\ j \in DOMAIN kids[x]
      BY <2>1, <1>4, <1>11
    <3>2. parent[kids[x][j]] = x /\ parent[kids[d][i]] = d
      BY Zenon, <3>1, ChildFacts
    <3> QED
      BY <2>1, <3>1, <3>2, ChildFacts
  <2>2. CASE x = d
    <3>1. j \in 1 .. len - 1 /\ DOMAIN ks[d] = 1 .. len - 1
      BY <2>2, <1>3, <1>6, <1>11
    <3>2. old(j) \in DOMAIN kids[d] /\ old(j) # i /\ ks[d][j] = kids[d][old(j)]
      BY Zenon, <3>1, <1>2, <1>3, <1>9
    <3>3. /\ kids[d][old(j)] \in Addr /\ kind[d] = "dir" /\ kind[kids[d][old(j)]] # "free"
          /\ parent[kids[d][old(j)]] = d
          /\ \A m \in DOMAIN kids[d] : kids[d][old(j)] = kids[d][m] => old(j) = m
      BY <3>2, ChildFacts
    <3>4. ASSUME NEW m \in 1 .. len - 1, ks[d][j] = ks[d][m] PROVE j = m
      <4>1. old(m) \in DOMAIN kids[d] /\ ks[d][m] = kids[d][old(m)]
        BY Zenon, <1>2, <1>3, <1>9
      <4>2. old(j) = old(m)
        BY <3>2, <3>3, <3>4, <4>1
      <4> QED
        BY <3>1, <4>2, <1>10
    <3>5. kids[d][old(j)] # kids[d][i]
      BY ZenonT(60), <3>2, <3>3
    <3> QED
      BY Zenon, <2>2, <3>1, <3>2, <3>3, <3>4, <3>5
  <2> QED
    BY ZenonT(60), <2>1, <2>2
<1> QED
  BY ZenonT(60), <1>5, <1>6, <1>7, <1>8, <1>11 DEF ks

Cut(d, i) == [x \in Addr |-> IF x = kids[d][i] THEN << >> ELSE Unhooked(d, i)[x]]

LEMMA UnlinkTree ==
  ASSUME TreeType, TreeSound, NEW d \in Addr, NEW i \in DOMAIN kids[d], NEW a, a = kids[d][i],
         kind' = [kind EXCEPT ![a] = "free"],
         name' = [name EXCEPT ![a] = NoName],
         parent' = [parent EXCEPT ![a] = Null],
         kids' = Cut(d, i)
  PROVE  TreeType' /\ TreeSound'
<1> DEFINE ks == Unhooked(d, i)
<1>1. /\ a \in Addr /\ a # Root /\ kind[d] = "dir"
  BY Zenon, ChildFacts
<1>2. /\ ks \in [Addr -> Seq(Addr)]
      /\ \A x \in Addr : Len(ks[x]) <= VFS_MAX_CHILDREN
      /\ \A x \in Addr : \A j \in DOMAIN ks[x] :
                   /\ ks[x][j] \in Addr \ {a}
                   /\ kind[x] = "dir" /\ kind[ks[x][j]] # "free" /\ parent[ks[x][j]] = x
                   /\ \A m \in DOMAIN ks[x] : ks[x][j] = ks[x][m] => j = m
  BY UnhookedFacts
<1> HIDE DEF ks
<1>4. /\ \A x \in Addr : kids'[x] = IF x = a THEN << >> ELSE ks[x]
      /\ kids' = [x \in Addr |-> kids'[x]]
  BY DEF ks, Cut
<1>5. TreeType'
  <2>0. Len(<< >>) = 0 /\ << >> \in Seq(Addr) /\ 0 <= VFS_MAX_CHILDREN
    BY VfsAssumption
  <2>1. \A x \in Addr : kids'[x] \in Seq(Addr) /\ Len(kids'[x]) <= VFS_MAX_CHILDREN
    BY ZenonT(60), <2>0, <1>2, <1>4
  <2>2. kids' \in [Addr -> Seq(Addr)]
    BY <2>1, <1>4
  <2> QED
    BY Zenon, <1>1, <2>1, <2>2 DEF TreeType, Kind
<1>6. \A x \in Addr : x # a => kind'[x] = kind[x] /\ parent'[x] = parent[x]
  BY Zenon DEF TreeType
<1>7. ASSUME NEW x \in Addr, NEW j \in DOMAIN kids'[x]
      PROVE  /\ kind'[x] = "dir" /\ kind'[kids'[x][j]] # "free" /\ parent'[kids'[x][j]] = x
             /\ \A m \in DOMAIN kids'[x] : kids'[x][j] = kids'[x][m] => j = m
  <2>1. x # a
    BY <1>4, <1>7
  <2>2. kids'[x] = ks[x]
    BY <2>1, <1>4
  <2> QED
    BY <2>1, <2>2, <1>2, <1>6, <1>7
<1>8. kind'[Root] = "dir" /\ parent'[Root] = Null
  BY ZenonT(60), <1>1, <1>6, VfsAssumption DEF TreeSound
<1> QED
  BY <1>5, <1>7, <1>8 DEF TreeSound

Moved(d, i, h) == [x \in Addr |-> IF x = h THEN Append(Unhooked(d, i)[x], kids[d][i])
                                  ELSE Unhooked(d, i)[x]]

LEMMA MoveTree ==
  ASSUME TreeType, TreeSound, NEW d \in Addr, NEW i \in DOMAIN kids[d], NEW a, a = kids[d][i],
         NEW h \in Addr, kind[h] = "dir", Len(Unhooked(d, i)[h]) < VFS_MAX_CHILDREN,
         NEW n \in Name \union {NoName},
         name' = [name EXCEPT ![a] = n],
         kids' = Moved(d, i, h),
         parent' = [parent EXCEPT ![a] = h],
         UNCHANGED kind
  PROVE  TreeType' /\ TreeSound'
<1> DEFINE ks == Unhooked(d, i)
           len == Len(ks[h])
<1>1. a \in Addr /\ a # Root /\ kind[a] # "free"
  BY ZenonT(60), ChildFacts
<1>2. /\ ks \in [Addr -> Seq(Addr)]
      /\ \A x \in Addr : /\ Len(ks[x]) <= VFS_MAX_CHILDREN
                         /\ DOMAIN ks[x] = 1 .. Len(ks[x]) /\ Len(ks[x]) \in Nat
      /\ \A x \in Addr : \A j \in DOMAIN ks[x] :
                   /\ ks[x][j] \in Addr \ {a}
                   /\ kind[x] = "dir" /\ kind[ks[x][j]] # "free" /\ parent[ks[x][j]] = x
                   /\ \A m \in DOMAIN ks[x] : ks[x][j] = ks[x][m] => j = m
  BY UnhookedFacts
<1> HIDE DEF ks
<1>3. /\ kids'[h] \in Seq(Addr) /\ Len(kids'[h]) = len + 1
      /\ DOMAIN kids'[h] = 1 .. len + 1
      /\ \A j \in 1 .. len : kids'[h][j] = ks[h][j]
      /\ kids'[h][len + 1] = a
  <2>1. kids'[h] = Append(ks[h], a)
    BY DEF Moved, ks
  <2>2. ks[h] \in Seq(Addr)
    BY <1>2
  <2> QED
    BY <1>1, <1>2, <2>1, <2>2, AppendProperties
<1>4. /\ \A x \in Addr : x # h => kids'[x] = ks[x]
      /\ kids' = [x \in Addr |-> kids'[x]]
  BY DEF Moved, ks
<1>5. TreeType'
  <2>1. kids' \in [Addr -> Seq(Addr)]
    <3>1. \A x \in Addr : kids'[x] \in Seq(Addr)
      BY ZenonT(60), <1>2, <1>3, <1>4
    <3> QED
      BY <3>1, <1>4
  <2>2. ASSUME NEW x \in Addr PROVE Len(kids'[x]) <= VFS_MAX_CHILDREN
    <3>1. CASE x = h
      <4>1. len < VFS_MAX_CHILDREN
        BY DEF ks
      <4> QED
        BY <4>1, <3>1, <1>2, <1>3, VfsAssumption
    <3>2. CASE x # h
      BY <3>2, <1>2, <1>4
    <3> QED
      BY ZenonT(60), <3>1, <3>2
  <2> QED
    BY ZenonT(60), <1>1, <2>1, <2>2 DEF TreeType
<1>6. /\ parent'[a] = h
      /\ \A x \in Addr : x # a => parent'[x] = parent[x]
  BY Zenon, <1>1 DEF TreeType
<1>7. ASSUME NEW x \in Addr, NEW j \in DOMAIN kids'[x]
      PROVE  /\ kind[x] = "dir" /\ kind[kids'[x][j]] # "free" /\ parent'[kids'[x][j]] = x
             /\ \A m \in DOMAIN kids'[x] : kids'[x][j] = kids'[x][m] => j = m
  <2>1. CASE x # h
    BY <2>1, <1>2, <1>4, <1>6, <1>7
  <2>2. CASE x = h
    <3>0. len \in Nat /\ DOMAIN ks[h] = 1 .. len
      BY ZenonT(60), <1>2
    <3>1. \A m \in 1 .. len : /\ kids'[h][m] \in Addr \ {a} /\ kind[kids'[h][m]] # "free"
                              /\ parent'[kids'[h][m]] = h
                              /\ \A l \in 1 .. len : kids'[h][m] = kids'[h][l] => m = l
      <4> TAKE m \in 1 .. len
      <4>0. m \in DOMAIN ks[h]
        BY Zenon, <3>0
      <4>1. /\ ks[h][m] \in Addr \ {a} /\ kind[ks[h][m]] # "free" /\ parent[ks[h][m]] = h
            /\ \A l \in 1 .. len : ks[h][m] = ks[h][l] => m = l
        <5>1. /\ ks[h][m] \in Addr \ {a} /\ kind[ks[h][m]] # "free" /\ parent[ks[h][m]] = h
              /\ \A l \in DOMAIN ks[h] : ks[h][m] = ks[h][l] => m = l
          BY ZenonT(60), <4>0, <1>2
        <5> QED
          BY ZenonT(60), <5>1, <3>0
      <4>2. \A l \in 1 .. len : kids'[h][l] = ks[h][l]
        BY ZenonT(60), <1>3
      <4>3. parent'[ks[h][m]] = h
        BY <4>1, <1>6
      <4> HIDE DEF len
      <4> QED
        BY ZenonT(60), <4>1, <4>2, <4>3
    <3>2. j \in 1 .. len + 1
      BY Zenon, <2>2, <1>3, <1>7
    <3> HIDE DEF len
    <3>3. \A m \in 1 .. len + 1 : kids'[h][j] = kids'[h][m] => j = m
      BY <3>0, <3>1, <3>2, <1>3
    <3>4. kind[kids'[h][j]] # "free" /\ parent'[kids'[h][j]] = h
      BY <3>0, <3>1, <3>2, <1>1, <1>3, <1>6
    <3> QED
      BY ZenonT(60), <2>2, <3>3, <3>4, <1>3
  <2> QED
    BY ZenonT(60), <2>1, <2>2
<1>8. kind[Root] = "dir" /\ parent'[Root] = Null
  BY ZenonT(60), <1>1, <1>6, VfsAssumption DEF TreeSound
<1> QED
  BY <1>5, <1>7, <1>8 DEF TreeSound

-----------------------------------------------------------------------------
(* The steps.                                                              *)

DataType == /\ DOMAIN file = Addr /\ DOMAIN content = Addr
            /\ \A a \in Addr : IsFile(file[a]) /\ IsContent(content[a])
FdRecord == [in_use: BOOLEAN, node: Addr \union {Null}, offset: 0 .. U32-1]
FdType == fds \in [FD -> FdRecord] /\ stale \in SUBSET FD
CallRecord == [op: Op, cur: Addr \union {Null}, rest: Seq(Name),
               node: Addr \union {Null}, to: Seq(Name), name: Name \union {NoName}]
CallType == call \in CallRecord
RestType == /\ blocks \in Int /\ hungAt \in 0 .. U32-1
            /\ wild \in BOOLEAN /\ workload \in Workloads

TreePart == TreeType /\ TreeSound
DataPart == DataType /\ DataInv
FdPart == FdType /\ FdSound
CallPart == CallType /\ CallInv

LEMMA InvParts == IInv <=> TreePart /\ DataPart /\ FdPart /\ CallPart /\ RestType
BY Zenon DEF IInv, TypeOK, TreePart, DataPart, FdPart, CallPart, RestType, TreeType, DataType,
       FdType, CallType, FdRecord, CallRecord

LEMMA InvPartsPrime == IInv' <=> TreePart' /\ DataPart' /\ FdPart' /\ CallPart' /\ RestType'
BY InvParts, PTL

LEMMA FinddirFacts ==
  ASSUME TreePart, NEW d \in Addr, NEW n
  PROVE  /\ finddir(d, n) \in Addr \union {Null}
         /\ finddir(d, n) # Null => kind[finddir(d, n)] # "free"
         /\ kind[d] = "dir" /\ Matches(d, n) # {} =>
               /\ FirstMatch(d, n) \in DOMAIN kids[d]
               /\ finddir(d, n) = kids[d][FirstMatch(d, n)]
<1>1. CASE kind[d] = "dir" /\ Matches(d, n) # {}
  <2>1. kids[d] \in Seq(Addr) /\ DOMAIN kids[d] = 1 .. Len(kids[d]) /\ Len(kids[d]) \in Nat
    BY Zenon, LenProperties DEF TreePart, TreeType
  <2>2. Matches(d, n) \subseteq DOMAIN kids[d] /\ Matches(d, n) \subseteq Nat
    BY <2>1 DEF Matches
  <2>3. \E i \in Matches(d, n) : \A j \in Matches(d, n) : i <= j
    BY <1>1, <2>2, LeastExists
  <2>4. FirstMatch(d, n) \in Matches(d, n)
    BY <2>3 DEF FirstMatch
  <2>5. finddir(d, n) = kids[d][FirstMatch(d, n)]
    BY Zenon, <1>1 DEF finddir, FirstMatch
  <2> QED
    BY <2>2, <2>4, <2>5, ChildFacts DEF TreePart
<1>2. CASE ~(kind[d] = "dir" /\ Matches(d, n) # {})
  BY ZenonT(60), <1>2 DEF finddir
<1> QED
  BY ZenonT(60), <1>1, <1>2

LEMMA SameTree == ASSUME TreePart, UNCHANGED tree PROVE TreePart'
BY ZenonT(60) DEF TreePart, TreeType, TreeSound, tree

LEMMA SameData == ASSUME DataPart, UNCHANGED <<file, content>> PROVE DataPart'
BY DEF DataPart, DataType, DataInv

LEMMA SameFds == ASSUME FdPart, UNCHANGED <<kind, fds, stale>> PROVE FdPart'
BY DEF FdPart, FdType, FdSound

\* Descriptors are not disturbed by a node that comes into being.
LEMMA MoreNodes ==
  ASSUME TreePart, FdPart, UNCHANGED <<fds, stale>>,
         \A x \in Addr : kind[x] # "free" => kind'[x] = kind[x]
  PROVE  FdPart'
<1>1. \A d \in FD : fds[d].node \in Addr \union {Null}
  BY DEF FdPart, FdType, FdRecord
<1> QED
  BY <1>1 DEF FdPart, FdType, FdSound

LEMMA SameCall == ASSUME CallPart, UNCHANGED <<kind, parent, call>> PROVE CallPart'
BY DEF CallPart, CallType, CallInv

LEMMA ReturnCall == ASSUME Return PROVE CallPart'
<1>1. call' = NoCall
  BY DEF Return
<1>2. NoCall \in CallRecord
  BY DEF NoCall, CallRecord, Op
<1> QED
  BY <1>1, <1>2 DEF CallPart, CallType, CallInv, NoCall

\* A call that walks a path begins at the root.
LEMMA StartInv ==
  ASSUME IInv, UNCHANGED workload,
         NEW op \in Op \ {"rename_to"}, NEW path \in Seq(Name),
         NEW last \in Name \union {NoName}, NEW to \in Seq(Name),
         op = "rename_from" => to # << >>,
         Start(op, path, last, to)
  PROVE  IInv'
<1>1. /\ call' = [op |-> op, cur |-> Root, rest |-> path, node |-> Null,
                  to |-> to, name |-> last]
      /\ UNCHANGED <<tree, file, fds, blocks, content, stale, hungAt, wild>>
  BY DEF Start
<1>2. UNCHANGED <<kind, name, kids, parent>>
  BY Zenon, <1>1 DEF tree
<1>3. kind[Root] = "dir" /\ Root \in Addr
  BY InvParts, VfsAssumption DEF TreePart, TreeSound
<1>4. CallPart'
  <2>1. call' \in CallRecord
    BY Zenon, <1>1, <1>3 DEF CallRecord
  <2>2. kind'[call'.cur] # "free"
    BY Zenon, <1>1, <1>2, <1>3
  <2> QED
    BY ZenonT(60), <1>1, <2>1, <2>2 DEF CallPart, CallType, CallInv
<1>5. TreePart' /\ DataPart' /\ FdPart'
  BY Zenon, <1>1, <1>2, InvParts, SameTree, SameData, SameFds
<1>6. RestType'
  BY Zenon, <1>1, InvParts DEF RestType
<1> QED
  BY ZenonT(60), <1>4, <1>5, <1>6, InvPartsPrime

\* One component further, to a node that exists or to nowhere.
LEMMA AdvanceCall ==
  ASSUME CallPart, call.op \notin {"rename_from", "rename_to"}
                   \/ UNCHANGED parent, call.rest # << >>,
         NEW a \in Addr \union {Null}, a # Null => kind'[a] # "free", Advance(a)
  PROVE  CallPart'
<1>1. call' = [call EXCEPT !.cur = a, !.rest = Tail(@)]
  BY Zenon DEF Advance
<1>2. call \in CallRecord
  BY ZenonT(60) DEF CallPart, CallType
<1>3. Tail(call.rest) \in Seq(Name)
  BY <1>2 DEF CallRecord
<1>4. /\ call' \in CallRecord /\ call'.cur = a
      /\ call'.op = call.op /\ call'.to = call.to /\ call'.node = call.node
  BY ZenonT(60), <1>1, <1>2, <1>3 DEF CallRecord
<1> QED
  BY <1>4 DEF CallPart, CallType, CallInv

LEMMA WalkInv == ASSUME IInv, UNCHANGED workload, Walk PROVE IInv'
<1> DEFINE a == finddir(call.cur, Head(call.rest))
<1>1. /\ call.rest # << >> /\ call.cur # Null /\ Advance(a)
      /\ UNCHANGED <<tree, file, fds, blocks, content, stale, hungAt, wild>>
  BY ZenonT(60) DEF Walk, Walked
<1>2. UNCHANGED <<kind, name, kids, parent>>
  BY <1>1 DEF tree
<1>3. TreePart /\ DataPart /\ FdPart /\ CallPart /\ RestType
  BY InvParts
<1>4. call.cur \in Addr
  BY Zenon, <1>1, <1>3 DEF CallPart, CallType, CallRecord
<1>5. a \in Addr \union {Null} /\ (a # Null => kind[a] # "free")
  BY <1>3, <1>4, FinddirFacts
<1> HIDE DEF a
<1>6. CallPart'
  BY Zenon, <1>1, <1>2, <1>3, <1>5, AdvanceCall
<1>7. TreePart' /\ DataPart' /\ FdPart'
  BY Zenon, <1>1, <1>2, <1>3, SameTree, SameData, SameFds
<1>8. RestType'
  BY Zenon, <1>1, <1>3 DEF RestType
<1> QED
  BY ZenonT(60), <1>6, <1>7, <1>8, InvPartsPrime

LEMMA MkdirTurnInv == ASSUME IInv, UNCHANGED workload, MkdirTurn PROVE IInv'
<1> DEFINE d == call.cur
           n == Head(call.rest)
           child == finddir(d, n)
<1>1. /\ call.op = "mkdir" /\ call.rest # << >> /\ d # Null
      /\ UNCHANGED <<file, fds, content, stale, hungAt, wild>>
  BY Zenon DEF MkdirTurn, Walked, At
<1>2. TreePart /\ DataPart /\ FdPart /\ CallPart /\ RestType
  BY InvParts
<1>3. call \in CallRecord /\ d \in Addr /\ n \in Name
  BY <1>1, <1>2 DEF CallPart, CallType, CallRecord
<1>4. child \in Addr \union {Null} /\ (child # Null => kind[child] # "free")
  BY Zenon, <1>2, <1>3, FinddirFacts
<1>5. DataPart'
  BY <1>1, <1>2, SameData
<1>6. CASE child # Null /\ Advance(child) /\ UNCHANGED <<tree, blocks>>
  <2>1. UNCHANGED <<kind, name, kids, parent>>
    BY <1>6 DEF tree
  <2> HIDE DEF child, d
  <2>2. CallPart'
    BY Zenon, <1>1, <1>2, <1>4, <1>6, <2>1, AdvanceCall
  <2>3. TreePart' /\ FdPart'
    BY Zenon, <1>1, <1>2, <1>6, <2>1, SameTree, SameFds
  <2>4. RestType'
    BY <1>1, <1>2, <1>6 DEF RestType
  <2> QED
    BY ZenonT(60), <1>5, <2>2, <2>3, <2>4, InvPartsPrime
<1>7. ASSUME CanAdd(d), NEW a \in FreeNodes, Attach(d, a, "dir", n), Advance(a),
             blocks' = blocks + 1
      PROVE  IInv'
  <2>1. /\ TreeType' /\ TreeSound' /\ kind'[a] # "free" /\ a \in Addr
        /\ \A x \in Addr : kind[x] # "free" => kind'[x] = kind[x]
    BY Zenon, <1>2, <1>3, <1>7, AttachInv DEF TreePart, Kind, FreeNodes
  <2> HIDE DEF child, d, n
  <2>2. CallPart'
    BY Zenon, <1>1, <1>2, <1>7, <2>1, AdvanceCall
  <2>3. FdPart'
    BY Zenon, <1>1, <1>2, <2>1, MoreNodes
  <2>4. RestType'
    BY <1>1, <1>2, <1>7 DEF RestType
  <2> QED
    BY ZenonT(60), <1>5, <2>1, <2>2, <2>3, <2>4, InvPartsPrime DEF TreePart
<1>8. ASSUME Advance(Null), NEW k \in 0 .. 1, blocks' = blocks + k - Rollback(k), UNCHANGED tree
      PROVE  IInv'
  <2>1. UNCHANGED <<kind, name, kids, parent>>
    BY Zenon, <1>8 DEF tree
  <2> HIDE DEF child, d, n
  <2>2. CallPart'
    BY Zenon, <1>1, <1>2, <1>8, AdvanceCall
  <2>3. TreePart' /\ FdPart'
    BY ZenonT(60), <1>1, <1>2, <1>8, <2>1, SameTree, SameFds
  <2>4. RestType'
    BY <1>1, <1>2, <1>8 DEF RestType, Rollback
  <2> QED
    BY Zenon, <1>5, <2>2, <2>3, <2>4, InvPartsPrime
<1> QED
  BY ZenonT(60), <1>6, <1>7, <1>8 DEF MkdirTurn

LEMMA MkdirDoneInv == ASSUME IInv, UNCHANGED workload, MkdirDone PROVE IInv'
<1>1. Return /\ UNCHANGED <<tree, file, fds, blocks, content, stale, hungAt, wild>>
  BY DEF MkdirDone
<1>2. UNCHANGED kind
  BY <1>1 DEF tree
<1>3. TreePart' /\ DataPart' /\ FdPart' /\ CallPart'
  BY ZenonT(60), <1>1, <1>2, InvParts, SameTree, SameData, SameFds, ReturnCall
<1>4. RestType'
  BY <1>1, InvParts DEF RestType
<1> QED
  BY ZenonT(60), <1>3, <1>4, InvPartsPrime

LEMMA OpenDoneInv == ASSUME IInv, UNCHANGED workload, OpenDone PROVE IInv'
<1>1. Return /\ UNCHANGED <<tree, file, blocks, content, stale, hungAt, wild>>
  BY DEF OpenDone
<1>2. UNCHANGED kind
  BY <1>1 DEF tree
<1>3. TreePart' /\ DataPart' /\ CallPart'
  BY Zenon, <1>1, InvParts, SameTree, SameData, ReturnCall
<1>4. RestType'
  BY Zenon, <1>1, InvParts DEF RestType
<1>5. FdPart'
  <2>1. CASE UNCHANGED fds
    BY ZenonT(60), <2>1, <1>1, <1>2, InvParts, SameFds
  <2>2. ASSUME call.cur # Null, NEW d \in FD,
               fds' = [fds EXCEPT ![d] = [in_use |-> TRUE, node |-> call.cur, offset |-> 0]]
        PROVE  FdPart'
    <3>1. call.cur \in Addr /\ kind[call.cur] # "free"
      BY ZenonT(60), <2>2, InvParts DEF CallPart, CallType, CallRecord, CallInv
    <3>2. fds \in [FD -> FdRecord] /\ FdSound /\ stale \in SUBSET FD
      BY InvParts DEF FdPart, FdType
    <3>3. [in_use |-> TRUE, node |-> call.cur, offset |-> 0] \in FdRecord
      BY <3>1, RamfsAssumption DEF FdRecord
    <3>4. fds' \in [FD -> FdRecord] /\ fds'[d].node = call.cur
          /\ \A e \in FD : e # d => fds'[e] = fds[e]
      BY Zenon, <2>2, <3>2, <3>3
    <3> QED
      BY ZenonT(60), <3>1, <3>2, <3>4, <1>1, <1>2, VfsAssumption DEF FdPart, FdType, FdSound
  <2> QED
    BY <2>1, <2>2 DEF OpenDone
<1> QED
  BY ZenonT(60), <1>3, <1>4, <1>5, InvPartsPrime

LEMMA UnlinkDoneInv == ASSUME IInv, UNCHANGED workload, UnlinkDone PROVE IInv'
<1> DEFINE d == call.cur
           i == FirstMatch(d, call.name)
           a == kids[d][i]
<1>1. Return /\ UNCHANGED <<fds, hungAt>>
  BY Zenon DEF UnlinkDone
<1>2. TreePart /\ DataPart /\ FdPart /\ CallPart /\ RestType
  BY InvParts
<1>3. CallPart'
  BY ZenonT(60), <1>1, ReturnCall
<1>4. CASE UNCHANGED <<tree, file, content, blocks, stale, wild>>
  <2>1. UNCHANGED kind
    BY <1>4 DEF tree
  <2>2. TreePart' /\ DataPart' /\ FdPart'
    BY ZenonT(60), <1>1, <1>2, <1>4, <2>1, SameTree, SameData, SameFds
  <2>3. RestType'
    BY <1>1, <1>2, <1>4 DEF RestType
  <2> QED
    BY ZenonT(60), <1>3, <2>2, <2>3, InvPartsPrime
<1>5. ASSUME d # Null, kind[d] = "dir", Matches(d, call.name) # {},
             kind' = [kind EXCEPT ![a] = "free"],
             name' = [name EXCEPT ![a] = NoName],
             parent' = [parent EXCEPT ![a] = Null],
             kids' = [kids EXCEPT ![d] = Without(@, i), ![a] = << >>],
             file' = [file EXCEPT ![a] = EmptyFile],
             content' = [content EXCEPT ![a] = NoContent],
             blocks' = blocks - Freed(kind[a]),
             stale' = stale \union {e \in FD : fds[e].in_use /\
                                               fds[e].node = finddir(d, call.name)},
             wild' = (kind[a] = "initrd")
      PROVE  IInv'
  <2>1. d \in Addr
    BY Zenon, <1>2, <1>5 DEF CallPart, CallType, CallRecord
  <2>2. i \in DOMAIN kids[d] /\ finddir(d, call.name) = a
    BY ZenonT(60), <1>2, <1>5, <2>1, FinddirFacts
  <2>3. a \in Addr
    BY Zenon, <1>2, <2>1, <2>2, ChildFacts DEF TreePart
  <2>4. kids \in [Addr -> Seq(Addr)] /\ kind \in [Addr -> Kind]
    BY <1>2 DEF TreePart, TreeType
  <2>5. kids' = Cut(d, i)
    <3>1. a = kids[d][i]
      OBVIOUS
    <3> HIDE DEF d, i, a
    <3> QED
      BY ZenonT(60), <3>1, <1>5, <2>1, <2>3, <2>4 DEF Unhooked, Cut
  <2> HIDE DEF i, d
  <2>6. TreePart'
    <3> HIDE DEF a
    <3>1. TreeType /\ TreeSound /\ a = kids[d][i]
      BY Zenon, <1>2 DEF TreePart, a
    <3>2. /\ kind' = [kind EXCEPT ![a] = "free"]
          /\ name' = [name EXCEPT ![a] = NoName]
          /\ parent' = [parent EXCEPT ![a] = Null]
      BY <1>5
    <3>3. i \in DOMAIN kids[d]
      BY <2>2
    <3>4. TreeType' /\ TreeSound'
      BY ZenonT(60), <3>1, <3>2, <3>3, <2>1, <2>5, UnlinkTree
    <3> QED
      BY <3>4 DEF TreePart
  <2> HIDE DEF a
  <2>7. DataPart'
    <3>1. /\ \A x \in Addr : file'[x] = IF x = a THEN EmptyFile ELSE file[x]
          /\ \A x \in Addr : content'[x] = IF x = a THEN NoContent ELSE content[x]
          /\ DOMAIN file' = Addr /\ DOMAIN content' = Addr
      BY Zenon, <1>2, <1>5, <2>3 DEF DataPart, DataType
    <3> QED
      BY Zenon, <3>1, <1>2, EmptyFileFine DEF DataPart, DataType, DataInv
  <2>8. FdPart'
    <3>1. fds \in [FD -> FdRecord] /\ stale' \in SUBSET FD
      BY Zenon, <1>2, <1>5 DEF FdPart, FdType
    <3>2. ASSUME NEW e \in FD, fds[e].in_use, e \notin stale'
          PROVE  fds[e].node # Null /\ kind'[fds[e].node] # "free"
      <4>1. e \notin stale /\ fds[e].node # a
        BY ZenonT(60), <1>5, <2>2, <3>2
      <4>2. fds[e].node # Null /\ kind[fds[e].node] # "free"
        BY Zenon, <1>2, <3>2, <4>1 DEF FdPart, FdSound
      <4>3. fds[e].node \in Addr
        BY <3>1, <4>2 DEF FdRecord
      <4> QED
        BY ZenonT(60), <1>5, <2>4, <4>1, <4>2, <4>3
    <3> QED
      BY Zenon, <1>1, <3>1, <3>2 DEF FdPart, FdType, FdSound
  <2>9. RestType'
    <3>1. wild' \in BOOLEAN
      BY ZenonT(60), <1>5
    <3>2. blocks' \in Int
      BY <1>2, <1>5 DEF RestType, Freed
    <3> QED
      BY <1>1, <1>2, <3>1, <3>2 DEF RestType
  <2> QED
    BY ZenonT(60), <1>3, <2>6, <2>7, <2>8, <2>9, InvPartsPrime
<1> QED
  BY ZenonT(60), <1>4, <1>5 DEF UnlinkDone

\* The two halves of a path that a name is split off from.
LEMMA SplitFacts ==
  ASSUME NEW q \in Seq(Name), q # << >>
  PROVE  ParentOf(q) \in Seq(Name) /\ LastOf(q) \in Name
<1>1. Len(q) \in Nat /\ Len(q) >= 1 /\ Len(q) \in 1 .. Len(q)
  BY EmptySeq, LenProperties
<1> QED
  BY <1>1, SubSeqProperties, ElementOfSeq DEF ParentOf, LastOf

LEMMA MadeCall ==
  ASSUME NEW op \in Op, NEW cur \in Addr \cup {Null}, NEW rest \in Seq(Name),
         NEW node \in Addr \cup {Null}, NEW to \in Seq(Name), NEW n \in Name \cup {NoName}
  PROVE  [op |-> op, cur |-> cur, rest |-> rest, node |-> node, to |-> to, name |-> n]
           \in CallRecord
BY Zenon DEF CallRecord

LEMMA RenameFoundInv == ASSUME IInv, UNCHANGED workload, RenameFound PROVE IInv'
<1>1. call.op = "rename_from" /\ UNCHANGED <<tree, file, fds, blocks, content, stale, hungAt, wild>>
  BY ZenonT(60) DEF RenameFound, At
<1>2. UNCHANGED <<kind, name, kids, parent>>
  BY <1>1 DEF tree
<1>3. TreePart' /\ DataPart' /\ FdPart'
  BY Zenon, <1>1, <1>2, InvParts, SameTree, SameData, SameFds
<1>4. RestType'
  BY <1>1, InvParts DEF RestType
<1>5. CASE Return
  BY ZenonT(60), <1>3, <1>4, <1>5, ReturnCall, InvPartsPrime
<1>6. ASSUME call.cur # Null, parent[call.cur] # Null,
             call' = [op |-> "rename_to", cur |-> Root, rest |-> ParentOf(call.to),
                      node |-> call.cur, to |-> << >>, name |-> LastOf(call.to)]
      PROVE  IInv'
  <2>1. call.cur \in Addr /\ call.to \in Seq(Name) /\ call.to # << >>
    BY ZenonT(60), <1>1, <1>6, InvParts DEF CallPart, CallType, CallRecord, CallInv
  <2>2. ParentOf(call.to) \in Seq(Name) /\ LastOf(call.to) \in Name
    BY Zenon, <2>1, SplitFacts
  <2>3. Root \in Addr /\ kind[Root] = "dir"
    BY Zenon, InvParts, VfsAssumption DEF TreePart, TreeSound
  <2>4. call' \in CallRecord
    <3>1. "rename_to" \in Op /\ << >> \in Seq(Name)
      BY DEF Op
    <3>2. LastOf(call.to) \in Name \cup {NoName} /\ Root \in Addr \cup {Null}
          /\ call.cur \in Addr \cup {Null}
      BY Zenon, <2>1, <2>2, <2>3
    <3> QED
      BY ZenonT(60), <1>6, <2>2, <3>1, <3>2, MadeCall
  <2>5. CallPart'
    BY ZenonT(60), <1>2, <1>6, <2>1, <2>3, <2>4 DEF CallPart, CallType, CallInv
  <2> QED
    BY ZenonT(60), <1>3, <1>4, <2>5, InvPartsPrime
<1> QED
  BY ZenonT(60), <1>5, <1>6 DEF RenameFound

LEMMA RenameDoneInv == ASSUME IInv, UNCHANGED workload, RenameDone PROVE IInv'
<1> DEFINE a == call.node
           from == parent[a]
<1>1. /\ call.op = "rename_to" /\ Return
      /\ UNCHANGED <<kind, file, fds, blocks, content, stale, hungAt, wild>>
  BY Zenon DEF RenameDone, At
<1>2. TreePart /\ DataPart /\ FdPart /\ CallPart /\ RestType
  BY InvParts
<1>3. DataPart' /\ FdPart' /\ CallPart'
  BY Zenon, <1>1, <1>2, SameData, SameFds, ReturnCall
<1>4. RestType'
  BY ZenonT(60), <1>1, <1>2 DEF RestType
<1>5. a \in Addr /\ from \in Addr
  BY <1>1, <1>2 DEF CallPart, CallInv, TreePart, TreeType
<1>6. CASE UNCHANGED <<name, kids, parent>>
  <2>1. TreePart'
    BY Zenon, <1>1, <1>2, <1>6, SameTree DEF tree
  <2> QED
    BY ZenonT(60), <1>3, <1>4, <2>1, InvPartsPrime
<1>7. ASSUME call.cur # Null,
             NEW i \in DOMAIN kids[from], kids[from][i] = a,
             NEW home, home = Home(Unhooked(from, i), call.cur, from),
             kids' = [d \in Addr |-> IF d \in home THEN Append(Unhooked(from, i)[d], a)
                                     ELSE Unhooked(from, i)[d]],
             parent' = [parent EXCEPT ![a] = IF home = {} THEN @ ELSE CHOOSE d \in home : TRUE],
             name' = [name EXCEPT ![a] = call.name]
      PROVE  IInv'
  <2>1. call.cur \in Addr /\ call.name \in Name \union {NoName}
    BY Zenon, <1>2, <1>7 DEF CallPart, CallType, CallRecord
  <2>2. kind[from] = "dir" /\ Len(Unhooked(from, i)[from]) < VFS_MAX_CHILDREN
    BY ZenonT(60), <1>2, <1>5, <1>7, ChildFacts, UnhookedFacts DEF TreePart
  <2>3. PICK h \in Addr : /\ home = {h} /\ kind[h] = "dir"
                          /\ Len(Unhooked(from, i)[h]) < VFS_MAX_CHILDREN
    BY ZenonT(60), <1>5, <1>7, <2>1, <2>2 DEF Home
  <2>4. kids' = Moved(from, i, h)
    BY <1>7, <2>3 DEF Moved
  <2>5. parent' = [parent EXCEPT ![a] = h]
    BY ZenonT(60), <1>7, <2>3
  <2>6. TreePart'
    <3>1. TreeType /\ TreeSound /\ a = kids[from][i] /\ UNCHANGED kind
      BY Zenon, <1>1, <1>2, <1>7 DEF TreePart
    <3>2. name' = [name EXCEPT ![a] = call.name]
      BY Zenon, <1>7
    <3>3. i \in DOMAIN kids[from]
      BY ZenonT(60), <1>7
    <3> HIDE DEF a, from
    <3>4. TreeType' /\ TreeSound'
      BY ZenonT(60), <3>1, <3>2, <3>3, <1>5, <2>1, <2>3, <2>4, <2>5, MoveTree
    <3> QED
      BY Zenon, <3>4 DEF TreePart
  <2> QED
    BY ZenonT(60), <1>3, <1>4, <2>6, InvPartsPrime
<1>8. CASE call.cur # Null /\ ~UNCHANGED <<name, kids, parent>>
  <2>1. PICK i \in {j \in DOMAIN kids[from] : kids[from][j] = a} :
           LET ks == Unhooked(from, i)
               home == Home(ks, call.cur, from)
           IN  /\ kids' = [d \in Addr |-> IF d \in home THEN Append(ks[d], a) ELSE ks[d]]
               /\ parent' = [parent EXCEPT ![a] = IF home = {} THEN @
                                                  ELSE CHOOSE d \in home : TRUE]
    BY ZenonT(60), <1>8 DEF RenameDone
  <2>2. name' = [name EXCEPT ![a] = call.name]
    BY ZenonT(60), <1>8 DEF RenameDone
  <2> QED
    BY ZenonT(60), <1>7, <1>8, <2>1, <2>2
<1> QED
  BY ZenonT(60), <1>6, <1>8 DEF RenameDone

LEMMA CreateFileInv ==
  ASSUME IInv, UNCHANGED workload, NEW n \in Name, CreateFile(n)
  PROVE  IInv'
<1>1. UNCHANGED <<file, fds, call, content, stale, hungAt, wild>>
  BY DEF CreateFile
<1>2. TreePart /\ DataPart /\ FdPart /\ CallPart /\ RestType /\ Root \in Addr
  BY InvParts, VfsAssumption
<1>3. DataPart'
  BY ZenonT(60), <1>1, <1>2, SameData
<1>4. ASSUME CanAdd(Root), NEW a \in FreeNodes, Attach(Root, a, "ram", n), blocks' = blocks + 3
      PROVE  IInv'
  <2>1. /\ TreeType' /\ TreeSound'
        /\ \A x \in Addr : kind[x] # "free" => kind'[x] = kind[x] /\ parent'[x] = parent[x]
    BY Zenon, <1>2, <1>4, AttachInv DEF TreePart, Kind
  <2>2. FdPart'
    BY ZenonT(60), <1>1, <1>2, <2>1, MoreNodes
  <2>3. CallPart'
    <3>1. call.op = "none" /\ call \in CallRecord
      BY ZenonT(60), <1>2 DEF CreateFile, Idle, CallPart, CallType
    <3>2. call.cur # Null => kind'[call.cur] # "free"
      BY Zenon, <1>2, <2>1, <3>1 DEF CallPart, CallInv, CallRecord
    <3> QED
      BY <1>1, <3>1, <3>2 DEF CallPart, CallType, CallInv
  <2>4. RestType'
    BY <1>1, <1>2, <1>4 DEF RestType
  <2> QED
    BY ZenonT(60), <1>3, <2>1, <2>2, <2>3, <2>4, InvPartsPrime DEF TreePart
<1>5. ASSUME NEW k \in 0 .. 3, blocks' = blocks + k - Rollback(k), UNCHANGED tree
      PROVE  IInv'
  <2>1. UNCHANGED <<kind, name, kids, parent>>
    BY <1>5 DEF tree
  <2>2. TreePart' /\ FdPart' /\ CallPart'
    BY ZenonT(60), <1>1, <1>2, <1>5, <2>1, SameTree, SameFds, SameCall
  <2>3. RestType'
    BY <1>1, <1>2, <1>5 DEF RestType, Rollback
  <2> QED
    BY Zenon, <1>3, <2>2, <2>3, InvPartsPrime
<1> QED
  BY Zenon, <1>4, <1>5 DEF CreateFile

\* A call that only moves a descriptor.
LEMMA OffsetInv ==
  ASSUME IInv, UNCHANGED workload, NEW d \in FD, NEW off \in 0 .. U32-1,
         fds' = [fds EXCEPT ![d].offset = off],
         UNCHANGED <<tree, file, blocks, call, content, stale, hungAt, wild>>
  PROVE  IInv'
<1>1. UNCHANGED <<kind, name, kids, parent>>
  BY DEF tree
<1>2. TreePart' /\ DataPart' /\ CallPart'
  BY Zenon, <1>1, InvParts, SameTree, SameData, SameCall
<1>3. RestType'
  BY InvParts DEF RestType
<1>4. FdPart'
  <2>1. fds \in [FD -> FdRecord]
    BY InvParts DEF FdPart, FdType
  <2>2. /\ fds' \in [FD -> FdRecord]
        /\ \A e \in FD : fds'[e].in_use = fds[e].in_use /\ fds'[e].node = fds[e].node
    BY ZenonT(60), <2>1 DEF FdRecord
  <2> QED
    BY Zenon, <1>1, <2>2, InvParts DEF FdPart, FdType, FdSound
<1> QED
  BY Zenon, <1>2, <1>3, <1>4, InvPartsPrime

\* Everything a descriptor call relies on.
LEMMA OpenFacts ==
  ASSUME IInv, NEW d \in FD, fds[d].in_use, d \notin stale
  PROVE  /\ fds[d].node \in Addr /\ fds[d].offset \in 0 .. U32-1
         /\ SizeOf(fds[d].node) \in 0 .. U32-1
         /\ Len(kids[fds[d].node]) \in Nat /\ Len(kids[fds[d].node]) <= U32-1
<1>1. fds[d] \in FdRecord /\ fds[d].node # Null
  BY InvParts DEF FdPart, FdType, FdSound
<1>2. fds[d].node \in Addr /\ fds[d].offset \in 0 .. U32-1
  BY <1>1 DEF FdRecord
<1>3. SizeOf(fds[d].node) \in 0 .. U32-1
  BY <1>2, InvParts, VfsAssumption, RamfsAssumption DEF SizeOf, DataPart, DataType, IsFile
<1>4. kids[fds[d].node] \in Seq(Addr) /\ Len(kids[fds[d].node]) <= VFS_MAX_CHILDREN
  BY Zenon, <1>2, InvParts DEF TreePart, TreeType
<1>5. Len(kids[fds[d].node]) \in Nat
  BY <1>4, LenProperties
<1> QED
  BY <1>2, <1>3, <1>4, <1>5, VfsAssumption, RamfsAssumption

LEMMA FdReadInv ==
  ASSUME IInv, UNCHANGED workload, NEW d \in FD, NEW n \in Sizes, FdRead(d, n)
  PROVE  IInv'
<1> DEFINE off == fds[d].offset
           got == RamfsRead(SizeOf(fds[d].node), off, n)
<1>1. /\ fds[d].in_use /\ d \notin stale /\ fds' = [fds EXCEPT ![d].offset = @ + got]
      /\ UNCHANGED <<tree, file, blocks, call, content, stale, hungAt, wild>>
  BY DEF FdRead, Open
<1>2. off \in 0 .. U32-1 /\ SizeOf(fds[d].node) \in 0 .. U32-1
  BY <1>1, OpenFacts
<1>3. n \in Nat /\ U32 \in Nat
  BY VfsAssumption, RamfsAssumption
<1>4. off + got \in 0 .. U32-1
  BY <1>2, <1>3 DEF RamfsRead
<1>5. fds' = [fds EXCEPT ![d].offset = off + got]
  BY <1>1
<1> HIDE DEF off, got
<1> QED
  BY ZenonT(60), <1>1, <1>4, <1>5, OffsetInv

LEMMA LseekInv ==
  ASSUME IInv, UNCHANGED workload, NEW d \in FD, NEW to \in SeekTo, Lseek(d, to)
  PROVE  IInv'
<1>1. /\ fds[d].in_use /\ d \notin stale
      /\ UNCHANGED <<tree, file, blocks, call, content, stale, hungAt, wild>>
  BY ZenonT(60) DEF Lseek, Open
<1>2. fds[d].offset \in 0 .. U32-1 /\ SizeOf(fds[d].node) \in 0 .. U32-1
  BY ZenonT(60), <1>1, OpenFacts
<1>3. PICK base \in {0, fds[d].offset, SizeOf(fds[d].node)} :
         fds' = [fds EXCEPT ![d].offset = (base + to) % U32]
  BY Zenon DEF Lseek
<1>4. base + to \in Int /\ U32 \in Nat \ {0}
  BY <1>2, <1>3, VfsAssumption, RamfsAssumption
<1>5. (base + to) % U32 \in 0 .. U32-1
  BY <1>4
<1> QED
  BY Zenon, <1>1, <1>3, <1>5, OffsetInv

LEMMA GetdentsInv ==
  ASSUME IInv, UNCHANGED workload, NEW d \in FD, Getdents(d)
  PROVE  IInv'
<1>1. /\ fds[d].in_use /\ d \notin stale
      /\ UNCHANGED <<tree, file, blocks, call, content, stale, hungAt, wild>>
  BY ZenonT(60) DEF Getdents, Open
<1>2. /\ fds[d].offset \in 0 .. U32-1 /\ Len(kids[fds[d].node]) \in Nat
      /\ Len(kids[fds[d].node]) <= U32-1
  BY ZenonT(60), <1>1, OpenFacts
<1>3. PICK k \in 1 .. VFS_MAX_CHILDREN :
         /\ fds[d].offset + k <= Len(kids[fds[d].node])
         /\ fds' = [fds EXCEPT ![d].offset = @ + k]
  BY Zenon DEF Getdents
<1>4. fds[d].offset + k \in 0 .. U32-1
  BY <1>2, <1>3, VfsAssumption, RamfsAssumption
<1> QED
  BY ZenonT(60), <1>1, <1>3, <1>4, OffsetInv

LEMMA FdWriteInv ==
  ASSUME IInv, UNCHANGED workload, NEW d \in FD, NEW n \in Sizes, NEW b \in Byte,
         FdWrite(d, n, b)
  PROVE  IInv'
<1> DEFINE a == fds[d].node
           off == fds[d].offset
           bytes == [i \in 0 .. n-1 |-> b]
<1>1. /\ fds[d].in_use /\ d \notin stale /\ n <= U32-1 - off
      /\ UNCHANGED <<tree, blocks, call, stale, wild>>
  BY DEF FdWrite, Open
<1>2. a \in Addr /\ off \in 0 .. U32-1
  BY ZenonT(60), <1>1, OpenFacts
<1>3. n \in Nat /\ U32 \in Nat /\ off + n \in 0 .. U32-1
  BY <1>1, <1>2, VfsAssumption, RamfsAssumption
<1>4. TreePart /\ DataPart /\ FdPart /\ CallPart /\ RestType
  BY Zenon, InvParts
<1>5. UNCHANGED <<kind, name, kids, parent>>
  BY Zenon, <1>1 DEF tree
<1>6. TreePart' /\ CallPart'
  BY Zenon, <1>1, <1>4, <1>5, SameTree, SameCall
<1>7. ASSUME hungAt' = off + n, UNCHANGED <<file, content, fds>> PROVE IInv'
  <2>1. DataPart' /\ FdPart'
    BY ZenonT(60), <1>1, <1>4, <1>5, <1>7, SameData, SameFds
  <2>2. RestType'
    BY Zenon, <1>1, <1>3, <1>4, <1>7 DEF RestType
  <2> QED
    BY ZenonT(60), <1>6, <2>1, <2>2, InvPartsPrime
<1>8. ASSUME GrowEnds(file[a], off + n),
             file' = [file EXCEPT ![a] = RamfsWrite(@, off, bytes, n)],
             content' = [content EXCEPT ![a] = Overwritten(@, off, bytes, n)],
             fds' = [fds EXCEPT ![d].offset = @ + n],
             UNCHANGED hungAt
      PROVE  IInv'
  <2>1. bytes \in [0 .. n-1 -> Byte]
    BY ZenonT(60)
  <2> HIDE DEF a, off, bytes
  <2>2. /\ IsFile(file[a]) /\ TailZero(file[a]) /\ IsContent(content[a])
        /\ Holds(file[a], content[a])
    BY <1>2, <1>4 DEF DataPart, DataType, DataInv
  <2>3. LET g == RamfsWrite(file[a], off, bytes, n)
            c == Overwritten(content[a], off, bytes, n)
        IN  IsFile(g) /\ TailZero(g) /\ IsContent(c) /\ Holds(g, c)
    <3>1. off \in Nat /\ off + n <= U32-1
      BY <1>2, <1>3
    <3> QED
      BY Zenon, <3>1, <1>3, <1>8, <2>1, <2>2, WriteKeeps
  <2>4. DataPart'
    <3>1. /\ DOMAIN file' = Addr /\ DOMAIN content' = Addr
          /\ file'[a] = RamfsWrite(file[a], off, bytes, n)
          /\ content'[a] = Overwritten(content[a], off, bytes, n)
          /\ \A x \in Addr : x # a => file'[x] = file[x] /\ content'[x] = content[x]
      BY ZenonT(60), <1>2, <1>4, <1>8 DEF DataPart, DataType
    <3> QED
      BY ZenonT(60), <3>1, <2>3, <1>4 DEF DataPart, DataType, DataInv
  <2>5. FdPart'
    <3>1. fds \in [FD -> FdRecord]
      BY <1>4 DEF FdPart, FdType
    <3>2. fds' = [fds EXCEPT ![d].offset = off + n]
      BY <1>8 DEF off
    <3>3. /\ fds' \in [FD -> FdRecord]
          /\ \A e \in FD : fds'[e].in_use = fds[e].in_use /\ fds'[e].node = fds[e].node
      BY <3>1, <3>2, <1>3 DEF FdRecord
    <3> QED
      BY ZenonT(60), <1>1, <1>4, <1>5, <3>3 DEF FdPart, FdType, FdSound
  <2>6. RestType'
    BY Zenon, <1>1, <1>4, <1>8 DEF RestType
  <2> QED
    BY Zenon, <1>6, <2>4, <2>5, <2>6, InvPartsPrime
<1> QED
  BY <1>7, <1>8 DEF FdWrite

LEMMA CloseInv == ASSUME IInv, UNCHANGED workload, NEW d \in FD, Close(d) PROVE IInv'
<1>1. /\ fds' = [fds EXCEPT ![d] = NoFd] /\ stale' = stale \ {d}
      /\ UNCHANGED <<tree, file, blocks, call, content, hungAt, wild>>
  BY DEF Close
<1>2. UNCHANGED <<kind, name, kids, parent>>
  BY <1>1 DEF tree
<1>3. TreePart' /\ DataPart' /\ CallPart'
  BY ZenonT(60), <1>1, <1>2, InvParts, SameTree, SameData, SameCall
<1>4. RestType'
  BY Zenon, <1>1, InvParts DEF RestType
<1>5. FdPart'
  <2>1. fds \in [FD -> FdRecord] /\ stale \in SUBSET FD /\ FdSound
    BY Zenon, InvParts DEF FdPart, FdType
  <2>2. NoFd \in FdRecord /\ ~NoFd.in_use
    BY RamfsAssumption DEF NoFd, FdRecord
  <2>3. /\ fds' \in [FD -> FdRecord] /\ ~fds'[d].in_use
        /\ \A e \in FD : e # d => fds'[e] = fds[e]
    BY <1>1, <2>1, <2>2
  <2> QED
    BY ZenonT(60), <1>1, <1>2, <2>1, <2>3 DEF FdPart, FdType, FdSound
<1> QED
  BY Zenon, <1>3, <1>4, <1>5, InvPartsPrime

LEMMA UseFreedInv == ASSUME IInv, UNCHANGED workload, NEW d \in FD, UseFreed(d) PROVE IInv'
<1>1. wild' = TRUE /\ UNCHANGED <<tree, file, fds, blocks, call, content, stale, hungAt>>
  BY DEF UseFreed
<1>2. UNCHANGED <<kind, name, kids, parent>>
  BY <1>1 DEF tree
<1>3. TreePart' /\ DataPart' /\ FdPart' /\ CallPart'
  BY ZenonT(60), <1>1, <1>2, InvParts, SameTree, SameData, SameFds, SameCall
<1>4. wild' \in BOOLEAN
  BY <1>1, Zenon
<1>5. RestType'
  BY <1>1, <1>4, InvParts DEF RestType
<1> QED
  BY ZenonT(60), <1>3, <1>5, InvPartsPrime

LEMMA StepInv == ASSUME IInv, [Next]_vars PROVE IInv'
<1>1. CASE UNCHANGED vars
  <2>1. UNCHANGED tree
    BY <1>1 DEF vars, tree
  <2>2. TreePart' /\ DataPart' /\ FdPart' /\ CallPart'
    BY ZenonT(60), <1>1, <2>1, InvParts, SameTree, SameData, SameFds, SameCall DEF vars
  <2>3. RestType'
    BY Zenon, <1>1, InvParts DEF RestType, vars
  <2> QED
    BY ZenonT(60), <2>2, <2>3, InvPartsPrime
<1>2. ASSUME Next PROVE IInv'
  <2>1. UNCHANGED workload /\ (PathCall \/ FdCall)
    BY <1>2 DEF Next
  <2>2. Path \subseteq Seq(Name) /\ << >> \in Seq(Name) /\ \A p \in Path : p # << >>
    BY VfsAssumption
  <2>3. ASSUME NEW p \in Path \union {<< >>}, SysOpen(p) PROVE IInv'
    BY ZenonT(60), <2>1, <2>2, <2>3, StartInv DEF SysOpen, Op
  <2>4. ASSUME NEW p \in Path, SysMkdir(p) PROVE IInv'
    BY ZenonT(60), <2>1, <2>2, <2>4, StartInv DEF SysMkdir, Op
  <2>5. ASSUME NEW p \in Path, SysUnlink(p) PROVE IInv'
    <3>1. ParentOf(p) \in Seq(Name) /\ LastOf(p) \in Name
      BY <2>2, SplitFacts
    <3> QED
      BY ZenonT(60), <3>1, <2>1, <2>2, <2>5, StartInv DEF SysUnlink, Op
  <2>6. ASSUME NEW p \in Path \union {<< >>}, NEW q \in Path, SysRename(p, q) PROVE IInv'
    BY ZenonT(60), <2>1, <2>2, <2>6, StartInv DEF SysRename, Op
  <2>7. CASE PathCall
    BY ZenonT(60), <2>1, <2>3, <2>4, <2>5, <2>6, <2>7, WalkInv, MkdirTurnInv, MkdirDoneInv, OpenDoneInv,
       UnlinkDoneInv, RenameFoundInv, RenameDoneInv DEF PathCall
  <2>8. CASE FdCall
    BY ZenonT(60), <2>1, <2>8, CreateFileInv, UseFreedInv, FdReadInv, FdWriteInv, LseekInv, GetdentsInv,
       CloseInv DEF FdCall
  <2> QED
    BY Zenon, <2>1, <2>7, <2>8
<1> QED
  BY <1>1, <1>2

-----------------------------------------------------------------------------

LEMMA Invariance == Spec => []IInv
BY InitInv, StepInv, PTL DEF Spec

\* Every variable keeps its type: no directory exceeds its limit and no
\* offset leaves the range of a u32.
THEOREM TypeCorrect == Spec => []TypeOK
<1>1. IInv => TypeOK
  BY DEF IInv
<1> QED
  BY <1>1, Invariance, PTL

\* mkdir, create, rename and unlink keep the tree sound, in any order and
\* with any of their allocations failing: directories list only nodes that
\* exist, each in one place and with the right parent.
THEOREM TreeAlwaysSound == Spec => []TreeSound
<1>1. IInv => TreeSound
  BY DEF IInv
<1> QED
  BY <1>1, Invariance, PTL

\* Descriptors whose nodes were not unlinked refer to nodes that exist.
THEOREM FdsAlwaysSound == Spec => []FdSound
<1>1. IInv => FdSound
  BY ZenonT(60) DEF IInv
<1> QED
  BY <1>1, Invariance, PTL

\* RAM files hold what was written to them, zeros in the gaps, across every
\* growth of their buffers and every reuse of the memory of other files.
THEOREM DataAlwaysKept == Spec => []DataKept
<1>1. IInv => DataKept
  BY DEF IInv, DataInv, DataKept
<1> QED
  BY <1>1, Invariance, PTL

-----------------------------------------------------------------------------
(* The heap blocks.                                                        *)

Used == {a \in Addr : kind[a] # "free"}
Rams == {a \in Addr : kind[a] = "ram"}

LEMMA CountFacts ==
  ASSUME TreeType
  PROVE  /\ IsFiniteSet(Used) /\ IsFiniteSet(Rams)
         /\ Cardinality(Used) \in Nat /\ Cardinality(Rams) \in Nat
<1>1. IsFiniteSet(Used) /\ IsFiniteSet(Rams)
  BY Zenon, VfsAssumption, FS_Subset DEF Used, Rams
<1> QED
  BY ZenonT(60), <1>1, FS_CardinalityType

LEMMA SameBlocks == ASSUME BlocksOwned, UNCHANGED <<kind, blocks>> PROVE BlocksOwned'
BY DEF BlocksOwned

LEMMA AttachBlocks ==
  ASSUME TreeType, BlocksOwned, NEW d \in Addr, NEW a \in FreeNodes, NEW n,
         NEW k \in {"dir", "ram"}, Attach(d, a, k, n),
         blocks' = blocks + (IF k = "ram" THEN 3 ELSE 1)
  PROVE  BlocksOwned'
<1>1. a \in Addr /\ a \notin Used /\ a \notin Rams
  BY DEF FreeNodes, Used, Rams
<1>2. \A x \in Addr : kind'[x] = IF x = a THEN k ELSE kind[x]
  BY ZenonT(60) DEF Attach, TreeType
<1>3. Used' = Used \union {a} /\ Rams' = IF k = "ram" THEN Rams \union {a} ELSE Rams
  BY <1>1, <1>2 DEF Used, Rams
<1>4. /\ Cardinality(Used \union {a}) = Cardinality(Used) + 1
      /\ Cardinality(Rams \union {a}) = Cardinality(Rams) + 1
  BY ZenonT(60), <1>1, CountFacts, FS_AddElement
<1>5. blocks = Cardinality(Used) + 2 * Cardinality(Rams)
  BY DEF BlocksOwned, Used, Rams
<1>6. blocks' = Cardinality(Used') + 2 * Cardinality(Rams')
  BY <1>3, <1>4, <1>5, CountFacts
<1> QED
  BY <1>6 DEF BlocksOwned, Used, Rams

LEMMA UnlinkBlocks ==
  ASSUME TreeType, BlocksOwned, NEW a \in Addr, kind[a] # "free",
         kind' = [kind EXCEPT ![a] = "free"], blocks' = blocks - Freed(kind[a])
  PROVE  BlocksOwned'
<1>1. \A x \in Addr : kind'[x] = IF x = a THEN "free" ELSE kind[x]
  BY DEF TreeType
<1>2. Used' = Used \ {a} /\ Rams' = Rams \ {a} /\ a \in Used
  BY <1>1 DEF Used, Rams
<1>3. Cardinality(Used') = Cardinality(Used) - 1
  BY ZenonT(60), <1>2, CountFacts, FS_RemoveElement
<1>4. Cardinality(Rams') = IF kind[a] = "ram" THEN Cardinality(Rams) - 1 ELSE Cardinality(Rams)
  <2>1. CASE kind[a] = "ram"
    <3>1. a \in Rams
      BY Zenon, <2>1 DEF Rams
    <3> QED
      BY ZenonT(60), <2>1, <3>1, <1>2, CountFacts, FS_RemoveElement
  <2>2. CASE kind[a] # "ram"
    <3>1. Rams' = Rams
      BY Zenon, <2>2, <1>2 DEF Rams
    <3> QED
      BY Zenon, <2>2, <3>1
  <2> QED
    BY <2>1, <2>2
<1>5. blocks = Cardinality(Used) + 2 * Cardinality(Rams)
  BY Zenon DEF BlocksOwned, Used, Rams
<1>6. blocks' = Cardinality(Used') + 2 * Cardinality(Rams')
  BY <1>3, <1>4, <1>5, CountFacts DEF Freed
<1> QED
  BY <1>6 DEF BlocksOwned, Used, Rams

LEMMA InitBlocks == Init => BlocksOwned
<1> SUFFICES ASSUME Init PROVE BlocksOwned
  OBVIOUS
<1>1. \A a \in Addr : kind[a] = CASE a = Root -> "dir" [] a = InitrdNode -> "initrd"
                                   [] OTHER -> "free"
  BY DEF Init
<1>2. Used = {Root, InitrdNode} /\ Rams = {}
  BY <1>1, VfsAssumption DEF Used, Rams
<1>3. Cardinality({Root}) = 1 /\ IsFiniteSet({Root}) /\ Cardinality({}) = 0
  BY ZenonT(60), FS_Singleton, FS_EmptySet
<1>4. Cardinality({Root} \union {InitrdNode}) = 2
  <2>1. InitrdNode \notin {Root}
    BY VfsAssumption
  <2>2. Cardinality({Root} \union {InitrdNode}) = Cardinality({Root}) + 1
    BY <1>3, <2>1, FS_AddElement
  <2> QED
    BY <1>3, <2>2
<1>5. {Root, InitrdNode} = {Root} \union {InitrdNode}
  OBVIOUS
<1>6. Cardinality(Used) = 2 /\ Cardinality(Rams) = 0
  BY ZenonT(60), <1>2, <1>3, <1>4, <1>5
<1>7. blocks = 2
  BY Zenon DEF Init
<1>8. blocks = Cardinality(Used) + 2 * Cardinality(Rams)
  BY <1>6, <1>7
<1> QED
  BY <1>8 DEF BlocksOwned, Used, Rams

LEMMA StepBlocks == ASSUME IInv, BlocksOwned, [Next]_vars PROVE BlocksOwned'
<1>1. TreePart /\ CallPart /\ TreeType /\ TreeSound /\ blocks \in Int
  BY InvParts DEF TreePart, RestType
<1>2. CASE UNCHANGED <<kind, blocks>>
  BY Zenon, <1>2, SameBlocks
<1>3. CASE MkdirTurn
  <2>1. call.cur \in Addr
    BY ZenonT(60), <1>1, <1>3 DEF MkdirTurn, Walked, CallPart, CallType, CallRecord
  <2>2. ASSUME NEW a \in FreeNodes, Attach(call.cur, a, "dir", Head(call.rest)),
               blocks' = blocks + 1
        PROVE  BlocksOwned'
    BY ZenonT(60), <1>1, <2>1, <2>2, AttachBlocks
  <2>3. ASSUME NEW k \in 0 .. 1, blocks' = blocks + k - Rollback(k), UNCHANGED tree
        PROVE  BlocksOwned'
    <3>1. UNCHANGED <<kind, blocks>>
      BY <1>1, <2>3 DEF Rollback, tree
    <3> QED
      BY Zenon, <3>1, SameBlocks
  <2> QED
    BY ZenonT(60), <1>2, <1>3, <2>2, <2>3 DEF MkdirTurn, tree
<1>4. ASSUME NEW n \in Name, CreateFile(n) PROVE BlocksOwned'
  <2>1. ASSUME NEW a \in FreeNodes, Attach(Root, a, "ram", n), blocks' = blocks + 3
        PROVE  BlocksOwned'
    BY Zenon, <1>1, <2>1, VfsAssumption, AttachBlocks
  <2>2. ASSUME NEW k \in 0 .. 3, blocks' = blocks + k - Rollback(k), UNCHANGED tree
        PROVE  BlocksOwned'
    <3>1. UNCHANGED <<kind, blocks>>
      BY <1>1, <2>2 DEF Rollback, tree
    <3> QED
      BY <3>1, SameBlocks
  <2> QED
    BY ZenonT(60), <1>4, <2>1, <2>2 DEF CreateFile
<1>5. CASE UnlinkDone
  <2> DEFINE d == call.cur
             i == FirstMatch(d, call.name)
             a == kids[d][i]
  <2>1. ASSUME d # Null, kind[d] = "dir", Matches(d, call.name) # {},
               kind' = [kind EXCEPT ![a] = "free"], blocks' = blocks - Freed(kind[a])
        PROVE  BlocksOwned'
    <3>1. d \in Addr
      BY Zenon, <1>1, <2>1 DEF CallPart, CallType, CallRecord
    <3>2. i \in DOMAIN kids[d]
      BY ZenonT(60), <1>1, <2>1, <3>1, FinddirFacts
    <3>3. a \in Addr /\ kind[a] # "free"
      BY Zenon, <1>1, <3>1, <3>2, ChildFacts
    <3> QED
      BY ZenonT(60), <1>1, <2>1, <3>3, UnlinkBlocks
  <2> QED
    BY ZenonT(60), <1>2, <1>5, <2>1 DEF UnlinkDone, tree
<1>6. CASE UNCHANGED vars
  BY <1>2, <1>6 DEF vars
<1>7. CASE PathCall
  <2>1. ASSUME NEW op, NEW path, NEW last, NEW to, Start(op, path, last, to)
        PROVE  BlocksOwned'
    BY Zenon, <1>2, <2>1 DEF Start, tree
  <2>2. CASE Walk \/ MkdirDone \/ OpenDone \/ RenameFound \/ RenameDone
    BY ZenonT(60), <1>2, <2>2 DEF Walk, MkdirDone, OpenDone, RenameFound, RenameDone, tree
  <2> QED
    BY ZenonT(60), <1>3, <1>5, <1>7, <2>1, <2>2 DEF PathCall, SysOpen, SysMkdir, SysUnlink, SysRename
<1>8. CASE FdCall
  <2>1. ASSUME NEW d \in FD,
               \/ UseFreed(d) \/ Getdents(d) \/ Close(d)
               \/ \E n \in Sizes : FdRead(d, n)
               \/ \E n \in Sizes, b \in Byte : FdWrite(d, n, b)
               \/ \E to \in SeekTo : Lseek(d, to)
        PROVE  BlocksOwned'
    BY ZenonT(60), <1>2, <2>1 DEF UseFreed, Getdents, Close, FdRead, FdWrite, Lseek, tree
  <2> QED
    BY ZenonT(60), <1>4, <1>8, <2>1 DEF FdCall
<1> QED
  BY Zenon, <1>6, <1>7, <1>8 DEF Next

\* Every heap block the file system holds belongs to one of its nodes: what
\* a failed creation had obtained has been given back.
THEOREM BlocksAlwaysOwned == Spec => []BlocksOwned
<1>1. Init => IInv /\ BlocksOwned
  BY InitInv, InitBlocks
<1>2. IInv /\ BlocksOwned /\ [Next]_vars => (IInv /\ BlocksOwned)'
  BY StepInv, StepBlocks
<1> QED
  BY <1>1, <1>2, PTL DEF Spec

-----------------------------------------------------------------------------
(* What the paths reach.                                                   *)

\* A walk is at a node that a path leads to.
WalkReached == call.cur # Null => call.cur \in Descendants(kids, Root)

\* No set that holds a and is closed under children leaves out a descendant.
LEMMA Least ==
  ASSUME NEW ks, NEW a, NEW S \in SUBSET Addr, a \in S, Closed(ks, S)
  PROVE  Descendants(ks, a) \subseteq S
BY Zenon DEF Descendants

LEMMA DescendantsClosed ==
  ASSUME NEW ks, NEW a \in Addr, \A x \in Addr : Children(ks, x) \subseteq Addr
  PROVE  /\ a \in Descendants(ks, a) /\ Descendants(ks, a) \in SUBSET Addr
         /\ Closed(ks, Descendants(ks, a))
<1>1. a \in Descendants(ks, a) /\ Descendants(ks, a) \in SUBSET Addr
  BY Zenon DEF Descendants
<1>2. ASSUME NEW d \in Descendants(ks, a), NEW c \in Children(ks, d)
      PROVE  c \in Descendants(ks, a)
  <2>1. d \in Addr /\ c \in Addr
    BY <1>1
  <2>2. ASSUME NEW S \in SUBSET Addr, a \in S, Closed(ks, S)
        PROVE  c \in S
    <3>1. d \in S
      BY Zenon, <2>2, Least
    <3> QED
      BY <2>2, <3>1 DEF Closed
  <2> QED
    BY ZenonT(60), <2>1, <2>2 DEF Descendants
<1> QED
  BY Zenon, <1>1, <1>2 DEF Closed

\* Where no child is lost, nothing is.
LEMMA ReachGrows ==
  ASSUME NEW ks, NEW kt, NEW a, \A x \in Addr : Children(ks, x) \subseteq Children(kt, x)
  PROVE  Descendants(ks, a) \subseteq Descendants(kt, a)
<1>1. ASSUME NEW S \in SUBSET Addr, Closed(kt, S)
      PROVE  Closed(ks, S)
  BY Zenon, <1>1 DEF Closed
<1> QED
  BY Zenon, <1>1 DEF Descendants

\* Where a node without children is taken out, nothing else is lost.
LEMMA ReachWithout ==
  ASSUME NEW ks, NEW kt, NEW r, NEW a \in Addr, Children(ks, a) = {},
         \A x \in Addr \ {a} : Children(ks, x) \subseteq Children(kt, x) \union {a}
  PROVE  Descendants(ks, r) \subseteq Descendants(kt, r) \union {a}
<1>1. ASSUME NEW S \in SUBSET Addr, r \in S, Closed(kt, S)
      PROVE  Descendants(ks, r) \subseteq S \union {a}
  <2>1. S \union {a} \in SUBSET Addr /\ r \in S \union {a}
    BY <1>1
  <2>2. Closed(ks, S \union {a})
    BY Zenon, <1>1 DEF Closed
  <2> QED
    BY ZenonT(60), <2>1, <2>2, Least
<1>2. ASSUME NEW x \in Descendants(ks, r), x # a
      PROVE  x \in Descendants(kt, r)
  BY Zenon, <1>1, <1>2 DEF Descendants
<1> QED
  BY Zenon, <1>2

\* Where a node is hung below one that paths reach without passing through
\* it, nothing is lost.
LEMMA ReachMoved ==
  ASSUME NEW ks, NEW kt, NEW r, NEW a \in Addr, NEW h,
         \A x \in Addr : Children(ks, x) \subseteq Addr,
         \A x \in Addr : Children(ks, x) \subseteq Children(kt, x) \union {a},
         a \in Children(kt, h), h \in Descendants(ks, r), h \notin Descendants(ks, a)
  PROVE  Descendants(ks, r) \subseteq Descendants(kt, r)
<1> DEFINE D == Descendants(ks, a)
<1>1. a \in D /\ D \in SUBSET Addr /\ Closed(ks, D)
  BY Zenon, DescendantsClosed
<1> HIDE DEF D
<1>2. ASSUME NEW S \in SUBSET Addr, r \in S, Closed(kt, S)
      PROVE  Descendants(ks, r) \subseteq S
  <2>1. S \union D \in SUBSET Addr /\ r \in S \union D
    BY <1>1, <1>2
  <2>2. Closed(ks, S \union D)
    BY Zenon, <1>1, <1>2 DEF Closed
  <2>3. Descendants(ks, r) \subseteq S \union D
    BY ZenonT(60), <2>1, <2>2, Least
  <2>4. h \in S
    BY <2>3 DEF D
  <2>5. a \in S
    BY Zenon, <1>2, <2>4 DEF Closed
  <2>6. Closed(ks, S)
    BY ZenonT(60), <1>2, <2>5 DEF Closed
  <2> QED
    BY ZenonT(60), <1>2, <2>6, Least
<1> QED
  BY Zenon, <1>2 DEF Descendants

\* The children of a directory in the three kinds of changed trees.
LEMMA ChildrenTyped ==
  ASSUME TreeType PROVE \A x \in Addr : Children(kids, x) \subseteq Addr
<1>1. ASSUME NEW x \in Addr, NEW i \in DOMAIN kids[x] PROVE kids[x][i] \in Addr
  <2>1. kids[x] \in Seq(Addr)
    BY DEF TreeType
  <2> QED
    BY Zenon, <2>1, <1>1, ElementOfSeq, LenProperties
<1> QED
  BY Zenon, <1>1 DEF Children

LEMMA AppendChildren ==
  ASSUME NEW ks, NEW kt, NEW d, NEW a \in Addr, ks[d] \in Seq(Addr), kt[d] = Append(ks[d], a)
  PROVE  /\ Children(ks, d) \subseteq Children(kt, d) /\ a \in Children(kt, d)
         /\ \A x \in Children(kt, d) : x \in Children(ks, d) \/ x = a
<1>1. /\ DOMAIN ks[d] = 1 .. Len(ks[d]) /\ Len(ks[d]) \in Nat
      /\ DOMAIN kt[d] = 1 .. Len(ks[d]) + 1
      /\ \A i \in 1 .. Len(ks[d]) : kt[d][i] = ks[d][i]
      /\ kt[d][Len(ks[d]) + 1] = a
  BY LenProperties, AppendProperties
<1>2. \A i \in DOMAIN kt[d] : i \in DOMAIN ks[d] \/ i = Len(ks[d]) + 1
  BY <1>1
<1>3. \A i \in DOMAIN ks[d] : i \in DOMAIN kt[d]
  BY <1>1
<1>4. Len(ks[d]) + 1 \in DOMAIN kt[d]
  BY <1>1
<1> QED
  BY ZenonT(60), <1>1, <1>2, <1>3, <1>4 DEF Children

LEMMA UnhookedChildren ==
  ASSUME TreeType, NEW d \in Addr, NEW i \in DOMAIN kids[d], NEW x \in Addr
  PROVE  Children(kids, x) \subseteq Children(Unhooked(d, i), x) \union {kids[d][i]}
<1>1. kids[d] \in Seq(Addr) /\ i \in 1 .. Len(kids[d]) /\ Len(kids[d]) \in Nat
      /\ DOMAIN kids[d] = 1 .. Len(kids[d])
  BY LenProperties DEF TreeType
<1>2. CASE x # d
  <2>1. Unhooked(d, i)[x] = kids[x]
    BY <1>2 DEF Unhooked, TreeType
  <2> QED
    BY ZenonT(60), <2>1 DEF Children
<1>3. CASE x = d
  <2> DEFINE s == Unhooked(d, i)[d]
  <2>1. s = Without(kids[d], i)
    BY DEF Unhooked, TreeType
  <2> HIDE DEF s
  <2>2. /\ s \in Seq(Addr) /\ Len(s) = Len(kids[d]) - 1
        /\ \A j \in 1 .. Len(kids[d]) - 1 : s[j] = kids[d][IF j < i THEN j ELSE j + 1]
    BY ZenonT(60), <1>1, <2>1, WithoutFacts
  <2>3. DOMAIN s = 1 .. Len(kids[d]) - 1
    BY Zenon, <2>2, LenProperties
  <2>4. ASSUME NEW j \in DOMAIN kids[d], j # i
        PROVE  \E m \in DOMAIN s : s[m] = kids[d][j]
    <3>1. CASE j < i
      <4>1. j \in 1 .. Len(kids[d]) - 1
        BY <1>1, <3>1
      <4> QED
        BY ZenonT(60), <2>2, <2>3, <3>1, <4>1
    <3>2. CASE ~(j < i)
      <4>1. j - 1 \in 1 .. Len(kids[d]) - 1 /\ ~(j - 1 < i) /\ (j - 1) + 1 = j
        BY <1>1, <2>4, <3>2
      <4>2. s[j - 1] = kids[d][j]
        BY Zenon, <2>2, <4>1
      <4> QED
        BY ZenonT(60), <2>3, <4>1, <4>2
    <3> QED
      BY Zenon, <3>1, <3>2
  <2> QED
    BY ZenonT(60), <1>3, <2>4 DEF Children, s
<1> QED
  BY Zenon, <1>2, <1>3

LEMMA AttachReach ==
  ASSUME TreeType, NEW d \in Descendants(kids, Root), NEW a \in FreeNodes, NEW k, NEW n,
         Attach(d, a, k, n)
  PROVE  /\ Descendants(kids, Root) \subseteq Descendants(kids', Root)
         /\ a \in Descendants(kids', Root)
         /\ Lost(kids', kind') \subseteq Lost(kids, kind)
<1>1. d \in Addr /\ a \in Addr
  BY Zenon DEF Descendants, FreeNodes
<1>2. kids \in [Addr -> Seq(Addr)] /\ kind \in [Addr -> Kind]
  BY DEF TreeType
<1>3. kids' = [kids EXCEPT ![d] = Append(@, a)] /\ kind' = [kind EXCEPT ![a] = k]
  BY DEF Attach
<1>4. kids'[d] = Append(kids[d], a) /\ kids[d] \in Seq(Addr)
  BY <1>1, <1>2, <1>3
<1>5. Children(kids', d) = Children(kids, d) \union {a}
  <2>1. /\ Children(kids, d) \subseteq Children(kids', d) /\ a \in Children(kids', d)
        /\ \A x \in Children(kids', d) : x \in Children(kids, d) \/ x = a
    BY ZenonT(60), <1>1, <1>4, AppendChildren
  <2> QED
    BY Zenon, <2>1
<1>6. \A x \in Addr : x # d => kids'[x] = kids[x]
  BY <1>2, <1>3
<1>7. \A x \in Addr : Children(kids, x) \subseteq Children(kids', x)
  BY ZenonT(60), <1>5, <1>6 DEF Children
<1>8. Descendants(kids, Root) \subseteq Descendants(kids', Root)
  BY Zenon, <1>7, ReachGrows
<1>9. a \in Descendants(kids', Root)
  <2>1. ASSUME NEW S \in SUBSET Addr, Root \in S, Closed(kids', S) PROVE a \in S
    <3>1. d \in S
      BY ZenonT(60), <1>8, <2>1, Least
    <3> QED
      BY ZenonT(60), <1>5, <2>1, <3>1 DEF Closed
  <2> QED
    BY Zenon, <1>1, <2>1 DEF Descendants
<1>10. \A x \in Addr : x # a => kind'[x] = kind[x]
  BY <1>2, <1>3
<1> QED
  BY ZenonT(60), <1>8, <1>9, <1>10 DEF Lost

LEMMA UnlinkReach ==
  ASSUME TreeType, TreeSound, NEW d \in Addr, NEW i \in DOMAIN kids[d], NEW a, a = kids[d][i],
         kind' = [kind EXCEPT ![a] = "free"], kids' = Cut(d, i)
  PROVE  \/ Lost(kids', kind') \subseteq Lost(kids, kind)
         \/ \E x \in Addr : kids[x] # << >> /\ kind'[x] = "free"
<1>1. a \in Addr
  BY ChildFacts
<1>2. \A x \in Addr : kind'[x] = IF x = a THEN "free" ELSE kind[x]
  BY <1>1 DEF TreeType
<1>3. CASE kids[a] # << >>
  BY ZenonT(60), <1>1, <1>2, <1>3
<1>4. CASE kids[a] = << >>
  <2>1. Children(kids, a) = {}
    BY <1>4 DEF Children
  <2>2. \A x \in Addr \ {a} : kids'[x] = Unhooked(d, i)[x]
    BY DEF Cut
  <2>3. ASSUME NEW x \in Addr \ {a}
        PROVE  Children(kids, x) \subseteq Children(kids', x) \union {a}
    <3>1. Children(kids, x) \subseteq Children(Unhooked(d, i), x) \union {a}
      BY ZenonT(60), UnhookedChildren
    <3>2. Children(kids', x) = Children(Unhooked(d, i), x)
      BY ZenonT(60), <2>2 DEF Children
    <3> QED
      BY Zenon, <3>1, <3>2
  <2>4. Descendants(kids, Root) \subseteq Descendants(kids', Root) \union {a}
    BY ZenonT(60), <1>1, <2>1, <2>3, ReachWithout
  <2> QED
    BY ZenonT(60), <1>2, <2>4 DEF Lost
<1> QED
  BY ZenonT(60), <1>3, <1>4

LEMMA RenameReach ==
  ASSUME TreeType, TreeSound, NEW d \in Addr, NEW i \in DOMAIN kids[d], NEW a, a = kids[d][i],
         NEW h \in Addr, kids' = Moved(d, i, h), UNCHANGED kind,
         h = d \/ h \in Descendants(kids, Root) \ Descendants(kids, a)
  PROVE  Lost(kids', kind') \subseteq Lost(kids, kind)
<1>1. a \in Addr
  BY ZenonT(60), ChildFacts
<1>2. \A x \in Addr : Children(kids, x) \subseteq Addr
  BY ZenonT(60), ChildrenTyped
<1> DEFINE ks == Unhooked(d, i)
<1>3. /\ kids'[h] = Append(ks[h], a)
      /\ \A x \in Addr : x # h => kids'[x] = ks[x]
  BY DEF Moved
<1>4. ks[h] \in Seq(Addr)
  <2>1. ks \in [Addr -> Seq(Addr)]
    BY ZenonT(60), UnhookedFacts
  <2> QED
    BY ZenonT(60), <2>1
<1>5. \A x \in Addr : Children(kids, x) \subseteq Children(ks, x) \union {a}
  BY ZenonT(60), UnhookedChildren
<1> HIDE DEF ks
<1>6. Children(kids', h) = Children(ks, h) \union {a}
  <2>1. /\ Children(ks, h) \subseteq Children(kids', h) /\ a \in Children(kids', h)
        /\ \A x \in Children(kids', h) : x \in Children(ks, h) \/ x = a
    BY ZenonT(60), <1>1, <1>3, <1>4, AppendChildren
  <2> QED
    BY Zenon, <2>1
<1>7. \A x \in Addr : Children(kids, x) \subseteq Children(kids', x) \union {a}
  <2>1. \A x \in Addr : x # h => Children(kids', x) = Children(ks, x)
    BY ZenonT(60), <1>3 DEF Children
  <2> QED
    BY Zenon, <1>5, <1>6, <2>1
<1>8. CASE h = d
  <2>1. \A x \in Addr : x # d => Children(kids, x) \subseteq Children(kids', x)
    <3>1. \A x \in Addr : x # d => ks[x] = kids[x]
      BY Zenon DEF ks, Unhooked, TreeType
    <3>2. \A x \in Addr : x # d => kids'[x] = kids[x]
      BY Zenon, <1>3, <1>8, <3>1
    <3> QED
      BY Zenon, <3>2 DEF Children
  <2>2. Children(kids, d) \subseteq Children(kids', d)
    BY Zenon, <1>6, <1>7, <1>8
  <2>3. Descendants(kids, Root) \subseteq Descendants(kids', Root)
    BY ZenonT(60), <2>1, <2>2, ReachGrows
  <2> QED
    BY Zenon, <2>3 DEF Lost
<1>9. CASE h \in Descendants(kids, Root) \ Descendants(kids, a)
  <2>1. Descendants(kids, Root) \subseteq Descendants(kids', Root)
    BY ZenonT(60), <1>1, <1>2, <1>6, <1>7, <1>9, ReachMoved
  <2> QED
    BY Zenon, <2>1 DEF Lost
<1> QED
  BY ZenonT(60), <1>8, <1>9

LostOnlyBy ==
  \/ Lost(kids', kind') \subseteq Lost(kids, kind)
  \/ \E a \in Addr : kids[a] # << >> /\ kind'[a] = "free"
  \/ call.op = "rename_to" /\ call.cur \in Descendants(kids, call.node)

LEMMA RootReached == ASSUME TreeType PROVE Root \in Descendants(kids, Root)
BY Zenon, VfsAssumption, ChildrenTyped, DescendantsClosed

\* The child a walk goes on to is reached when the directory is.
LEMMA FinddirReached ==
  ASSUME TreePart, NEW d \in Descendants(kids, Root), NEW n, finddir(d, n) # Null
  PROVE  finddir(d, n) \in Descendants(kids, Root)
<1>1. d \in Addr
  BY ZenonT(60) DEF Descendants
<1>2. kind[d] = "dir" /\ Matches(d, n) # {}
  BY ZenonT(60) DEF finddir
<1>3. FirstMatch(d, n) \in DOMAIN kids[d] /\ finddir(d, n) = kids[d][FirstMatch(d, n)]
  BY Zenon, <1>1, <1>2, FinddirFacts
<1>4. finddir(d, n) \in Children(kids, d)
  BY Zenon, <1>3 DEF Children
<1>5. Closed(kids, Descendants(kids, Root))
  BY ZenonT(60), VfsAssumption, ChildrenTyped, DescendantsClosed DEF TreePart
<1> QED
  BY Zenon, <1>4, <1>5 DEF Closed

LEMMA SameReach ==
  ASSUME WalkReached, UNCHANGED <<kids, kind>>,
         call'.cur = Null \/ call'.cur = call.cur \/ call'.cur \in Descendants(kids, Root)
  PROVE  LostOnlyBy /\ WalkReached'
<1>1. Descendants(kids, Root)' = Descendants(kids, Root)
  BY DEF Descendants, Closed, Children
<1>2. Lost(kids', kind') = Lost(kids, kind)
  BY Zenon
<1> QED
  BY ZenonT(60), <1>1, <1>2 DEF LostOnlyBy, WalkReached

LEMMA MkdirReach ==
  ASSUME IInv, WalkReached, MkdirTurn PROVE LostOnlyBy /\ WalkReached'
<1> DEFINE d == call.cur
           n == Head(call.rest)
           child == finddir(d, n)
<1>1. TreePart /\ TreeType /\ CallPart /\ d # Null /\ call \in CallRecord
  BY ZenonT(60), InvParts DEF MkdirTurn, Walked, TreePart, CallPart, CallType
<1>2. d \in Descendants(kids, Root)
  BY <1>1 DEF WalkReached
<1>3. ASSUME NEW a, Advance(a) PROVE call'.cur = a
  BY ZenonT(60), <1>1, <1>3 DEF Advance, CallRecord
<1>4. CASE child # Null /\ Advance(child) /\ UNCHANGED tree
  <2>1. child \in Descendants(kids, Root)
    BY ZenonT(60), <1>1, <1>2, <1>4, FinddirReached
  <2> HIDE DEF child
  <2>2. call'.cur = child /\ UNCHANGED <<kids, kind>>
    BY ZenonT(60), <1>3, <1>4 DEF tree
  <2> QED
    BY ZenonT(60), <2>1, <2>2, SameReach
<1>5. ASSUME NEW a \in FreeNodes, Attach(d, a, "dir", n), Advance(a)
      PROVE  LostOnlyBy /\ WalkReached'
  <2> HIDE DEF d, n
  <2>1. /\ a \in Descendants(kids', Root)
        /\ Lost(kids', kind') \subseteq Lost(kids, kind)
    BY ZenonT(60), <1>1, <1>2, <1>5, AttachReach
  <2>2. call'.cur = a
    BY Zenon, <1>3, <1>5
  <2>3. Descendants(kids', Root) = Descendants(kids, Root)'
    BY DEF Descendants, Closed, Children
  <2> QED
    BY ZenonT(60), <2>1, <2>2, <2>3 DEF LostOnlyBy, WalkReached
<1>6. CASE Advance(Null) /\ UNCHANGED tree
  <2>1. call'.cur = Null /\ UNCHANGED <<kids, kind>>
    BY ZenonT(60), <1>3, <1>6 DEF tree
  <2> QED
    BY ZenonT(60), <2>1, SameReach
<1> QED
  BY ZenonT(60), <1>4, <1>5, <1>6 DEF MkdirTurn

LEMMA ReturnReach == ASSUME Return PROVE WalkReached'
<1>1. call'.cur = Null
  BY DEF Return, NoCall
<1> QED
  BY Zenon, <1>1 DEF WalkReached

LEMMA UnlinkDoneReach ==
  ASSUME IInv, WalkReached, UnlinkDone PROVE LostOnlyBy /\ WalkReached'
<1> DEFINE d == call.cur
           i == FirstMatch(d, call.name)
           a == kids[d][i]
<1>1. TreePart /\ TreeType /\ TreeSound /\ CallPart
  BY Zenon, InvParts DEF TreePart
<1>2. Return /\ WalkReached'
  BY ZenonT(60), ReturnReach DEF UnlinkDone
<1>3. CASE UNCHANGED tree
  BY ZenonT(60), <1>2, <1>3, SameReach DEF LostOnlyBy, tree
<1>4. ASSUME d # Null, kind[d] = "dir", Matches(d, call.name) # {},
             kind' = [kind EXCEPT ![a] = "free"],
             kids' = [kids EXCEPT ![d] = Without(@, i), ![a] = << >>]
      PROVE  LostOnlyBy
  <2>1. d \in Addr
    BY ZenonT(60), <1>1, <1>4 DEF CallPart, CallType, CallRecord
  <2>2. i \in DOMAIN kids[d]
    BY ZenonT(60), <1>1, <1>4, <2>1, FinddirFacts
  <2>3. a \in Addr /\ a = kids[d][i]
    BY Zenon, <1>1, <2>1, <2>2, ChildFacts
  <2>4. kids \in [Addr -> Seq(Addr)]
    BY <1>1 DEF TreeType
  <2> HIDE DEF d, i, a
  <2>5. kids' = Cut(d, i)
    BY ZenonT(60), <1>4, <2>1, <2>3, <2>4 DEF Unhooked, Cut
  <2> QED
    BY ZenonT(60), <1>1, <1>4, <2>1, <2>2, <2>3, <2>5, UnlinkReach DEF LostOnlyBy
<1> QED
  BY ZenonT(60), <1>2, <1>3, <1>4 DEF UnlinkDone

LEMMA RenameDoneReach ==
  ASSUME IInv, WalkReached, RenameDone PROVE LostOnlyBy /\ WalkReached'
<1> DEFINE a == call.node
           from == parent[a]
<1>1. TreePart /\ TreeType /\ TreeSound /\ CallPart
  BY Zenon, InvParts DEF TreePart
<1>2. Return /\ WalkReached' /\ call.op = "rename_to" /\ UNCHANGED kind
  BY ZenonT(60), ReturnReach DEF RenameDone, At
<1>3. a \in Addr /\ from \in Addr
  BY ZenonT(60), <1>1, <1>2 DEF CallPart, CallInv, TreeType
<1>4. CASE UNCHANGED kids
  BY ZenonT(60), <1>2, <1>4 DEF LostOnlyBy
<1>5. ASSUME call.cur # Null, NEW i \in DOMAIN kids[from], kids[from][i] = a,
             NEW home, home = Home(Unhooked(from, i), call.cur, from),
             kids' = [d \in Addr |-> IF d \in home THEN Append(Unhooked(from, i)[d], a)
                                     ELSE Unhooked(from, i)[d]]
      PROVE  LostOnlyBy
  <2>1. call.cur \in Addr /\ call.cur \in Descendants(kids, Root)
    BY Zenon, <1>1, <1>5 DEF CallPart, CallType, CallRecord, WalkReached
  <2>2. PICK h \in Addr : home = {h} /\ (h = from \/ h = call.cur)
    BY ZenonT(60), <1>3, <1>5, <2>1 DEF Home
  <2>3. kids' = Moved(from, i, h)
    BY ZenonT(60), <1>5, <2>2 DEF Moved
  <2>4. CASE call.cur \in Descendants(kids, a)
    BY ZenonT(60), <1>2, <2>4 DEF LostOnlyBy
  <2>5. CASE call.cur \notin Descendants(kids, a)
    <3>1. h = from \/ h \in Descendants(kids, Root) \ Descendants(kids, a)
      BY ZenonT(60), <2>1, <2>2, <2>5
    <3>2. a = kids[from][i] /\ i \in DOMAIN kids[from]
      BY ZenonT(60), <1>5
    <3> HIDE DEF a, from
    <3> QED
      BY ZenonT(60), <1>1, <1>2, <1>3, <2>2, <2>3, <3>1, <3>2, RenameReach DEF LostOnlyBy
  <2> QED
    BY Zenon, <2>4, <2>5
<1>6. CASE call.cur # Null /\ ~UNCHANGED <<name, kids, parent>>
  <2>1. PICK i \in {j \in DOMAIN kids[from] : kids[from][j] = a} :
           LET ks == Unhooked(from, i)
               home == Home(ks, call.cur, from)
           IN  kids' = [d \in Addr |-> IF d \in home THEN Append(ks[d], a) ELSE ks[d]]
    BY ZenonT(60), <1>6 DEF RenameDone
  <2> QED
    BY ZenonT(60), <1>2, <1>5, <1>6, <2>1
<1> QED
  BY ZenonT(60), <1>2, <1>4, <1>6 DEF RenameDone

LEMMA StepReach == ASSUME IInv, WalkReached, [Next]_vars PROVE LostOnlyBy /\ WalkReached'
<1>1. TreePart /\ TreeType /\ CallPart /\ call \in CallRecord
  BY Zenon, InvParts DEF TreePart, CallPart, CallType
<1>2. CASE UNCHANGED <<kids, kind, call>>
  BY Zenon, <1>2, SameReach
<1>3. CASE UNCHANGED tree /\ Return
  <2>1. call'.cur = Null
    BY <1>3 DEF Return, NoCall
  <2> QED
    BY ZenonT(60), <1>3, <2>1, SameReach DEF tree
<1>4. ASSUME UNCHANGED tree, call'.cur = Root PROVE LostOnlyBy /\ WalkReached'
  BY ZenonT(60), <1>1, <1>4, RootReached, SameReach DEF tree
<1>5. CASE Walk
  <2>1. call.cur # Null /\ Advance(finddir(call.cur, Head(call.rest))) /\ UNCHANGED <<kids, kind>>
    BY Zenon, <1>5 DEF Walk, Walked, tree
  <2>2. call'.cur = finddir(call.cur, Head(call.rest))
    BY Zenon, <1>1, <2>1 DEF Advance, CallRecord
  <2>3. call'.cur # Null => call'.cur \in Descendants(kids, Root)
    BY ZenonT(60), <1>1, <2>1, <2>2, FinddirReached DEF WalkReached
  <2> QED
    BY ZenonT(60), <2>1, <2>3, SameReach
<1>6. ASSUME NEW op, NEW path, NEW last, NEW to, Start(op, path, last, to)
      PROVE  LostOnlyBy /\ WalkReached'
  <2>1. call'.cur = Root /\ UNCHANGED tree
    BY <1>6 DEF Start
  <2> QED
    BY ZenonT(60), <1>4, <2>1
<1>7. CASE RenameFound
  <2>1. UNCHANGED tree
    BY Zenon, <1>7 DEF RenameFound
  <2>2. CASE call' = [op |-> "rename_to", cur |-> Root, rest |-> ParentOf(call.to),
                      node |-> call.cur, to |-> << >>, name |-> LastOf(call.to)]
    BY Zenon, <1>4, <2>1, <2>2
  <2> QED
    BY ZenonT(60), <1>3, <1>7, <2>1, <2>2 DEF RenameFound
<1>8. CASE MkdirDone \/ OpenDone
  BY ZenonT(60), <1>3, <1>8 DEF MkdirDone, OpenDone
<1>9. ASSUME NEW n \in Name, CreateFile(n) PROVE LostOnlyBy /\ WalkReached'
  <2>1. UNCHANGED call
    BY <1>9 DEF CreateFile
  <2>2. ASSUME NEW a \in FreeNodes, Attach(Root, a, "ram", n)
        PROVE  LostOnlyBy /\ WalkReached'
    <3>1. /\ Descendants(kids, Root) \subseteq Descendants(kids', Root)
          /\ Lost(kids', kind') \subseteq Lost(kids, kind)
      BY ZenonT(60), <1>1, <2>2, RootReached, AttachReach
    <3>2. Descendants(kids', Root) = Descendants(kids, Root)'
      BY DEF Descendants, Closed, Children
    <3> QED
      BY ZenonT(60), <2>1, <3>1, <3>2 DEF LostOnlyBy, WalkReached
  <2> QED
    BY ZenonT(60), <1>2, <1>9, <2>1, <2>2 DEF CreateFile, tree
<1>10. CASE PathCall
  BY ZenonT(60), <1>5, <1>6, <1>7, <1>8, <1>10, MkdirReach, UnlinkDoneReach, RenameDoneReach
     DEF PathCall, SysOpen, SysMkdir, SysUnlink, SysRename
<1>11. CASE FdCall
  <2>1. ASSUME NEW d \in FD,
               \/ UseFreed(d) \/ Getdents(d) \/ Close(d)
               \/ \E n \in Sizes : FdRead(d, n)
               \/ \E n \in Sizes, b \in Byte : FdWrite(d, n, b)
               \/ \E to \in SeekTo : Lseek(d, to)
        PROVE  UNCHANGED <<kids, kind, call>>
    BY Zenon, <2>1 DEF UseFreed, Getdents, Close, FdRead, FdWrite, Lseek, tree
  <2> QED
    BY ZenonT(60), <1>2, <1>9, <1>11, <2>1 DEF FdCall
<1>12. CASE UNCHANGED vars
  BY ZenonT(60), <1>2, <1>12 DEF vars
<1> QED
  BY Zenon, <1>10, <1>11, <1>12 DEF Next

\* No sequence of calls takes a node that exists out of reach of every path,
\* except unlinking a directory that is not empty and moving a directory to
\* below itself: in particular a rename refused by the new directory puts the
\* node back where a path leads to it.
THEOREM NothingIsLost == Spec => NothingLost
<1>1. Init => IInv /\ WalkReached
  <2>1. Init => WalkReached
    BY DEF Init, NoCall, WalkReached
  <2> QED
    BY <2>1, InitInv
<1>2. IInv /\ WalkReached /\ [Next]_vars => (IInv /\ WalkReached)'
  BY Zenon, StepInv, StepReach
<1>3. IInv /\ WalkReached /\ [Next]_vars => [LostOnlyBy]_vars
  BY StepReach
<1>4. Spec => [][LostOnlyBy]_vars
  BY <1>1, <1>2, <1>3, PTL DEF Spec
<1> QED
  BY <1>4, PTL DEF NothingLost, LostOnlyBy
=============================================================================
