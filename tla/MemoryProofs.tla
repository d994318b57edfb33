---------------------------- MODULE MemoryProofs ----------------------------
(***************************************************************************)
(* Page tables and page frames.  map_page keeps the identity map, and above*)
(* it gives every page a frame of its own, for every table size.  The page *)
(* allocator counts exactly, keeps what boot set aside and never hands a   *)
(* page out twice, for every memory map and set of clients.                *)
(***************************************************************************)
EXTENDS AddressSpace, Pmm, FiniteSetTheorems, WellFoundedInduction, TLAPS

\* A leaf is given to the SMT solver and then to Zenon, a minute each.
USE SMTT(60), ZenonT(60)

-----------------------------------------------------------------------------
(* Indices.                                                                *)

Slots == 0 .. K - 1

\* The spans, one by one.
LEMMA IndexIs ==
  ASSUME NEW v \in Nat
  PROVE  /\ Index(v, 0) = v % K
         /\ Index(v, 1) = (v \div K) % K
         /\ Index(v, 2) = (v \div (K * K)) % K
         /\ Index(v, 3) = (v \div (K * K * K)) % K
<1>1. v \div 1 = v OBVIOUS
<1> QED BY <1>1 DEF Index, Span

\* Division by K twice is division by K * K.
LEMMA DivTwice ==
  ASSUME NEW v \in Nat
  PROVE  v \div (K * K) = (v \div K) \div K
BY VmmAssumption

LEMMA DivThrice ==
  ASSUME NEW v \in Nat
  PROVE  v \div (K * K * K) = ((v \div K) \div K) \div K
<1> DEFINE q == (v \div K) \div K
           s == q \div K
           KK == K * K
<1>1. K \in Nat /\ K > 1 /\ KK \in Nat /\ KK > 1 BY VmmAssumption
<1>2. q = v \div KK BY DivTwice
<1>3. q \in Nat /\ s \in Nat BY <1>1
<1>4. q = K * s + (q % K) /\ q % K \in Slots BY <1>1, <1>3 DEF Slots
<1>5. v = KK * q + (v % KK) /\ v % KK \in 0 .. KK - 1 BY <1>1, <1>2
<1> DEFINE r == KK * (q % K) + (v % KK)
<1>6. v = (KK * K) * s + r BY <1>1, <1>3, <1>4, <1>5 DEF Slots
<1>7. r \in 0 .. KK * K - 1
  <2>1. KK * (q % K) <= KK * (K - 1) BY <1>1, <1>4 DEF Slots
  <2>2. KK * (q % K) \in Nat BY <1>1, <1>4 DEF Slots
  <2>3. KK * (K - 1) = KK * K - KK BY <1>1
  <2> QED BY <1>1, <1>5, <2>1, <2>2, <2>3
<1> HIDE DEF r, s, q
<1>8. KK * K \in Nat /\ KK * K > 1 BY <1>1
<1>9. ((KK * K) * s + r) \div (KK * K) = s BY <1>3, <1>7, <1>8
<1> QED BY <1>6, <1>9 DEF q, s

\* An index is a slot of a table.
LEMMA IndexInSlots ==
  ASSUME NEW v \in Nat, NEW level \in 0 .. 3
  PROVE  Index(v, level) \in Slots
<1>1. \A n \in Nat : n % K \in Slots BY VmmAssumption DEF Slots
<1>2. v \div K \in Nat /\ v \div (K * K) \in Nat /\ v \div (K * K * K) \in Nat
  BY DivTwice, DivThrice, VmmAssumption
<1> QED BY <1>1, <1>2, IndexIs

\* Quotient and remainder.
LEMMA DivMod ==
  ASSUME NEW n \in Nat
  PROVE  n = (n \div K) * K + (n % K) /\ n \div K \in Nat /\ n % K \in Slots
<1> DEFINE q == n \div K
<1>1. K \in Nat /\ K > 1 BY VmmAssumption
<1>2. n = K * q + (n % K) /\ q \in Nat /\ n % K \in Slots BY <1>1 DEF Slots
<1> HIDE DEF q
<1>3. K * q = q * K BY <1>1, <1>2
<1> QED BY <1>2, <1>3 DEF q

LEMMA DivLess ==
  ASSUME NEW n \in Nat, NEW B \in Nat, n < B * K
  PROVE  n \div K < B
<1> DEFINE q == n \div K
<1>1. K \in Nat /\ K > 1 BY VmmAssumption
<1>2. n = q * K + (n % K) /\ q \in Nat /\ n % K \in Nat BY DivMod DEF Slots
<1> HIDE DEF q
<1>3. SUFFICES ASSUME q >= B PROVE FALSE BY <1>2 DEF q
<1>4. PICK d \in Nat : q = B + d
  <2>1. q - B \in Nat /\ q = B + (q - B) BY <1>2, <1>3
  <2> QED BY <2>1
<1>5. q * K = B * K + d * K /\ d * K \in Nat /\ B * K \in Nat BY <1>1, <1>4
<1> DEFINE x == B * K
           y == d * K
           r == n % K
<1>6. n = x + y + r /\ x \in Nat /\ y \in Nat /\ r \in Nat /\ n < x BY <1>2, <1>5
<1> HIDE DEF x, y, r
<1> QED BY <1>6

\* The four indices of a page number are its digits.
LEMMA Digits ==
  ASSUME NEW v \in 0 .. K * K * K * K - 1
  PROVE  v = ((Index(v, 3) * K + Index(v, 2)) * K + Index(v, 1)) * K + Index(v, 0)
<1> DEFINE q1 == v \div K
           q2 == q1 \div K
           q3 == q2 \div K
<1>1. K \in Nat /\ K > 1 /\ K * K \in Nat /\ K * K * K \in Nat BY VmmAssumption
<1>2. v \in Nat /\ v < (K * K * K) * K BY <1>1
<1>3. v = q1 * K + (v % K) /\ q1 \in Nat /\ q1 < (K * K) * K BY Zenon, <1>1, <1>2, DivMod, DivLess
<1>4. q1 = q2 * K + (q1 % K) /\ q2 \in Nat /\ q2 < K * K BY Zenon, <1>1, <1>3, DivMod, DivLess
<1>5. q2 = q3 * K + (q2 % K) /\ q3 \in Nat /\ q3 < K BY Zenon, <1>1, <1>4, DivMod, DivLess
<1>6. q3 % K = q3 BY <1>1, <1>5
<1>7. /\ Index(v, 0) = v % K /\ Index(v, 1) = q1 % K
      /\ Index(v, 2) = q2 % K /\ Index(v, 3) = q3
  BY <1>2, <1>6, IndexIs, DivTwice, DivThrice
<1> HIDE DEF q1, q2, q3
<1>8. q2 = Index(v, 3) * K + Index(v, 2) BY Zenon, <1>5, <1>7
<1>9. q1 = (Index(v, 3) * K + Index(v, 2)) * K + Index(v, 1) BY Zenon, <1>4, <1>7, <1>8
<1> QED BY Zenon, <1>3, <1>7, <1>9

\* Pages above the identity map do not go through the boot directory.
LEMMA HighIndex ==
  ASSUME NEW v \in HighPages
  PROVE  v \in Nat /\ ~(Index(v, 3) = 0 /\ Index(v, 2) = 0)
<1> DEFINE i == Index(v, 1)
           j == Index(v, 0)
<1>1. K \in Nat /\ K > 1 /\ K * K \in Nat BY VmmAssumption
<1>2. v \in 0 .. K * K * K * K - 1 /\ v >= K * K BY <1>1 DEF HighPages, Identity
<1>3. i \in Slots /\ j \in Slots BY <1>2, IndexInSlots
<1>4. SUFFICES ASSUME Index(v, 3) = 0, Index(v, 2) = 0 PROVE FALSE BY <1>2
<1>5. v = ((0 * K + 0) * K + i) * K + j BY <1>2, <1>4, Digits
<1> HIDE DEF i, j
<1>6. v = i * K + j BY <1>1, <1>3, <1>5 DEF Slots
<1>7. i * K <= (K - 1) * K /\ (K - 1) * K = K * K - K BY <1>1, <1>3 DEF Slots
<1> QED BY <1>1, <1>2, <1>3, <1>6, <1>7 DEF Slots

\* Pages with the same indices are the same page.
LEMMA SamePage ==
  ASSUME NEW v \in HighPages, NEW w \in HighPages,
         \A level \in 0 .. 3 : Index(v, level) = Index(w, level)
  PROVE  v = w
<1>1. K \in Nat /\ K * K \in Nat BY VmmAssumption
<1>2. v \in 0 .. K * K * K * K - 1 /\ w \in 0 .. K * K * K * K - 1
  BY <1>1 DEF HighPages, Identity
<1>3. /\ Index(v, 0) = Index(w, 0) /\ Index(v, 1) = Index(w, 1)
      /\ Index(v, 2) = Index(w, 2) /\ Index(v, 3) = Index(w, 3)
  OBVIOUS
<1> QED BY Zenon, <1>2, <1>3, Digits

\* Pages of the identity map go through the boot directory.
LEMMA LowIndex ==
  ASSUME NEW v \in Frames
  PROVE  /\ v \in Nat /\ Index(v, 3) = 0 /\ Index(v, 2) = 0
         /\ Index(v, 1) * K + Index(v, 0) = v
<1>1. K \in Nat /\ K > 1 /\ 0 \div K = 0 /\ 0 % K = 0 BY VmmAssumption
<1>2. v \in Nat /\ v < K * K BY <1>1 DEF Frames
<1> DEFINE q == v \div K
<1>3. q \in Nat /\ q < K /\ v = q * K + (v % K) BY <1>1, <1>2, DivMod, DivLess
<1>4. q \div K = 0 /\ q % K = q
  <2> HIDE DEF q
  <2> QED BY <1>1, <1>3
<1>5. Index(v, 3) = (0 \div K) % K /\ Index(v, 2) = 0 % K
  BY Zenon, <1>2, <1>4, IndexIs, DivTwice, DivThrice
<1>6. Index(v, 1) = q /\ Index(v, 0) = v % K BY Zenon, <1>2, <1>4, IndexIs
<1>7. Index(v, 1) * K + Index(v, 0) = v BY Zenon, <1>3, <1>6
<1> QED BY Zenon, <1>1, <1>2, <1>5, <1>7

-----------------------------------------------------------------------------
(* The shape of the tables while only pages above the identity map are     *)
(* mapped: a tree whose leaves are frames of their own.                    *)

PageEntries == [to : Frames, huge : BOOLEAN, present : BOOLEAN]

\* The way into the identity map is as boot.s built it.
BootMap(m) ==
  /\ m \in [Frames -> [Slots -> PageEntries]]
  /\ m[Pml4][0] = Small(Pdpt) /\ m[Pdpt][0] = Small(Pd)
  /\ \A i \in Slots : m[Pd][i] = Large(i * K)

\* An entry of a table of level lv[t] leads to a table one level down, at the
\* last level to a frame that is neither a table nor the kernel's.
LeadsDown(e, u, T, lv, t) ==
  /\ ~e.huge /\ e.to \in u /\ e.to # 0
  /\ lv[t] > 0 => e.to \in T /\ lv[e.to] = lv[t] - 1
  /\ lv[t] = 0 => e.to \notin T /\ e.to \notin KernelFrames

\* Two entries do not lead to the same frame.
OneParent(m, T) ==
  \A t, s \in T \ {Pd} : \A i, j \in Slots :
    m[t][i].present /\ m[s][j].present /\ m[t][i].to = m[s][j].to => t = s /\ i = j

Shape(m, u, T, lv) ==
  /\ BootMap(m)
  /\ u \subseteq Frames /\ KernelFrames \subseteq u /\ T \subseteq u /\ 0 \notin T
  /\ lv \in [T -> 0 .. 3]
  /\ Pml4 \in T /\ Pdpt \in T /\ Pd \in T
  /\ lv[Pml4] = 3 /\ lv[Pdpt] = 2 /\ lv[Pd] = 1
  /\ \A t \in T \ {Pd} : \A i \in Slots :
       m[t][i].present => LeadsDown(m[t][i], u, T, lv, t)
  /\ OneParent(m, T)

\* A frame that is taken and that no table leads to.
Spare(m, u, T, f) ==
  /\ f \in u /\ f \notin T /\ f \notin KernelFrames
  /\ \A t \in T \ {Pd} : \A i \in Slots : m[t][i].present => m[t][i].to # f

LEMMA SmallIs == ASSUME NEW f PROVE Small(f).present /\ ~Small(f).huge /\ Small(f).to = f
BY DEF Small

\* OneParent, for two entries.
LEMMA SameParent ==
  ASSUME NEW m, NEW T, OneParent(m, T), NEW t \in T \ {Pd}, NEW s \in T \ {Pd},
         NEW i \in Slots, NEW j \in Slots, m[t][i].present, m[s][j].present, m[t][i].to = m[s][j].to
  PROVE  t = s /\ i = j
BY Zenon DEF OneParent

\* The entries that lead to the boot tables.
LEMMA BootEntries ==
  ASSUME NEW m, BootMap(m)
  PROVE  /\ m[Pml4][0].present /\ m[Pml4][0].to = Pdpt
         /\ m[Pdpt][0].present /\ m[Pdpt][0].to = Pd
<1>1. m[Pml4][0] = Small(Pdpt) /\ m[Pdpt][0] = Small(Pd) BY Zenon DEF BootMap
<1> QED BY Zenon, <1>1, SmallIs

\* The four frames of the boot map are different ones.
LEMMA BootFrames ==
  /\ 0 \in Slots /\ 0 \in Frames /\ Pml4 \in Frames /\ Pdpt \in Frames /\ Pd \in Frames
  /\ 0 # Pml4 /\ 0 # Pdpt /\ 0 # Pd /\ Pml4 # Pdpt /\ Pml4 # Pd /\ Pdpt # Pd
<1>1. 0 \in Slots BY VmmAssumption DEF Slots
<1>2. {0, Pml4, Pdpt, Pd} \subseteq Frames BY VmmAssumption
<1>3. ASSUME NEW a, NEW b, NEW c, {0, Pml4, Pdpt, Pd} = {a, b, c} PROVE FALSE
  <2>1. Cardinality({a, b}) <= 2 /\ Cardinality({a, b}) \in Nat /\ IsFiniteSet({a, b})
    <3>1. IsFiniteSet({a}) /\ Cardinality({a}) = 1 BY Zenon, FS_Singleton
    <3>2. {a, b} = {a} \cup {b} OBVIOUS
    <3>3. /\ IsFiniteSet({a} \cup {b})
          /\ Cardinality({a} \cup {b}) = IF b \in {a} THEN Cardinality({a}) ELSE Cardinality({a}) + 1
      BY Zenon, <3>1, FS_AddElement
    <3> QED BY <3>1, <3>2, <3>3
  <2>2. /\ IsFiniteSet({a, b} \cup {c})
        /\ Cardinality({a, b} \cup {c}) =
             IF c \in {a, b} THEN Cardinality({a, b}) ELSE Cardinality({a, b}) + 1
    BY Zenon, <2>1, FS_AddElement
  <2>3. {a, b, c} = {a, b} \cup {c} OBVIOUS
  <2>4. Cardinality({a, b, c}) <= 3 /\ Cardinality({a, b, c}) \in Nat BY <2>1, <2>2, <2>3
  <2>5. Cardinality({a, b, c}) = 4 BY Zenon, <1>3, VmmAssumption
  <2> QED BY <2>4, <2>5
<1>4. ASSUME 0 = Pml4 PROVE FALSE
  <2>1. {0, Pml4, Pdpt, Pd} = {Pml4, Pdpt, Pd} BY <1>4
  <2> QED BY Zenon, <1>3, <2>1
<1>5. ASSUME 0 = Pdpt PROVE FALSE
  <2>1. {0, Pml4, Pdpt, Pd} = {Pml4, Pdpt, Pd} BY <1>5
  <2> QED BY Zenon, <1>3, <2>1
<1>6. ASSUME 0 = Pd PROVE FALSE
  <2>1. {0, Pml4, Pdpt, Pd} = {Pml4, Pdpt, Pd} BY <1>6
  <2> QED BY Zenon, <1>3, <2>1
<1>7. ASSUME Pml4 = Pdpt PROVE FALSE
  <2>1. {0, Pml4, Pdpt, Pd} = {0, Pdpt, Pd} BY <1>7
  <2> QED BY Zenon, <1>3, <2>1
<1>8. ASSUME Pml4 = Pd PROVE FALSE
  <2>1. {0, Pml4, Pdpt, Pd} = {0, Pdpt, Pd} BY <1>8
  <2> QED BY Zenon, <1>3, <2>1
<1>9. ASSUME Pdpt = Pd PROVE FALSE
  <2>1. {0, Pml4, Pdpt, Pd} = {0, Pml4, Pd} BY <1>9
  <2> QED BY Zenon, <1>3, <2>1
<1> QED BY <1>1, <1>2, <1>4, <1>5, <1>6, <1>7, <1>8, <1>9

\* boot.s's tables translate a page below 4 GB to the frame of its number.
LEMMA BootMapTranslates ==
  ASSUME NEW m, BootMap(m), NEW v \in Frames
  PROVE  Translate(m, v) = v
<1> DEFINE i == Index(v, 1)
           j == Index(v, 0)
<1>1. v \in Nat /\ Index(v, 3) = 0 /\ Index(v, 2) = 0 /\ i * K + j = v BY LowIndex
<1>2. i \in Slots /\ j \in Slots BY <1>1, IndexInSlots
<1>3. m[Pml4][0] = Small(Pdpt) /\ m[Pdpt][0] = Small(Pd) /\ m[Pd][i] = Large(i * K)
  BY <1>2 DEF BootMap
<1>4. /\ \A f : Small(f).to = f /\ Small(f).present
      /\ \A f : Large(f).to = f /\ Large(f).present /\ Large(f).huge
  BY DEF Small, Large
<1>5. m[Pml4][Index(v, 3)].to = Pdpt /\ m[Pml4][Index(v, 3)].present BY Zenon, <1>1, <1>3, <1>4
<1>6. m[Pdpt][Index(v, 2)].to = Pd /\ m[Pdpt][Index(v, 2)].present BY Zenon, <1>1, <1>3, <1>4
<1>7. m[Pd][i].to = i * K /\ m[Pd][i].present /\ m[Pd][i].huge BY Zenon, <1>3, <1>4
<1>8. Translate(m, v) = i * K + j BY Zenon, <1>5, <1>6, <1>7 DEF Translate
<1> QED BY Zenon, <1>1, <1>8

\* Sets of numbers have a least element.
LEMMA LeastIn ==
  ASSUME NEW S \in SUBSET Nat, S # {}
  PROVE  \E n \in S : \A m \in S : n <= m
<1>1. PICK n \in S : \A m \in S : <<m, n>> \notin OpToRel(<, Nat)
  BY NatLessThanWellFounded, WFMin, Zenon
<1>2. \A m \in S : ~(m < n) BY <1>1, Zenon DEF OpToRel
<1> QED BY <1>2

\* alloc_page returns 0 or a frame that was free.
LEMMA LowestFreeIsFree ==
  ASSUME NEW u, KernelFrames \subseteq u, LowestFree(u) # 0
  PROVE  LowestFree(u) \in Frames /\ LowestFree(u) \notin u
<1>1. ~(Frames \subseteq u) /\ LowestFree(u) = Min(Frames \ u) BY DEF LowestFree
<1>2. Frames \ u \in SUBSET Nat BY VmmAssumption DEF Frames
<1>3. \E n \in Frames \ u : \A m \in Frames \ u : n <= m BY Zenon, <1>1, <1>2, LeastIn
<1>4. Min(Frames \ u) \in Frames \ u BY Zenon, <1>3 DEF Min
<1> QED BY <1>1, <1>4

\* A free frame g becomes an empty table under a table t that lacks it.
NewMem(m, t, i, g) == [[m EXCEPT ![g] = Zeroed] EXCEPT ![t][i] = Small(g)]
NewLevel(T, lv, t, g) == [s \in T \cup {g} |-> IF s = g THEN lv[t] - 1 ELSE lv[s]]

Planted(m, u, T, lv, t, i, g) ==
  /\ Shape(NewMem(m, t, i, g), u \cup {g}, T \cup {g}, NewLevel(T, lv, t, g))
  /\ \A f : Spare(m, u, T, f) => Spare(NewMem(m, t, i, g), u \cup {g}, T \cup {g}, f)
  /\ NewMem(m, t, i, g)[t][i] = Small(g) /\ NewLevel(T, lv, t, g)[g] = lv[t] - 1

LEMMA NewTableShape ==
  ASSUME NEW m, NEW u, NEW T, NEW lv, Shape(m, u, T, lv),
         NEW t \in T \ {Pd}, lv[t] > 0, NEW i \in Slots, ~m[t][i].present,
         NEW g \in Frames, g \notin u
  PROVE  Planted(m, u, T, lv, t, i, g)
<1> DEFINE U == u \cup {g}
           V == T \cup {g}
           m2 == NewMem(m, t, i, g)
           lv2 == NewLevel(T, lv, t, g)
<1>1. /\ m \in [Frames -> [Slots -> PageEntries]] /\ u \subseteq Frames /\ T \subseteq u
      /\ 0 \notin T /\ 0 \in u /\ KernelFrames \subseteq u /\ lv \in [T -> 0 .. 3]
      /\ Pml4 \in T /\ Pdpt \in T /\ Pd \in T
  BY VmmAssumption DEF Shape, BootMap
<1>2. g \notin T /\ g # 0 /\ t # g /\ t \in Frames /\ t \in T BY <1>1
<1>3. Zeroed \in [Slots -> PageEntries] /\ \A j \in Slots : Zeroed[j] = None /\ ~None.present
  BY BootFrames DEF Zeroed, None, PageEntries, Slots
<1>4. Small(g) \in PageEntries /\ Small(g).to = g /\ Small(g).present /\ ~Small(g).huge
  BY DEF Small, PageEntries
<1>5. m2 \in [Frames -> [Slots -> PageEntries]]
  <2>1. [m EXCEPT ![g] = Zeroed] \in [Frames -> [Slots -> PageEntries]] BY <1>1, <1>3
  <2> QED BY <1>2, <1>4, <2>1 DEF NewMem
<1>6. /\ m2[t][i] = Small(g)
      /\ \A j \in Slots : ~m2[g][j].present
      /\ \A s \in T : \A j \in Slots : s # t \/ j # i => m2[s][j] = m[s][j]
  <2> DEFINE m1 == [m EXCEPT ![g] = Zeroed]
  <2>1. m1 \in [Frames -> [Slots -> PageEntries]] BY <1>1, <1>3
  <2>2. m1[g] = Zeroed /\ \A s \in T : m1[s] = m[s] BY <1>1, <1>2
  <2> HIDE DEF m1
  <2>3. m2 = [m1 EXCEPT ![t][i] = Small(g)] BY DEF m1, NewMem
  <2> HIDE DEF m2
  <2>4. m2[t][i] = Small(g) BY <1>2, <2>1, <2>3
  <2>5. m2[g] = m1[g] BY <1>2, <2>1, <2>3
  <2>6. \A s \in T : \A j \in Slots : s # t \/ j # i => m2[s][j] = m1[s][j]
    <3> SUFFICES ASSUME NEW s \in T, NEW j \in Slots, s # t \/ j # i
                 PROVE  m2[s][j] = m1[s][j]
      OBVIOUS
    <3>1. s \in Frames BY <1>1
    <3> QED BY <1>2, <2>1, <2>3, <3>1
  <2> QED BY ZenonT(60), <1>3, <2>2, <2>4, <2>5, <2>6
<1>7. lv2 \in [V -> 0 .. 3] /\ lv2[g] = lv[t] - 1 /\ \A s \in T : lv2[s] = lv[s]
  <2>1. lv[t] \in 0 .. 3 /\ lv[t] - 1 \in 0 .. 3 BY <1>1
  <2> QED BY <1>1, <1>2, <2>1 DEF NewLevel
<1> HIDE DEF U, V, m2, lv2
<1>8. V = T \cup {g} /\ U = u \cup {g} BY DEF U, V
<1>9. BootMap(m2)
  <2>1. m[Pml4][0].present /\ m[Pdpt][0].present BY DEF Shape, BootMap, Small
  <2>2. m2[Pml4][0] = m[Pml4][0] /\ m2[Pdpt][0] = m[Pdpt][0] BY Zenon, <1>1, <1>6, <2>1, BootFrames
  <2>3. \A j \in Slots : m2[Pd][j] = m[Pd][j] BY Zenon, <1>1, <1>6
  <2> QED BY Zenon, <1>5, <2>2, <2>3 DEF Shape, BootMap
<1>10. ASSUME NEW s \in V \ {Pd}, NEW j \in Slots, m2[s][j].present
       PROVE  LeadsDown(m2[s][j], U, V, lv2, s)
  <2>1. s \in T /\ s # g BY <1>6, <1>8, <1>10
  <2>2. CASE s = t /\ j = i
    <3>1. m2[s][j] = Small(g) /\ lv2[s] = lv[t] /\ lv[t] # 0 BY <1>1, <1>2, <1>6, <1>7, <2>2
    <3>2. g \in U /\ g \in V BY Zenon, <1>8
    <3> QED BY <1>2, <1>4, <1>7, <3>1, <3>2 DEF LeadsDown
  <2>3. CASE s # t \/ j # i
    <3>1. m2[s][j] = m[s][j] /\ LeadsDown(m[s][j], u, T, lv, s) BY <1>6, <1>10, <2>1, <2>3 DEF Shape
    <3>2. m[s][j].to # g BY <3>1 DEF LeadsDown
    <3> QED BY ZenonT(60), <1>7, <1>8, <2>1, <3>1, <3>2 DEF LeadsDown
  <2> QED BY <2>2, <2>3
<1>11. ASSUME NEW s \in T \ {Pd}, NEW j \in Slots, m[s][j].present PROVE m[s][j].to # g
  BY <1>11 DEF Shape, LeadsDown
<1>12. OneParent(m2, V)
  <2> SUFFICES ASSUME NEW s \in V \ {Pd}, NEW r \in V \ {Pd}, NEW j \in Slots, NEW k \in Slots,
                      m2[s][j].present, m2[r][k].present, m2[s][j].to = m2[r][k].to
               PROVE  s = r /\ j = k
    BY DEF OneParent
  <2>1. s \in T /\ r \in T /\ s \in T \ {Pd} /\ r \in T \ {Pd} BY <1>6, <1>8
  <2>2. (s = t /\ j = i) \/ (m2[s][j] = m[s][j] /\ m[s][j].to # g) BY Zenon, <1>6, <1>11, <2>1
  <2>3. (r = t /\ k = i) \/ (m2[r][k] = m[r][k] /\ m[r][k].to # g) BY Zenon, <1>6, <1>11, <2>1
  <2>4. OneParent(m, T) BY DEF Shape
  <2>5. m2[t][i].to = g BY <1>4, <1>6
  <2>6. CASE m2[s][j] = m[s][j] /\ m[s][j].to # g
    <3>1. m2[r][k] = m[r][k] BY Zenon, <2>3, <2>5, <2>6
    <3>2. m[s][j].present /\ m[r][k].present /\ m[s][j].to = m[r][k].to BY Zenon, <2>6, <3>1
    <3> QED BY <2>1, <2>4, <3>2 DEF OneParent
  <2>7. CASE s = t /\ j = i
    <3>1. m2[r][k].to = g BY Zenon, <2>5, <2>7
    <3> QED BY Zenon, <2>3, <2>7, <3>1
  <2> QED BY Zenon, <2>2, <2>6, <2>7
<1>13. Shape(m2, U, V, lv2)
  BY Zenon, <1>1, <1>2, <1>7, <1>8, <1>9, <1>10, <1>12 DEF Shape
<1>14. ASSUME NEW f, Spare(m, u, T, f) PROVE Spare(m2, U, V, f)
  <2>1. f \in u /\ f # g /\ f \notin T /\ f \notin KernelFrames BY <1>14 DEF Spare
  <2>2. ASSUME NEW s \in V \ {Pd}, NEW j \in Slots, m2[s][j].present PROVE m2[s][j].to # f
    <3>1. s \in T BY <1>6, <1>8, <2>2
    <3>2. (s = t /\ j = i) \/ m2[s][j] = m[s][j] BY Zenon, <1>6, <3>1
    <3> QED BY <1>4, <1>6, <1>14, <2>1, <2>2, <3>1, <3>2 DEF Spare
  <2> QED BY <1>8, <2>1, <2>2 DEF Spare
<1> QED BY Zenon, <1>6, <1>7, <1>13, <1>14 DEF U, V, m2, lv2, Planted

\* A last-level entry is cleared, or set to a frame nothing leads to.
LEMMA LeafShape ==
  ASSUME NEW m, NEW u, NEW T, NEW lv, Shape(m, u, T, lv),
         NEW t \in T, lv[t] = 0, NEW i \in Slots, NEW e \in PageEntries,
         e.present => ~e.huge /\ Spare(m, u, T, e.to),
         NEW m2, m2 = [m EXCEPT ![t][i] = e]
  PROVE  Shape(m2, u, T, lv)
<1>1. /\ m \in [Frames -> [Slots -> PageEntries]] /\ T \subseteq Frames /\ 0 \in KernelFrames
      /\ Pml4 \in T /\ Pdpt \in T /\ Pd \in T
      /\ lv[Pml4] = 3 /\ lv[Pdpt] = 2 /\ lv[Pd] = 1 /\ OneParent(m, T)
  BY VmmAssumption DEF Shape, BootMap
<1>2. t \in Frames /\ t # Pml4 /\ t # Pdpt /\ t # Pd BY <1>1
<1>3. m2 \in [Frames -> [Slots -> PageEntries]] BY <1>1
<1>4. m2[t][i] = e BY <1>1, <1>2
<1>5. \A s \in T : \A j \in Slots : s # t \/ j # i => m2[s][j] = m[s][j]
  <2> SUFFICES ASSUME NEW s \in T, NEW j \in Slots, s # t \/ j # i PROVE m2[s][j] = m[s][j]
    OBVIOUS
  <2>1. s \in Frames BY <1>1
  <2> QED BY <1>1, <1>2, <2>1
<1>6. BootMap(m2) BY Zenon, <1>1, <1>2, <1>3, <1>5, BootFrames DEF Shape, BootMap
<1>7. ASSUME NEW s \in T \ {Pd}, NEW j \in Slots, m2[s][j].present
      PROVE  LeadsDown(m2[s][j], u, T, lv, s)
  <2>1. CASE s = t /\ j = i
    <3>1. e.present /\ m2[s][j] = e /\ lv[s] = 0 BY Zenon, <1>4, <1>7, <2>1
    <3>2. ~e.huge /\ e.to \in u /\ e.to \notin T /\ e.to \notin KernelFrames BY <3>1 DEF Spare
    <3> QED BY <1>1, <3>1, <3>2 DEF LeadsDown
  <2>2. CASE s # t \/ j # i
    <3>1. m2[s][j] = m[s][j] BY <1>5, <2>2
    <3> QED BY Zenon, <1>7, <3>1 DEF Shape
  <2> QED BY <2>1, <2>2
<1>8. OneParent(m2, T)
  <2> SUFFICES ASSUME NEW s \in T \ {Pd}, NEW r \in T \ {Pd}, NEW j \in Slots, NEW k \in Slots,
                      m2[s][j].present, m2[r][k].present, m2[s][j].to = m2[r][k].to
               PROVE  s = r /\ j = k
    BY DEF OneParent
  <2>1. ASSUME NEW a \in T \ {Pd}, NEW b \in Slots, m2[a][b].present, a # t \/ b # i
        PROVE  m2[a][b] = m[a][b] /\ (e.present => m[a][b].to # e.to)
    <3>1. m2[a][b] = m[a][b] BY <1>5, <2>1
    <3> QED BY <2>1, <3>1 DEF Spare
  <2>2. CASE s = t /\ j = i
    <3>1. e.present /\ m2[r][k].to = e.to BY Zenon, <1>4, <2>2
    <3> QED BY ZenonT(60), <2>1, <2>2, <3>1
  <2>3. CASE r = t /\ k = i
    <3>1. e.present /\ m2[s][j].to = e.to BY Zenon, <1>4, <2>3
    <3> QED BY <2>1, <2>3, <3>1
  <2>4. CASE (s # t \/ j # i) /\ (r # t \/ k # i)
    <3>1. m2[s][j] = m[s][j] /\ m2[r][k] = m[r][k] BY Zenon, <2>1, <2>4
    <3> QED BY <1>1, <3>1 DEF OneParent
  <2> QED BY <2>2, <2>3, <2>4
<1> QED BY Zenon, <1>6, <1>7, <1>8 DEF Shape

\* Frames that are not tables may be overwritten.
LEMMA DataShape ==
  ASSUME NEW m, NEW u, NEW T, NEW lv, Shape(m, u, T, lv),
         NEW m2 \in [Frames -> [Slots -> PageEntries]], \A t \in T : m2[t] = m[t]
  PROVE  Shape(m2, u, T, lv)
<1>1. Pml4 \in T /\ Pdpt \in T /\ Pd \in T /\ BootMap(m) BY DEF Shape
<1>2. BootMap(m2) BY Zenon, <1>1 DEF BootMap
<1>3. OneParent(m2, T)
  <2>1. OneParent(m, T) BY DEF Shape
  <2> QED BY <2>1 DEF OneParent
<1>4. \A t \in T \ {Pd} : \A i \in Slots :
        m2[t][i].present => LeadsDown(m2[t][i], u, T, lv, t)
  BY DEF Shape
<1> QED BY Zenon, <1>2, <1>3, <1>4 DEF Shape

-----------------------------------------------------------------------------
(* The kernel's walk and map_page.                                         *)

StateRecs ==
  [mem : [Frames -> [Slots -> PageEntries]], used : SUBSET Frames, tables : SUBSET Frames]

\* walk_or_alloc finds or makes the table one level down from level n.
Walked(st, w, t, i, n) ==
  /\ w.st \in StateRecs /\ st.tables \subseteq w.st.tables
  /\ \A f : Spare(st.mem, st.used, st.tables, f) => Spare(w.st.mem, w.st.used, w.st.tables, f)
  /\ \E lv :
       /\ Shape(w.st.mem, w.st.used, w.st.tables, lv)
       /\ w.next # 0 => /\ w.next \in w.st.tables /\ lv[w.next] = n - 1
                        /\ w.st.mem[t][i].present /\ w.st.mem[t][i].to = w.next

LEMMA WalkShape ==
  ASSUME NEW st \in StateRecs, NEW lv, Shape(st.mem, st.used, st.tables, lv),
         NEW t \in st.tables \ {Pd}, NEW n \in 1 .. 3, lv[t] = n, NEW i \in Slots
  PROVE  Walked(st, walk_or_alloc(st, t, i), t, i, n)
<1> DEFINE w == walk_or_alloc(st, t, i)
           e == st.mem[t][i]
           f == LowestFree(st.used)
           m2 == NewMem(st.mem, t, i, f)
           lv2 == NewLevel(st.tables, lv, t, f)
           made == [mem |-> m2, used |-> st.used \cup {f}, tables |-> st.tables \cup {f}]
<1>0. lv[t] > 0 OBVIOUS
<1>1. CASE e.present
  <2>1. w.st = st /\ w.next = e.to BY Zenon, <1>1 DEF walk_or_alloc, LeadsOn
  <2>2. LeadsDown(e, st.used, st.tables, lv, t) BY <1>1 DEF Shape
  <2> HIDE DEF e, w
  <2>3. e.to \in st.tables /\ lv[e.to] = n - 1 BY <1>0, <2>2 DEF LeadsDown
  <2>4. Walked(st, w, t, i, n) BY Zenon, <1>1, <2>1, <2>3 DEF e, Walked
  <2> QED BY Zenon, <2>4 DEF w
<1>2. CASE ~e.present /\ f = 0
  <2>1. w.st = st /\ w.next = 0 BY ZenonT(60), <1>2 DEF walk_or_alloc, LeadsOn
  <2> HIDE DEF w
  <2>2. Walked(st, w, t, i, n) BY Zenon, <2>1 DEF Walked
  <2> QED BY Zenon, <2>2 DEF w
<1>3. CASE ~e.present /\ f # 0
  <2>1. w.st = made /\ w.next = f BY Zenon, <1>3 DEF walk_or_alloc, LeadsOn, NewTable, NewMem
  <2>2. KernelFrames \subseteq st.used BY DEF Shape
  <2>3. f \in Frames /\ f \notin st.used BY Zenon, <1>3, <2>2, LowestFreeIsFree
  <2>4. /\ made.mem = m2 /\ made.used = st.used \cup {f} /\ made.tables = st.tables \cup {f}
    BY Zenon
  <2> HIDE DEF f, made, w
  <2>5. Planted(st.mem, st.used, st.tables, lv, t, i, f) BY <1>0, <1>3, <2>3, NewTableShape
  <2>6. /\ Shape(m2, st.used \cup {f}, st.tables \cup {f}, lv2)
        /\ \A g : Spare(st.mem, st.used, st.tables, g) =>
                   Spare(m2, st.used \cup {f}, st.tables \cup {f}, g)
        /\ m2[t][i] = Small(f) /\ lv2[f] = n - 1
    BY Zenon, <2>5 DEF Planted
  <2> HIDE DEF m2, lv2
  <2>7. made \in StateRecs /\ st.tables \subseteq st.tables \cup {f}
    <3>1. m2 \in [Frames -> [Slots -> PageEntries]] BY ZenonT(60), <2>6 DEF Shape, BootMap
    <3>2. st.used \cup {f} \in SUBSET Frames /\ st.tables \cup {f} \in SUBSET Frames
      BY Zenon, <2>3 DEF StateRecs
    <3> QED BY ZenonT(60), <3>1, <3>2 DEF made, StateRecs
  <2>8. m2[t][i].present /\ m2[t][i].to = f BY Zenon, <2>6, SmallIs
  <2>9. f \in st.tables \cup {f} OBVIOUS
  <2>10. Walked(st, w, t, i, n) BY Zenon, <2>1, <2>4, <2>6, <2>7, <2>8, <2>9 DEF Walked
  <2> QED BY Zenon, <2>10 DEF w
<1> QED BY <1>1, <1>2, <1>3

Tidy(st) == st \in StateRecs /\ \E lv : Shape(st.mem, st.used, st.tables, lv)

\* map_page of a page above 4 GB to a frame nothing leads to.
LEMMA MapTidy ==
  ASSUME NEW st, Tidy(st), NEW v \in HighPages, NEW f, Spare(st.mem, st.used, st.tables, f)
  PROVE  Tidy(map_page(st, v, f))
<1> DEFINE i3 == Index(v, 3)
           i2 == Index(v, 2)
           i1 == Index(v, 1)
           i0 == Index(v, 0)
           w3 == walk_or_alloc(st, Pml4, i3)
           w2 == walk_or_alloc(w3.st, w3.next, i2)
           w1 == walk_or_alloc(w2.st, w2.next, i1)
           last == [w1.st EXCEPT !.mem[w1.next][i0] = Small(f)]
<1>1. PICK lv : Shape(st.mem, st.used, st.tables, lv) BY Zenon DEF Tidy
<1>2. v \in Nat /\ ~(i3 = 0 /\ i2 = 0) BY HighIndex
<1>3. i3 \in Slots /\ i2 \in Slots /\ i1 \in Slots /\ i0 \in Slots BY <1>2, IndexInSlots
<1>4. map_page(st, v, f) = CASE w3.next = 0 -> w3.st
                             [] w3.next # 0 /\ w2.next = 0 -> w2.st
                             [] w3.next # 0 /\ w2.next # 0 /\ w1.next = 0 -> w1.st
                             [] OTHER -> last
  BY Zenon DEF map_page
<1> HIDE DEF i3, i2, i1, i0
<1>5. st \in StateRecs BY Zenon DEF Tidy
<1>6. Pml4 \in st.tables \ {Pd} /\ lv[Pml4] = 3 BY Zenon, <1>1, BootFrames DEF Shape
<1>7. Walked(st, w3, Pml4, i3, 3) BY <1>1, <1>3, <1>5, <1>6, WalkShape
<1> HIDE DEF w3
<1>8. CASE w3.next = 0
  <2>1. map_page(st, v, f) = w3.st BY <1>4, <1>8
  <2> QED BY Zenon, <1>7, <2>1 DEF Tidy, Walked
<1>9. CASE w3.next # 0
  <2>1. w3.st \in StateRecs /\ Spare(w3.st.mem, w3.st.used, w3.st.tables, f)
    BY Zenon, <1>7 DEF Walked
  <2>2. PICK lv2 : /\ Shape(w3.st.mem, w3.st.used, w3.st.tables, lv2)
                   /\ w3.next \in w3.st.tables /\ lv2[w3.next] = 3 - 1
                   /\ w3.st.mem[Pml4][i3].present /\ w3.st.mem[Pml4][i3].to = w3.next
    BY Zenon, <1>7, <1>9 DEF Walked
  <2>3. w3.next \in w3.st.tables \ {Pd} /\ lv2[w3.next] = 2 BY <2>2 DEF Shape
  <2>4. ~(w3.next = Pdpt /\ i2 = 0)
    <3>1. OneParent(w3.st.mem, w3.st.tables) /\ Pml4 \in w3.st.tables \ {Pd} /\ 0 \in Slots
      BY Zenon, <2>2, BootFrames DEF Shape
    <3>2. w3.st.mem[Pml4][0].present /\ w3.st.mem[Pml4][0].to = Pdpt
      BY ZenonT(60), <2>2, BootEntries DEF Shape
    <3>3. ASSUME w3.next = Pdpt PROVE i3 = 0
      <4>1. w3.st.mem[Pml4][i3].to = w3.st.mem[Pml4][0].to BY Zenon, <2>2, <3>2, <3>3
      <4> QED BY ZenonT(60), <1>3, <2>2, <3>1, <3>2, <4>1 DEF OneParent
    <3> QED BY Zenon, <1>2, <3>3
  <2>5. Walked(w3.st, w2, w3.next, i2, 2) BY <1>3, <2>1, <2>2, <2>3, WalkShape
  <2> HIDE DEF w2
  <2>6. CASE w2.next = 0
    <3>1. map_page(st, v, f) = w2.st BY <1>4, <1>9, <2>6
    <3> QED BY Zenon, <2>5, <3>1 DEF Tidy, Walked
  <2>7. CASE w2.next # 0
    <3>1. /\ w2.st \in StateRecs /\ Spare(w2.st.mem, w2.st.used, w2.st.tables, f)
          /\ w3.st.tables \subseteq w2.st.tables
      BY Zenon, <2>1, <2>5 DEF Walked
    <3>2. PICK lv3 : /\ Shape(w2.st.mem, w2.st.used, w2.st.tables, lv3)
                     /\ w2.next \in w2.st.tables /\ lv3[w2.next] = 2 - 1
                     /\ w2.st.mem[w3.next][i2].present /\ w2.st.mem[w3.next][i2].to = w2.next
      BY Zenon, <2>5, <2>7 DEF Walked
    <3>3. w2.next # Pd
      <4>1. /\ OneParent(w2.st.mem, w2.st.tables) /\ 0 \in Slots
            /\ Pdpt \in w2.st.tables \ {Pd} /\ w3.next \in w2.st.tables \ {Pd}
        BY Zenon, <2>3, <3>1, <3>2, BootFrames DEF Shape
      <4>2. w2.st.mem[Pdpt][0].present /\ w2.st.mem[Pdpt][0].to = Pd
        BY Zenon, <3>2, BootEntries DEF Shape
      <4>3. ASSUME w2.next = Pd PROVE w3.next = Pdpt /\ i2 = 0
        <5>1. w2.st.mem[w3.next][i2].to = w2.st.mem[Pdpt][0].to BY Zenon, <3>2, <4>2, <4>3
        <5> QED BY ZenonT(60), <1>3, <3>2, <4>1, <4>2, <5>1 DEF OneParent
      <4> QED BY Zenon, <2>4, <4>3
    <3>4. w2.next \in w2.st.tables \ {Pd} /\ lv3[w2.next] = 1
      <4>1. 2 - 1 = 1 OBVIOUS
      <4> QED BY Zenon, <3>2, <3>3, <4>1
    <3>5. Walked(w2.st, w1, w2.next, i1, 1) BY <1>3, <3>1, <3>2, <3>4, WalkShape
    <3>6. w1.next = 0 => map_page(st, v, f) = w1.st BY ZenonT(60), <1>4, <1>9, <2>7
    <3>7. w1.next # 0 => map_page(st, v, f) = last BY ZenonT(60), <1>4, <1>9, <2>7
    <3> HIDE DEF w1
    <3>8. CASE w1.next = 0 BY Zenon, <3>5, <3>6, <3>8 DEF Tidy, Walked
    <3>9. CASE w1.next # 0
      <4>1. w1.st \in StateRecs /\ Spare(w1.st.mem, w1.st.used, w1.st.tables, f)
        BY Zenon, <3>1, <3>5 DEF Walked
      <4>2. PICK lv4 : /\ Shape(w1.st.mem, w1.st.used, w1.st.tables, lv4)
                       /\ w1.next \in w1.st.tables /\ lv4[w1.next] = 1 - 1
        BY Zenon, <3>5, <3>9 DEF Walked
      <4> DEFINE m2 == [w1.st.mem EXCEPT ![w1.next][i0] = Small(f)]
      <4>3. Small(f) \in PageEntries /\ ~Small(f).huge /\ Small(f).to = f
        <5>1. f \in Frames BY ZenonT(60), <4>1 DEF Spare, StateRecs
        <5> QED BY Zenon, <5>1 DEF Small, PageEntries
      <4>4. lv4[w1.next] = 0 BY <4>2
      <4>5. Shape(m2, w1.st.used, w1.st.tables, lv4)
        BY Zenon, <1>3, <4>1, <4>2, <4>3, <4>4, LeafShape
      <4>6. /\ last \in StateRecs /\ last.mem = m2
            /\ last.used = w1.st.used /\ last.tables = w1.st.tables
        <5>1. m2 \in [Frames -> [Slots -> PageEntries]] BY Zenon, <4>5 DEF Shape, BootMap
        <5> QED BY Zenon, <4>1, <5>1 DEF StateRecs
      <4> HIDE DEF last, m2
      <4> QED BY Zenon, <3>7, <3>9, <4>5, <4>6 DEF Tidy
    <3> QED BY <3>8, <3>9
  <2> QED BY <2>6, <2>7
<1> QED BY <1>8, <1>9

\* alloc_page before each mapping: the frame is taken, and nothing leads to it.
LEMMA TakeTidy ==
  ASSUME NEW st, Tidy(st), NEW f, f = LowestFree(st.used), f # 0, NEW st2, st2 = TakeFrame(st, f)
  PROVE  Tidy(st2) /\ Spare(st2.mem, st2.used, st2.tables, f)
<1>1. PICK lv : Shape(st.mem, st.used, st.tables, lv) BY Zenon DEF Tidy
<1>2. f \in Frames /\ f \notin st.used
  <2>1. KernelFrames \subseteq st.used BY <1>1 DEF Shape
  <2> QED BY Zenon, <2>1, LowestFreeIsFree
<1>3. /\ st2 \in StateRecs /\ st2.mem = st.mem
      /\ st2.used = st.used \cup {f} /\ st2.tables = st.tables
  <2>1. st \in StateRecs BY Zenon DEF Tidy
  <2> QED BY <1>2, <2>1 DEF TakeFrame, StateRecs
<1>4. \A t \in st.tables \ {Pd} : \A i \in Slots :
        st.mem[t][i].present => LeadsDown(st.mem[t][i], st.used, st.tables, lv, t)
  BY Zenon, <1>1 DEF Shape
<1>5. \A t \in st.tables \ {Pd} : \A i \in Slots :
        st.mem[t][i].present => LeadsDown(st.mem[t][i], st.used \cup {f}, st.tables, lv, t)
  BY Zenon, <1>4 DEF LeadsDown
<1>6. st.used \cup {f} \subseteq Frames BY Zenon, <1>1, <1>2 DEF Shape
<1>7. KernelFrames \subseteq st.used \cup {f} /\ st.tables \subseteq st.used \cup {f}
  BY ZenonT(60), <1>1 DEF Shape
<1>8. Shape(st.mem, st.used \cup {f}, st.tables, lv) BY Zenon, <1>1, <1>5, <1>6, <1>7 DEF Shape
<1>9. Spare(st.mem, st.used \cup {f}, st.tables, f)
  <2>1. f \notin st.tables /\ f \notin KernelFrames BY Zenon, <1>1, <1>2 DEF Shape
  <2>2. \A t \in st.tables \ {Pd} : \A i \in Slots : st.mem[t][i].present => st.mem[t][i].to # f
    BY ZenonT(60), <1>2, <1>4 DEF LeadsDown
  <2> QED BY Zenon, <2>1, <2>2 DEF Spare
<1> QED BY Zenon, <1>3, <1>8, <1>9 DEF Tidy

\* One step down: only PML4[0] leads to boot_pdpt, only its entry 0 to boot_pd0.
Downward(m, T, lv, t, i, n) ==
  /\ m[t][i].to \in T /\ lv[m[t][i].to] = n - 1 /\ ~m[t][i].huge
  /\ m[t][i].to = Pd => t = Pdpt /\ i = 0
  /\ m[t][i].to = Pdpt => t = Pml4 /\ i = 0

LEMMA OneDown ==
  ASSUME NEW m, NEW u, NEW T, NEW lv, Shape(m, u, T, lv),
         NEW t \in T \ {Pd}, NEW n \in 1 .. 3, lv[t] = n, NEW i \in Slots, m[t][i].present
  PROVE  Downward(m, T, lv, t, i, n)
<1>1. LeadsDown(m[t][i], u, T, lv, t) BY Zenon DEF Shape
<1>2. OneParent(m, T) /\ Pml4 \in T \ {Pd} /\ Pdpt \in T \ {Pd} /\ 0 \in Slots
  BY Zenon, BootFrames DEF Shape
<1>3. /\ m[Pml4][0].present /\ m[Pml4][0].to = Pdpt
      /\ m[Pdpt][0].present /\ m[Pdpt][0].to = Pd
  BY DEF Shape, BootMap, Small
<1>4. m[t][i].to = Pd => t = Pdpt /\ i = 0 BY <1>2, <1>3 DEF OneParent
<1>5. m[t][i].to = Pdpt => t = Pml4 /\ i = 0 BY Zenon, <1>2, <1>3 DEF OneParent
<1>6. m[t][i].to \in T /\ lv[m[t][i].to] = n - 1 /\ ~m[t][i].huge BY <1>1 DEF LeadsDown
<1> QED BY Zenon, <1>4, <1>5, <1>6 DEF Downward

\* A walk down to a page above 4 GB goes through tables of falling level, none
\* of them the boot directory.
Path(m, v, t2, t1, t0) ==
  /\ m[Pml4][Index(v, 3)].present /\ m[Pml4][Index(v, 3)].to = t2
  /\ m[t2][Index(v, 2)].present /\ m[t2][Index(v, 2)].to = t1
  /\ m[t1][Index(v, 1)].present /\ m[t1][Index(v, 1)].to = t0

OnPath(m, T, lv, v, t2, t1, t0) ==
  /\ t2 \in T \ {Pd} /\ t1 \in T \ {Pd} /\ t0 \in T \ {Pd}
  /\ lv[t0] = 0 /\ ~m[t1][Index(v, 1)].huge

LEMMA WalkDown ==
  ASSUME NEW m, NEW u, NEW T, NEW lv, Shape(m, u, T, lv), NEW v \in HighPages,
         NEW t2, NEW t1, NEW t0, Path(m, v, t2, t1, t0)
  PROVE  OnPath(m, T, lv, v, t2, t1, t0)
<1>1. v \in Nat /\ ~(Index(v, 3) = 0 /\ Index(v, 2) = 0) BY HighIndex
<1>2. Index(v, 3) \in Slots /\ Index(v, 2) \in Slots /\ Index(v, 1) \in Slots
  BY <1>1, IndexInSlots
<1>3. Pml4 \in T \ {Pd} /\ lv[Pml4] = 3 /\ lv[Pd] = 1 BY Zenon, BootFrames DEF Shape
<1>4. 3 - 1 = 2 /\ 2 - 1 = 1 /\ 1 - 1 = 0 /\ 1 # 2 /\ 1 # 0 OBVIOUS
<1>5. t2 \in T \ {Pd} /\ lv[t2] = 2 /\ (t2 = Pdpt => Index(v, 3) = 0)
  <2>1. m[Pml4][Index(v, 3)].present BY Zenon DEF Path
  <2>2. Downward(m, T, lv, Pml4, Index(v, 3), 3) BY <1>2, <1>3, <2>1, OneDown
  <2> QED BY Zenon, <1>3, <1>4, <2>2 DEF Downward, Path
<1>6. t1 \in T \ {Pd} /\ lv[t1] = 1
  <2>1. m[t2][Index(v, 2)].present BY Zenon DEF Path
  <2>2. Downward(m, T, lv, t2, Index(v, 2), 2) BY <1>2, <1>5, <2>1, OneDown
  <2> QED BY Zenon, <1>1, <1>4, <1>5, <2>2 DEF Downward, Path
<1>7. t0 \in T \ {Pd} /\ lv[t0] = 0 /\ ~m[t1][Index(v, 1)].huge
  <2>1. m[t1][Index(v, 1)].present BY Zenon DEF Path
  <2>2. Downward(m, T, lv, t1, Index(v, 1), 1) BY <1>2, <1>6, <2>1, OneDown
  <2> QED BY Zenon, <1>3, <1>4, <2>2 DEF Downward, Path
<1> QED BY Zenon, <1>5, <1>6, <1>7 DEF OnPath

\* What the CPU finds for a page above 4 GB is the leaf at the end of its path.
LEMMA TranslateHigh ==
  ASSUME NEW m, NEW u, NEW T, NEW lv, Shape(m, u, T, lv), NEW v \in HighPages,
         Translate(m, v) # 0
  PROVE  \E t2, t1, t0 : /\ Path(m, v, t2, t1, t0) /\ m[t0][Index(v, 0)].present
                         /\ Translate(m, v) = m[t0][Index(v, 0)].to
<1> DEFINE t2 == m[Pml4][Index(v, 3)].to
           t1 == m[t2][Index(v, 2)].to
           t0 == m[t1][Index(v, 1)].to
<1>1. Path(m, v, t2, t1, t0) BY Zenon DEF Translate, Path
<1>2. ~m[t1][Index(v, 1)].huge
  <2>1. OnPath(m, T, lv, v, t2, t1, t0) BY Zenon, <1>1, WalkDown
  <2> QED BY Zenon, <2>1 DEF OnPath
<1>3. m[t0][Index(v, 0)].present /\ Translate(m, v) = m[t0][Index(v, 0)].to
  BY Zenon, <1>2 DEF Translate
<1> QED BY Zenon, <1>1, <1>3

\* It is a frame of the page's own.
LEMMA HighPrivate ==
  ASSUME NEW m, NEW u, NEW T, NEW lv, Shape(m, u, T, lv), NEW v \in HighPages,
         Translate(m, v) # 0
  PROVE  /\ Translate(m, v) \notin T /\ Translate(m, v) \notin KernelFrames
         /\ \A w \in HighPages : Translate(m, w) = Translate(m, v) => v = w
<1>1. PICK t2, t1, t0 : /\ Path(m, v, t2, t1, t0) /\ m[t0][Index(v, 0)].present
                        /\ Translate(m, v) = m[t0][Index(v, 0)].to
  BY Zenon, TranslateHigh
<1>2. t2 \in T \ {Pd} /\ t1 \in T \ {Pd} /\ t0 \in T \ {Pd} /\ lv[t0] = 0
  <2>1. OnPath(m, T, lv, v, t2, t1, t0) BY Zenon, <1>1, WalkDown
  <2> QED BY Zenon, <2>1 DEF OnPath
<1>3. \A w \in HighPages : \A level \in 0 .. 3 : Index(w, level) \in Slots
  BY HighIndex, IndexInSlots
<1>4. Index(v, 0) \in Slots BY <1>3
<1>5. LeadsDown(m[t0][Index(v, 0)], u, T, lv, t0) BY Zenon, <1>1, <1>2, <1>4 DEF Shape
<1>6. ASSUME NEW w \in HighPages, Translate(m, w) = Translate(m, v) PROVE v = w
  <2>1. PICK s2, s1, s0 : /\ Path(m, w, s2, s1, s0) /\ m[s0][Index(w, 0)].present
                          /\ Translate(m, w) = m[s0][Index(w, 0)].to
    BY Zenon, <1>6, TranslateHigh
  <2>2. s2 \in T \ {Pd} /\ s1 \in T \ {Pd} /\ s0 \in T \ {Pd}
    BY Zenon, <2>1, WalkDown DEF OnPath
  <2>3. /\ Index(v, 0) \in Slots /\ Index(v, 1) \in Slots
        /\ Index(v, 2) \in Slots /\ Index(v, 3) \in Slots
        /\ Index(w, 0) \in Slots /\ Index(w, 1) \in Slots
        /\ Index(w, 2) \in Slots /\ Index(w, 3) \in Slots
    BY <1>3
  <2>4. OneParent(m, T) /\ Pml4 \in T \ {Pd} BY Zenon, BootFrames DEF Shape
  <2>5. t0 = s0 /\ Index(v, 0) = Index(w, 0)
    <3>1. m[t0][Index(v, 0)].to = m[s0][Index(w, 0)].to BY Zenon, <1>1, <1>6, <2>1
    <3>2. m[t0][Index(v, 0)].present /\ m[s0][Index(w, 0)].present BY Zenon, <1>1, <2>1
    <3>3. t0 \in T \ {Pd} /\ s0 \in T \ {Pd} /\ Index(v, 0) \in Slots /\ Index(w, 0) \in Slots
      BY Zenon, <1>2, <2>2, <2>3
    <3> QED BY <2>4, <3>1, <3>2, <3>3, SameParent
  <2>6. t1 = s1 /\ Index(v, 1) = Index(w, 1)
    <3>1. /\ m[t1][Index(v, 1)].present /\ m[s1][Index(w, 1)].present
          /\ m[t1][Index(v, 1)].to = m[s1][Index(w, 1)].to
      BY Zenon, <1>1, <2>1, <2>5 DEF Path
    <3>2. t1 \in T \ {Pd} /\ s1 \in T \ {Pd} /\ Index(v, 1) \in Slots /\ Index(w, 1) \in Slots
      BY Zenon, <1>2, <2>2, <2>3
    <3> QED BY <2>4, <3>1, <3>2, SameParent
  <2>7. t2 = s2 /\ Index(v, 2) = Index(w, 2)
    <3>1. /\ m[t2][Index(v, 2)].present /\ m[s2][Index(w, 2)].present
          /\ m[t2][Index(v, 2)].to = m[s2][Index(w, 2)].to
      BY Zenon, <1>1, <2>1, <2>6 DEF Path
    <3>2. t2 \in T \ {Pd} /\ s2 \in T \ {Pd} /\ Index(v, 2) \in Slots /\ Index(w, 2) \in Slots
      BY Zenon, <1>2, <2>2, <2>3
    <3> QED BY <2>4, <3>1, <3>2, SameParent
  <2>8. Index(v, 3) = Index(w, 3)
    <3>1. /\ m[Pml4][Index(v, 3)].present /\ m[Pml4][Index(w, 3)].present
          /\ m[Pml4][Index(v, 3)].to = m[Pml4][Index(w, 3)].to
      BY Zenon, <1>1, <2>1, <2>7 DEF Path
    <3>2. Index(v, 3) \in Slots /\ Index(w, 3) \in Slots BY Zenon, <2>3
    <3> QED BY <2>4, <3>1, <3>2, SameParent
  <2>9. \A level \in 0 .. 3 : Index(v, level) = Index(w, level) BY <2>5, <2>6, <2>7, <2>8
  <2> QED BY Zenon, <2>9, SamePage
<1> QED BY Zenon, <1>1, <1>2, <1>5, <1>6 DEF LeadsDown

\* memset and memcpy to pages above 4 GB write no table.
LEMMA FillTidy ==
  ASSUME NEW st, Tidy(st), NEW v, NEW n, \A p \in v .. v + n - 1 : p \in HighPages,
         NEW content \in [Slots -> PageEntries]
  PROVE  Tidy([mem |-> Fill(st.mem, v, n, content), used |-> st.used, tables |-> st.tables])
<1> DEFINE hit == {Translate(st.mem, p) : p \in v .. v + n - 1}
           m2 == Fill(st.mem, v, n, content)
<1>1. PICK lv : Shape(st.mem, st.used, st.tables, lv) BY Zenon DEF Tidy
<1>2. st \in StateRecs BY Zenon DEF Tidy
<1>3. m2 = [f \in Frames |-> IF f \in hit THEN content ELSE st.mem[f]] BY Zenon DEF Fill
<1>4. ASSUME NEW t \in st.tables PROVE t \notin hit
  <2>1. t # 0 BY ZenonT(60), <1>1 DEF Shape
  <2>2. ASSUME NEW p \in v .. v + n - 1 PROVE Translate(st.mem, p) # t
    <3>1. p \in HighPages BY Zenon
    <3>2. Translate(st.mem, p) # 0 => Translate(st.mem, p) \notin st.tables
      BY Zenon, <1>1, <3>1, HighPrivate
    <3> QED BY Zenon, <2>1, <3>2
  <2> QED BY Zenon, <2>2
<1> HIDE DEF hit, m2
<1>5. m2 \in [Frames -> [Slots -> PageEntries]]
  <2>1. \A f \in Frames : st.mem[f] \in [Slots -> PageEntries] BY <1>2 DEF StateRecs
  <2> QED BY ZenonT(60), <1>3, <2>1
<1>6. \A t \in st.tables : m2[t] = st.mem[t]
  <2>1. st.tables \subseteq Frames BY <1>2 DEF StateRecs
  <2> QED BY <1>3, <1>4, <2>1
<1>7. Shape(m2, st.used, st.tables, lv) BY Zenon, <1>1, <1>5, <1>6, DataShape
<1> DEFINE st2 == [mem |-> m2, used |-> st.used, tables |-> st.tables]
<1>8. st2 \in StateRecs /\ st2.mem = m2 /\ st2.used = st.used /\ st2.tables = st.tables
  BY <1>2, <1>5 DEF StateRecs
<1> HIDE DEF st2
<1>9. Tidy(st2) BY Zenon, <1>7, <1>8 DEF Tidy
<1> QED BY Zenon, <1>9 DEF st2, m2

\* unmap_page clears a leaf.
LEMMA UnmapTidy ==
  ASSUME NEW st, Tidy(st), NEW v \in HighPages
  PROVE  Tidy(unmap_page(st, v))
<1> DEFINE m == st.mem
           pt == TableOf(m, v)
           i0 == Index(v, 0)
           t2 == m[Pml4][Index(v, 3)].to
           t1 == m[t2][Index(v, 2)].to
           t0 == m[t1][Index(v, 1)].to
           st2 == [st EXCEPT !.mem[pt][i0] = None]
<1>1. PICK lv : Shape(m, st.used, st.tables, lv) BY Zenon DEF Tidy
<1>2. st \in StateRecs /\ i0 \in Slots BY HighIndex, IndexInSlots DEF Tidy
<1>3. CASE pt = 0
  <2>1. unmap_page(st, v) = st BY Zenon, <1>3 DEF unmap_page
  <2> QED BY Zenon, <2>1
<1>4. CASE pt # 0
  <2>1. unmap_page(st, v) = st2 BY Zenon, <1>4 DEF unmap_page
  <2>2. Path(m, v, t2, t1, t0) /\ pt = t0
    BY Zenon, <1>4 DEF TableOf, walk_readonly, Path
  <2>3. OnPath(m, st.tables, lv, v, t2, t1, t0) BY Zenon, <1>1, <2>2, WalkDown
  <2>4. pt \in st.tables /\ lv[pt] = 0 BY Zenon, <2>2, <2>3 DEF OnPath
  <2> DEFINE m2 == [m EXCEPT ![pt][i0] = None]
  <2>5. None \in PageEntries /\ ~None.present BY BootFrames DEF None, PageEntries
  <2> HIDE DEF pt, i0
  <2>6. Shape(m2, st.used, st.tables, lv) BY Zenon, <1>1, <1>2, <2>4, <2>5, LeafShape
  <2>7. st2 \in StateRecs /\ st2.mem = m2 /\ st2.used = st.used /\ st2.tables = st.tables
    <3>1. m2 \in [Frames -> [Slots -> PageEntries]] BY ZenonT(60), <2>6 DEF Shape, BootMap
    <3> QED BY Zenon, <1>2, <3>1 DEF StateRecs
  <2> HIDE DEF st2, m2
  <2> QED BY Zenon, <2>1, <2>6, <2>7 DEF Tidy
<1> QED BY Zenon, <1>3, <1>4

-----------------------------------------------------------------------------
(* Below 4 GB: the walk takes a large page for a table and writes into its *)
(* first frame, which is none of the boot tables.                          *)

LowState(st) == st \in StateRecs /\ BootMap(st.mem) /\ KernelFrames \subseteq st.used

\* A write to a frame that is no boot table leaves the boot map alone.
LEMMA BootMapKept ==
  ASSUME NEW m, BootMap(m), NEW m2 \in [Frames -> [Slots -> PageEntries]],
         m2[Pml4] = m[Pml4], m2[Pdpt] = m[Pdpt], m2[Pd] = m[Pd]
  PROVE  BootMap(m2)
BY Zenon DEF BootMap

LEMMA MapLow ==
  ASSUME NEW st, LowState(st), NEW v \in Frames, NEW f \in Frames
  PROVE  LowState(map_page(st, v, f))
<1> DEFINE i == Index(v, 1)
           j == Index(v, 0)
           last == [st EXCEPT !.mem[i * K][j] = Small(f)]
<1>1. v \in Nat /\ Index(v, 3) = 0 /\ Index(v, 2) = 0 BY LowIndex
<1>2. i \in Slots /\ j \in Slots BY <1>1, IndexInSlots
<1>3. st.mem[Pml4][0] = Small(Pdpt) /\ st.mem[Pdpt][0] = Small(Pd) /\ st.mem[Pd][i] = Large(i * K)
  BY Zenon, <1>2 DEF LowState, BootMap
<1> HIDE DEF i, j
<1>4. /\ walk_or_alloc(st, Pml4, 0) = [st |-> st, next |-> Pdpt]
      /\ walk_or_alloc(st, Pdpt, 0) = [st |-> st, next |-> Pd]
      /\ walk_or_alloc(st, Pd, i) = [st |-> st, next |-> i * K]
  BY <1>3 DEF walk_or_alloc, LeadsOn, Small, Large
<1>5. /\ walk_or_alloc(st, Pml4, 0).st = st /\ walk_or_alloc(st, Pml4, 0).next = Pdpt
      /\ walk_or_alloc(st, Pdpt, 0).st = st /\ walk_or_alloc(st, Pdpt, 0).next = Pd
      /\ walk_or_alloc(st, Pd, i).st = st /\ walk_or_alloc(st, Pd, i).next = i * K
  BY <1>4
<1>6. map_page(st, v, f) = IF i * K = 0 THEN st ELSE last
  <2> DEFINE w3 == walk_or_alloc(st, Pml4, Index(v, 3))
             w2 == walk_or_alloc(w3.st, w3.next, Index(v, 2))
             w1 == walk_or_alloc(w2.st, w2.next, i)
  <2>1. w3.st = st /\ w3.next = Pdpt BY Zenon, <1>1, <1>5
  <2>2. w2.st = st /\ w2.next = Pd BY Zenon, <1>1, <1>5, <2>1
  <2>3. w1.st = st /\ w1.next = i * K BY Zenon, <1>5, <2>2
  <2>4. map_page(st, v, f) = CASE w3.next = 0 -> w3.st
                               [] w3.next # 0 /\ w2.next = 0 -> w2.st
                               [] w3.next # 0 /\ w2.next # 0 /\ w1.next = 0 -> w1.st
                               [] OTHER -> [w1.st EXCEPT !.mem[w1.next][j] = Small(f)]
    BY Zenon DEF map_page, i, j
  <2> HIDE DEF w3, w2, w1
  <2>5. Pdpt # 0 /\ Pd # 0 BY BootFrames
  <2> QED BY <2>1, <2>2, <2>3, <2>4, <2>5
<1>7. CASE i * K = 0 BY Zenon, <1>6, <1>7
<1>8. CASE i * K # 0
  <2>1. i \in 1 .. K - 1 BY <1>2, <1>8, VmmAssumption DEF Slots
  <2>2. i * K # Pml4 /\ i * K # Pdpt /\ i * K # Pd BY ZenonT(60), <2>1, SpaceAssumption
  <2> DEFINE g == i * K
             m2 == [st.mem EXCEPT ![g][j] = Small(f)]
  <2>3. st \in StateRecs /\ BootMap(st.mem) /\ KernelFrames \subseteq st.used BY Zenon DEF LowState
  <2>4. Small(f) \in PageEntries BY DEF Small, PageEntries
  <2> HIDE DEF g
  <2>5. m2 \in [Frames -> [Slots -> PageEntries]] BY Zenon, <1>2, <2>3, <2>4 DEF StateRecs
  <2>6. m2[Pml4] = st.mem[Pml4] /\ m2[Pdpt] = st.mem[Pdpt] /\ m2[Pd] = st.mem[Pd]
    BY ZenonT(60), <2>2, <2>3, BootFrames DEF StateRecs, g
  <2>7. BootMap(m2) BY Zenon, <2>3, <2>5, <2>6, BootMapKept
  <2>8. last \in StateRecs /\ last.mem = m2 /\ last.used = st.used BY Zenon, <2>3, <2>5 DEF StateRecs, g
  <2> HIDE DEF last, m2
  <2> QED BY Zenon, <1>6, <1>8, <2>3, <2>7, <2>8 DEF LowState
<1> QED BY <1>7, <1>8

\* alloc_page, and a memset of pages below 4 GB that are no boot table.
LEMMA TakeLow ==
  ASSUME NEW st, LowState(st), NEW f \in Frames
  PROVE  LowState(TakeFrame(st, f))
BY DEF LowState, TakeFrame, StateRecs

LEMMA FillLow ==
  ASSUME NEW st, LowState(st), NEW v \in Nat, NEW n \in Nat, v + n <= Identity, MMAP_START <= v,
         NEW content \in [Slots -> PageEntries]
  PROVE  LowState([mem |-> Fill(st.mem, v, n, content), used |-> st.used, tables |-> st.tables])
<1> DEFINE hit == {Translate(st.mem, p) : p \in v .. v + n - 1}
           m2 == Fill(st.mem, v, n, content)
<1>1. st \in StateRecs /\ BootMap(st.mem) /\ KernelFrames \subseteq st.used BY Zenon DEF LowState
<1>2. m2 = [f \in Frames |-> IF f \in hit THEN content ELSE st.mem[f]] BY Zenon DEF Fill
<1>3. hit \subseteq v .. v + n - 1
  <2>1. ASSUME NEW p \in v .. v + n - 1 PROVE Translate(st.mem, p) = p
    <3>1. p \in Frames BY VmmAssumption DEF Frames, Identity
    <3> QED BY Zenon, <1>1, <3>1, BootMapTranslates
  <2> QED BY Zenon, <2>1
<1>4. Pml4 \notin hit /\ Pdpt \notin hit /\ Pd \notin hit
  BY <1>3, BootFrames, SpaceAssumption, VmmAssumption DEF Frames
<1> HIDE DEF hit, m2
<1>5. m2 \in [Frames -> [Slots -> PageEntries]]
  <2>1. \A f \in Frames : st.mem[f] \in [Slots -> PageEntries] BY Zenon, <1>1 DEF StateRecs
  <2> QED BY <1>2, <2>1
<1>6. m2[Pml4] = st.mem[Pml4] /\ m2[Pdpt] = st.mem[Pdpt] /\ m2[Pd] = st.mem[Pd]
  BY ZenonT(60), <1>2, <1>4, BootFrames
<1>7. BootMap(m2) BY Zenon, <1>1, <1>5, <1>6, BootMapKept
<1> DEFINE st2 == [mem |-> m2, used |-> st.used, tables |-> st.tables]
<1>8. st2 \in StateRecs /\ st2.mem = m2 /\ st2.used = st.used BY <1>1, <1>5 DEF StateRecs
<1> HIDE DEF st2
<1>9. LowState(st2) BY Zenon, <1>1, <1>7, <1>8 DEF LowState
<1> QED BY Zenon, <1>9 DEF st2, m2

-----------------------------------------------------------------------------
(* The loop of the callers.                                                *)

\* After i pages, on one side of 4 GB.
RunOk(r, low, i) ==
  /\ r.done \in 0 .. i
  /\ IF low THEN LowState(r.st) /\ DOMAIN r.got \subseteq Frames
            ELSE Tidy(r.st) /\ DOMAIN r.got \subseteq HighPages

LEMMA OnePageOk ==
  ASSUME NEW r, NEW low, NEW i \in Nat \ {0}, RunOk(r, low, i - 1), NEW v \in Nat, NEW touch,
         v + i - 1 \in IF low THEN Frames ELSE HighPages
  PROVE  RunOk(MapOne(r, v, i, touch), low, i)
<1> DEFINE p == v + i - 1
           f == LowestFree(r.st.used)
           st1 == TakeFrame(r.st, f)
           st == map_page(st1, p, f)
           done == IF touch /\ ~AllMapped(st.mem, p, 1) THEN r.done ELSE i
           got == [q \in DOMAIN r.got \cup {p} |-> IF q = p THEN f ELSE r.got[q]]
           r2 == [st |-> st, done |-> done, got |-> got]
<1>1. MapOne(r, v, i, touch) = IF r.done < i - 1 \/ f = 0 THEN r ELSE r2 BY Zenon DEF MapOne
<1>2. r.done \in 0 .. i - 1 BY Zenon DEF RunOk
<1>3. CASE r.done < i - 1 \/ f = 0
  <2>1. r.done \in 0 .. i BY <1>2
  <2> QED BY Zenon, <1>1, <1>3, <2>1 DEF RunOk
<1>4. CASE ~(r.done < i - 1 \/ f = 0)
  <2>1. done \in 0 .. i /\ i \in 0 .. i BY <1>2
  <2>2. DOMAIN got = DOMAIN r.got \cup {p} OBVIOUS
  <2> HIDE DEF p, f, done, got
  <2>3. CASE low
    <3>1. LowState(r.st) /\ DOMAIN r.got \subseteq Frames /\ p \in Frames
      BY Zenon, <2>3 DEF RunOk, p
    <3>2. f \in Frames
      <4>1. KernelFrames \subseteq r.st.used BY Zenon, <3>1 DEF LowState
      <4> QED BY Zenon, <1>4, <4>1, LowestFreeIsFree DEF f
    <3>3. LowState(st1) BY Zenon, <3>1, <3>2, TakeLow
    <3> HIDE DEF st1
    <3>4. LowState(st) BY Zenon, <3>1, <3>2, <3>3, MapLow
    <3> HIDE DEF st
    <3>5. DOMAIN got \subseteq Frames BY Zenon, <2>2, <3>1
    <3>6. r2.st = st /\ r2.done = done /\ r2.got = got OBVIOUS
    <3> HIDE DEF r2
    <3> QED BY Zenon, <1>1, <1>4, <2>1, <2>3, <3>4, <3>5, <3>6 DEF RunOk
  <2>4. CASE ~low
    <3>1. Tidy(r.st) /\ DOMAIN r.got \subseteq HighPages /\ p \in HighPages
      BY Zenon, <2>4 DEF RunOk, p
    <3>2. Tidy(st1) /\ Spare(st1.mem, st1.used, st1.tables, f)
      BY Zenon, <1>4, <3>1, TakeTidy DEF f
    <3> HIDE DEF st1
    <3>3. Tidy(st) BY Zenon, <3>1, <3>2, MapTidy
    <3> HIDE DEF st
    <3>4. DOMAIN got \subseteq HighPages BY <2>2, <3>1
    <3>5. r2.st = st /\ r2.done = done /\ r2.got = got OBVIOUS
    <3> HIDE DEF r2
    <3> QED BY Zenon, <1>1, <1>4, <2>1, <2>4, <3>3, <3>4, <3>5 DEF RunOk
  <2> QED BY Zenon, <2>3, <2>4
<1> QED BY Zenon, <1>3, <1>4

\* The recursive function of MapRun exists, and so is what its equation says.
IsRun(run, n, v, touch) ==
  run = [i \in 0 .. n |-> IF i = 0 THEN NoneMapped ELSE MapOne(run[i - 1], v, i, touch)]

LEMMA RunExists ==
  ASSUME NEW n \in Nat, NEW v, NEW touch
  PROVE  \E run : IsRun(run, n, v, touch)
<1> DEFINE Bad == {k \in Nat : ~\E run : IsRun(run, k, v, touch)}
<1> SUFFICES ASSUME Bad # {} PROVE FALSE BY Zenon
<1>1. Bad \in SUBSET Nat OBVIOUS
<1>2. PICK k \in Bad : \A m \in Bad : k <= m BY Zenon, <1>1, LeastIn
<1>3. k \in Nat /\ ~\E run : IsRun(run, k, v, touch) BY Zenon
<1>4. CASE k = 0
  <2> DEFINE g == [i \in 0 .. 0 |-> NoneMapped]
  <2>1. IsRun(g, 0, v, touch) BY DEF IsRun
  <2> QED BY Zenon, <1>3, <1>4, <2>1
<1>5. CASE k # 0
  <2>1. k - 1 \in Nat /\ ~(k <= k - 1) /\ k \in 0 .. k BY <1>3, <1>5
  <2>2. PICK run : IsRun(run, k - 1, v, touch) BY Zenon, <1>2, <2>1
  <2> DEFINE one(r, i) == MapOne(r, v, i, touch)
             g == [i \in 0 .. k |-> IF i = k THEN one(run[k - 1], k) ELSE run[i]]
  <2>3. run = [i \in 0 .. k - 1 |-> IF i = 0 THEN NoneMapped ELSE one(run[i - 1], i)]
    BY Zenon, <2>2 DEF IsRun
  <2> HIDE DEF one
  <2>4. \A i \in 0 .. k - 1 : run[i] = IF i = 0 THEN NoneMapped ELSE one(run[i - 1], i) BY <2>3
  <2>5. \A i \in 0 .. k : i # 0 => i - 1 \in 0 .. k /\ i - 1 # k BY <1>3
  <2>6. \A i \in 0 .. k : i # k => i \in 0 .. k - 1 BY <1>3
  <2>7. ASSUME NEW i \in 0 .. k PROVE g[i] = IF i = 0 THEN NoneMapped ELSE one(g[i - 1], i)
    <3>1. CASE i = k
      <4>1. g[k] = one(run[k - 1], k) /\ g[k - 1] = run[k - 1] BY <1>5, <2>1, <2>5
      <4> QED BY Zenon, <1>5, <3>1, <4>1
    <3>2. CASE i # k
      <4>1. g[i] = run[i] /\ (i # 0 => g[i - 1] = run[i - 1]) BY <2>5, <3>2
      <4> QED BY Zenon, <2>4, <2>6, <3>2, <4>1
    <3> QED BY Zenon, <3>1, <3>2
  <2>8. g = [i \in 0 .. k |-> g[i]] OBVIOUS
  <2> HIDE DEF g
  <2>9. g = [i \in 0 .. k |-> IF i = 0 THEN NoneMapped ELSE one(g[i - 1], i)] BY Zenon, <2>7, <2>8
  <2>10. IsRun(g, k, v, touch) BY Zenon, <2>9 DEF IsRun, one
  <2> QED BY Zenon, <1>3, <2>10
<1> QED BY Zenon, <1>4, <1>5

LEMMA RunIsOk ==
  ASSUME NEW n \in Nat, NEW v \in Nat, NEW touch, NEW low, RunOk(NoneMapped, low, 0),
         \A p \in v .. v + n - 1 : p \in IF low THEN Frames ELSE HighPages
  PROVE  RunOk(MapRun(v, n, touch), low, n)
<1> DEFINE run == CHOOSE g : IsRun(g, n, v, touch)
<1>1. MapRun(v, n, touch) = run[n] BY Zenon DEF MapRun, IsRun
<1>2. IsRun(run, n, v, touch) BY Zenon, RunExists
<1> HIDE DEF run
<1>3. ASSUME NEW i \in 0 .. n
      PROVE  run[i] = IF i = 0 THEN NoneMapped ELSE MapOne(run[i - 1], v, i, touch)
  <2> DEFINE one(r, j) == MapOne(r, v, j, touch)
  <2>1. run = [j \in 0 .. n |-> IF j = 0 THEN NoneMapped ELSE one(run[j - 1], j)]
    BY Zenon, <1>2 DEF IsRun
  <2> HIDE DEF one
  <2>2. run[i] = IF i = 0 THEN NoneMapped ELSE one(run[i - 1], i) BY <2>1
  <2> QED BY Zenon, <2>2 DEF one
<1> DEFINE Bad == {i \in 0 .. n : ~RunOk(run[i], low, i)}
<1>4. Bad = {}
  <2> SUFFICES ASSUME Bad # {} PROVE FALSE OBVIOUS
  <2>1. Bad \in SUBSET Nat OBVIOUS
  <2>2. PICK i \in Bad : \A m \in Bad : i <= m BY Zenon, <2>1, LeastIn
  <2>3. i \in 0 .. n /\ ~RunOk(run[i], low, i) BY Zenon
  <2>4. i # 0 BY Zenon, <1>3, <2>3
  <2>5. i - 1 \in 0 .. n /\ ~(i <= i - 1) /\ i \in Nat \ {0} /\ v + i - 1 \in v .. v + n - 1
    BY <2>3, <2>4
  <2>6. RunOk(run[i - 1], low, i - 1) BY Zenon, <2>2, <2>5
  <2>7. v + i - 1 \in IF low THEN Frames ELSE HighPages BY Zenon, <2>5
  <2>8. RunOk(MapOne(run[i - 1], v, i, touch), low, i) BY Zenon, <2>5, <2>6, <2>7, OnePageOk
  <2> QED BY Zenon, <1>3, <2>3, <2>4, <2>8
<1>5. n \in 0 .. n OBVIOUS
<1> QED BY Zenon, <1>1, <1>4, <1>5

-----------------------------------------------------------------------------
(* The invariant: each side of 4 GB by itself.  A program that mixes them  *)
(* can have a frame of a large page both as its table and as memory.       *)

HighInv ==
  Tidy(State) /\ DOMAIN asked \subseteq HighPages /\ CURRENT_BRK \in 0 .. K * K * K * K * PageBytes

LowInv ==
  /\ LowState(State) /\ DOMAIN asked \subseteq Frames
  /\ HEAP_MAPPED \in 0 .. HEAP_PAGES_MAX /\ MMAP_NEXT \in Nat /\ MMAP_START <= MMAP_NEXT

SpaceInv ==
  /\ clients \cap LowClients = {} => HighInv
  /\ clients \cap HighClients = {} => LowInv

LEMMA Contents == Zeroed \in [Slots -> PageEntries] /\ Data \in [Slots -> PageEntries]
<1>1. None \in PageEntries /\ Small(Pml4) \in PageEntries
  BY BootFrames DEF None, Small, PageEntries
<1> HIDE DEF None
<1> QED BY <1>1 DEF Zeroed, Data, Slots

\* What boot.s leaves.
LEMMA BootShape ==
  ASSUME VmmInit
  PROVE  Tidy(State) /\ LowState(State)
<1> DEFINE boot3 == [Zeroed EXCEPT ![0] = Small(Pdpt)]
           boot2 == [Zeroed EXCEPT ![0] = Small(Pd)]
           boot1 == [i \in Slots |-> Large(i * K)]
<1>1. PICK ram \in {Data, Zeroed} : mem = [f \in Frames |-> CASE f = Pml4 -> boot3
                                                               [] f = Pdpt -> boot2
                                                               [] f = Pd -> boot1
                                                               [] OTHER -> ram]
  BY Zenon DEF VmmInit, Slots
<1>2. used = KernelFrames /\ tables = {Pml4, Pdpt, Pd} BY Zenon DEF VmmInit
<1>3. /\ Small(Pdpt) \in PageEntries /\ Small(Pd) \in PageEntries
      /\ \A i \in Slots : Large(i * K) \in PageEntries
  <2>1. \A i \in Slots : i * K \in Frames BY VmmAssumption DEF Slots, Frames
  <2> QED BY <2>1, BootFrames DEF Small, Large, PageEntries
<1>4. boot3 \in [Slots -> PageEntries] /\ boot2 \in [Slots -> PageEntries]
      /\ boot1 \in [Slots -> PageEntries]
  BY Zenon, <1>3, Contents
<1>5. /\ boot3[0] = Small(Pdpt) /\ boot2[0] = Small(Pd)
      /\ \A i \in Slots : boot1[i] = Large(i * K)
      /\ \A i \in Slots \ {0} : boot3[i] = Zeroed[i] /\ boot2[i] = Zeroed[i]
  BY BootFrames, Contents
<1>6. \A i \in Slots : ~Zeroed[i].present BY DEF Zeroed, None, Slots
<1> HIDE DEF boot3, boot2, boot1
<1>7. mem[Pml4] = boot3 /\ mem[Pdpt] = boot2 /\ mem[Pd] = boot1 BY <1>1, BootFrames
<1>8. mem \in [Frames -> [Slots -> PageEntries]] BY <1>1, <1>4, Contents
<1>9. BootMap(mem) BY Zenon, <1>5, <1>7, <1>8 DEF BootMap
<1>10. State \in StateRecs /\ State.mem = mem /\ State.used = used /\ State.tables = tables
  BY Zenon, <1>2, <1>8, BootFrames, VmmAssumption DEF State, StateRecs
<1> DEFINE lv == [t \in tables |-> IF t = Pml4 THEN 3 ELSE IF t = Pdpt THEN 2 ELSE 1]
<1>11. /\ lv \in [tables -> 0 .. 3] /\ Pml4 \in tables /\ Pdpt \in tables /\ Pd \in tables
       /\ lv[Pml4] = 3 /\ lv[Pdpt] = 2 /\ lv[Pd] = 1
  BY <1>2, BootFrames
<1> HIDE DEF lv
<1>12. /\ \A i \in Slots : mem[Pml4][i].present => i = 0
       /\ \A i \in Slots : mem[Pdpt][i].present => i = 0
       /\ mem[Pml4][0] = Small(Pdpt) /\ mem[Pdpt][0] = Small(Pd)
  BY Zenon, <1>5, <1>6, <1>7
<1>13. \A t \in tables \ {Pd} : t = Pml4 \/ t = Pdpt BY <1>2
<1>14. /\ Small(Pdpt).to = Pdpt /\ ~Small(Pdpt).huge
       /\ Small(Pd).to = Pd /\ ~Small(Pd).huge
  BY DEF Small
<1>15. Pdpt \in used /\ Pd \in used /\ Pml4 \in used BY <1>2, VmmAssumption
<1>16. ASSUME NEW t \in tables \ {Pd}, NEW i \in Slots, mem[t][i].present
       PROVE  LeadsDown(mem[t][i], used, tables, lv, t)
  <2>1. i = 0 BY ZenonT(60), <1>12, <1>13, <1>16
  <2>2. CASE t = Pml4 BY <1>11, <1>12, <1>14, <1>15, <2>1, <2>2, BootFrames DEF LeadsDown
  <2>3. CASE t = Pdpt BY <1>11, <1>12, <1>14, <1>15, <2>1, <2>3, BootFrames DEF LeadsDown
  <2> QED BY Zenon, <1>13, <2>2, <2>3
<1>17. OneParent(mem, tables)
  <2> SUFFICES ASSUME NEW t \in tables \ {Pd}, NEW s \in tables \ {Pd}, NEW i \in Slots, NEW j \in Slots,
                      mem[t][i].present, mem[s][j].present, mem[t][i].to = mem[s][j].to
               PROVE  t = s /\ i = j
    BY Zenon DEF OneParent
  <2>1. i = 0 /\ j = 0 BY Zenon, <1>12, <1>13
  <2>2. mem[Pml4][0].to = Pdpt /\ mem[Pdpt][0].to = Pd BY Zenon, <1>12, <1>14
  <2> QED BY Zenon, <1>13, <2>1, <2>2, BootFrames
<1>18. /\ used \subseteq Frames /\ KernelFrames \subseteq used /\ tables \subseteq used
       /\ 0 \notin tables
  BY <1>2, <1>15, BootFrames, VmmAssumption
<1>19. Shape(mem, used, tables, lv) BY Zenon, <1>9, <1>11, <1>16, <1>17, <1>18 DEF Shape
<1> QED BY Zenon, <1>9, <1>10, <1>18, <1>19 DEF Tidy, LowState

LEMMA SpaceInitInv == SpaceInit => SpaceInv
<1> SUFFICES ASSUME SpaceInit PROVE SpaceInv OBVIOUS
<1>1. Tidy(State) /\ LowState(State) BY Zenon, BootShape DEF SpaceInit
<1>2. DOMAIN asked = {} BY Zenon DEF SpaceInit
<1>3. /\ HEAP_MAPPED \in 0 .. HEAP_PAGES_MAX /\ MMAP_NEXT \in Nat /\ MMAP_START <= MMAP_NEXT
      /\ CURRENT_BRK \in 0 .. K * K * K * K * PageBytes
  BY SpaceAssumption, VmmAssumption DEF SpaceInit
<1> QED BY <1>1, <1>2, <1>3 DEF SpaceInv, HighInv, LowInv

\* A caller's loop from the present state, and the state it leaves.
LEMMA LoopHigh ==
  ASSUME HighInv, NEW v \in Nat, NEW n \in Nat, NEW touch,
         \A p \in v .. v + n - 1 : p \in HighPages
  PROVE  RunOk(MapRun(v, n, touch), FALSE, n)
<1>1. NoneMapped.st = State /\ NoneMapped.done = 0 /\ NoneMapped.got = asked BY DEF NoneMapped
<1>2. 0 \in 0 .. 0 OBVIOUS
<1>3. RunOk(NoneMapped, FALSE, 0) BY Zenon, <1>1, <1>2 DEF RunOk, HighInv
<1> QED BY Zenon, <1>3, RunIsOk

LEMMA LoopLow ==
  ASSUME LowInv, NEW v \in Nat, NEW n \in Nat, NEW touch, v + n <= Identity
  PROVE  RunOk(MapRun(v, n, touch), TRUE, n)
<1>1. NoneMapped.st = State /\ NoneMapped.done = 0 /\ NoneMapped.got = asked BY DEF NoneMapped
<1>2. 0 \in 0 .. 0 OBVIOUS
<1>3. RunOk(NoneMapped, TRUE, 0) BY Zenon, <1>1, <1>2 DEF RunOk, LowInv
<1>4. \A p \in v .. v + n - 1 : p \in Frames BY VmmAssumption DEF Frames, Identity
<1> QED BY Zenon, <1>3, <1>4, RunIsOk

LEMMA BecomeHigh ==
  ASSUME NEW r, NEW n, RunOk(r, FALSE, n), NEW m, Become(r, m),
         Tidy([mem |-> m, used |-> r.st.used, tables |-> r.st.tables])
  PROVE  Tidy(State') /\ DOMAIN asked' \subseteq HighPages
<1>1. State' = [mem |-> m, used |-> r.st.used, tables |-> r.st.tables] BY Zenon DEF State, Become
<1>2. Tidy(State') BY Zenon, <1>1
<1> QED BY Zenon, <1>2 DEF RunOk, Become

LEMMA BecomeLow ==
  ASSUME NEW r, NEW n, RunOk(r, TRUE, n), NEW m, Become(r, m),
         LowState([mem |-> m, used |-> r.st.used, tables |-> r.st.tables])
  PROVE  LowState(State') /\ DOMAIN asked' \subseteq Frames
<1>1. State' = [mem |-> m, used |-> r.st.used, tables |-> r.st.tables] BY Zenon DEF State, Become
<1>2. LowState(State') BY Zenon, <1>1
<1> QED BY Zenon, <1>2 DEF RunOk, Become

\* A state is the record of its parts.
LEMMA Parts ==
  ASSUME NEW st \in StateRecs
  PROVE  [mem |-> st.mem, used |-> st.used, tables |-> st.tables] = st
BY DEF StateRecs

\* memset of what mmap handed out, if all of it was mapped.
LEMMA MmapHigh ==
  ASSUME HighInv, NEW v \in HighPages, MmapAt(v, 1)
  PROVE  Tidy(State') /\ DOMAIN asked' \subseteq HighPages /\ CURRENT_BRK' = CURRENT_BRK
<1> DEFINE r == MapRun(v, 1, FALSE)
           ok == r.done = 1 /\ AllMapped(r.st.mem, v, 1)
           m == IF ok THEN Fill(r.st.mem, v, 1, Zeroed) ELSE r.st.mem
<1>1. v \in Nat /\ 1 \in Nat BY VmmAssumption DEF HighPages, Identity
<1>2. \A p \in v .. v + 1 - 1 : p \in HighPages BY <1>1
<1>3. RunOk(r, FALSE, 1) BY Zenon, <1>1, <1>2, LoopHigh
<1>4. Become(r, m) /\ CURRENT_BRK' = CURRENT_BRK BY Zenon DEF MmapAt
<1> HIDE DEF r, ok
<1>5. Tidy(r.st) BY Zenon, <1>3 DEF RunOk
<1>6. Tidy([mem |-> Fill(r.st.mem, v, 1, Zeroed), used |-> r.st.used, tables |-> r.st.tables])
  BY Zenon, <1>2, <1>5, Contents, FillTidy
<1>7. Tidy([mem |-> r.st.mem, used |-> r.st.used, tables |-> r.st.tables])
  BY Zenon, <1>5, Parts DEF Tidy
<1>8. Tidy([mem |-> m, used |-> r.st.used, tables |-> r.st.tables]) BY Zenon, <1>6, <1>7
<1> HIDE DEF m
<1> QED BY Zenon, <1>3, <1>4, <1>8, BecomeHigh

LEMMA MmapLow ==
  ASSUME LowInv, NEW n \in Nat, MMAP_NEXT + n <= Identity, MmapAt(MMAP_NEXT, n)
  PROVE  LowState(State') /\ DOMAIN asked' \subseteq Frames /\ HEAP_MAPPED' = HEAP_MAPPED
<1> DEFINE v == MMAP_NEXT
           r == MapRun(v, n, FALSE)
           ok == r.done = n /\ AllMapped(r.st.mem, v, n)
           m == IF ok THEN Fill(r.st.mem, v, n, Zeroed) ELSE r.st.mem
<1>1. v \in Nat /\ MMAP_START <= v BY Zenon DEF LowInv
<1>2. RunOk(r, TRUE, n) BY Zenon, <1>1, LoopLow
<1>3. Become(r, m) /\ HEAP_MAPPED' = HEAP_MAPPED BY Zenon DEF MmapAt
<1> HIDE DEF r, ok
<1>4. LowState(r.st) BY Zenon, <1>2 DEF RunOk
<1>5. LowState([mem |-> Fill(r.st.mem, v, n, Zeroed), used |-> r.st.used, tables |-> r.st.tables])
  BY Zenon, <1>1, <1>4, Contents, FillLow
<1>6. LowState([mem |-> r.st.mem, used |-> r.st.used, tables |-> r.st.tables])
  BY Zenon, <1>4, Parts DEF LowState
<1>7. LowState([mem |-> m, used |-> r.st.used, tables |-> r.st.tables]) BY Zenon, <1>5, <1>6
<1> HIDE DEF m
<1> QED BY Zenon, <1>2, <1>3, <1>7, BecomeLow

\* Cancelling a factor.
LEMMA Cancel ==
  ASSUME NEW x \in Nat, NEW y \in Nat, NEW P \in Nat, x * P < y * P + P
  PROVE  x <= y
<1> SUFFICES ASSUME ~(x <= y) PROVE FALSE OBVIOUS
<1>1. PICK d \in Nat : x = y + 1 + d
  <2>1. x - y - 1 \in Nat /\ x = y + 1 + (x - y - 1) OBVIOUS
  <2> QED BY <2>1
<1>2. x * P = y * P + P + d * P /\ d * P \in Nat /\ y * P \in Nat BY <1>1
<1> DEFINE a == y * P
           b == d * P
<1>3. a \in Nat /\ b \in Nat /\ a + P + b < a + P BY <1>2
<1> HIDE DEF a, b
<1> QED BY <1>3

\* Rounding an address up to a page.
LEMMA RoundUp ==
  ASSUME NEW P \in Nat \ {0}, NEW a \in Nat, NEW b \in Nat, NEW c \in Nat, a <= b * P, c * P <= a
  PROVE  /\ (a + P - 1) \div P \in Nat
         /\ (a + P - 1) \div P <= b /\ c <= (a + P - 1) \div P
<1> DEFINE n == a + P - 1
           q == n \div P
           r == n % P
<1>1. n \in Nat OBVIOUS
<1>2. q \in Nat /\ r \in 0 .. P - 1 /\ n = P * q + r
  <2> HIDE DEF n
  <2> QED BY <1>1
<1>3. n = a + P - 1 OBVIOUS
<1> HIDE DEF n, q, r
<1>4. P * q = q * P /\ q * P \in Nat /\ b * P \in Nat /\ c * P \in Nat BY <1>2
<1> DEFINE x == q * P
           y == b * P
           z == c * P
<1>5. x \in Nat /\ y \in Nat /\ z \in Nat /\ a + P - 1 = x + r /\ a <= y /\ z <= a
  BY Zenon, <1>2, <1>3, <1>4
<1>6. x < y + P /\ z < x + P
  <2> HIDE DEF x, y, z
  <2> QED BY <1>2, <1>5
<1>7. q <= b /\ c <= q BY <1>2, <1>6, Cancel
<1> QED BY Zenon, <1>2, <1>7 DEF q, n

\* sys_brk maps only pages above 4 GB.
LEMMA BrkPages ==
  ASSUME HighInv, NEW addr \in Breaks, addr >= CURRENT_BRK, addr >= Identity * PageBytes
  PROVE  /\ BrkFirst \in Nat /\ BrkEnd(addr) - BrkFirst \in Nat
         /\ \A p \in BrkFirst .. BrkFirst + (BrkEnd(addr) - BrkFirst) - 1 : p \in HighPages
<1> DEFINE B == K * K * K * K
           P == PageBytes
           c == CURRENT_BRK
           d == c \div P
           e == BrkEnd(addr)
<1>1. B \in Nat /\ P \in Nat \ {0} /\ Identity \in Nat
  BY VmmAssumption, SpaceAssumption DEF Identity
<1>2. B * P \in Nat BY <1>1
<1>3. addr \in 0 .. B * P /\ c \in 0 .. B * P BY SpaceAssumption DEF HighInv
<1>4. addr \in Nat /\ c \in Nat /\ addr <= B * P
  <2> HIDE DEF B, P, c
  <2> QED BY <1>2, <1>3
<1>5. d \in Nat /\ P * d <= c
  <2> HIDE DEF B, P, c
  <2> QED BY <1>1, <1>4
<1>6. d * P <= addr
  <2> HIDE DEF B, d
  <2>1. P * d = d * P /\ d * P \in Nat BY <1>1, <1>5
  <2> QED BY <1>4, <1>5, <2>1
<1>7. e = (addr + P - 1) \div P BY DEF BrkEnd
<1> HIDE DEF B, P, c, d, e
<1>8. e \in Nat /\ e <= B /\ d <= e BY Zenon, <1>1, <1>4, <1>5, <1>6, <1>7, RoundUp
<1>9. Identity <= e BY <1>1, <1>4, <1>7, RoundUp DEF P
<1>10. BrkFirst = IF d < Identity THEN Identity ELSE d BY Zenon DEF BrkFirst, d, c, P
<1>11. HighPages = Identity .. B - 1 BY DEF HighPages, B
<1>12. BrkFirst \in Nat /\ Identity <= BrkFirst /\ BrkFirst <= e BY <1>1, <1>5, <1>8, <1>9, <1>10
<1>13. BrkFirst \in Nat /\ e - BrkFirst \in Nat
       /\ \A p \in BrkFirst .. BrkFirst + (e - BrkFirst) - 1 : p \in HighPages
  BY <1>1, <1>8, <1>11, <1>12
<1> QED BY ZenonT(60), <1>13 DEF e

\* One lemma per action: both sides of the invariant.
LEMMA ModuleStep ==
  ASSUME SpaceInv, NEW v \in ModulePages, map_module(v)
  PROVE  SpaceInv'
<1>1. "boot" \in clients' /\ clients' = clients BY Zenon DEF map_module, Runs
<1>2. ASSUME clients \cap HighClients = {} PROVE LowInv'
  <2> DEFINE st == map_page(State, v, v)
  <2>1. LowInv BY Zenon, <1>2 DEF SpaceInv
  <2>2. v \in Frames BY SpaceAssumption
  <2>3. LowState(st) BY Zenon, <2>1, <2>2, MapLow DEF LowInv
  <2>4. /\ mem' = st.mem /\ used' = st.used /\ tables' = st.tables
        /\ UNCHANGED <<HEAP_MAPPED, MMAP_NEXT, CURRENT_BRK, halted, asked>>
    BY Zenon DEF map_module
  <2> HIDE DEF st
  <2>5. State' = st BY Zenon, <2>3, <2>4, Parts DEF State, LowState
  <2> QED BY <2>1, <2>3, <2>4, <2>5 DEF LowInv
<1> QED BY Zenon, <1>1, <1>2 DEF SpaceInv, LowClients

LEMMA HeapStep ==
  ASSUME SpaceInv, expand_heap
  PROVE  SpaceInv'
<1> DEFINE v == HEAP_START_PAGE + HEAP_MAPPED
           r == MapRun(v, 1, FALSE)
<1>1. "heap" \in clients' /\ clients' = clients BY Zenon DEF expand_heap, Runs
<1>2. ASSUME clients \cap HighClients = {} PROVE LowInv'
  <2>1. LowInv BY Zenon, <1>2 DEF SpaceInv
  <2>2. HEAP_MAPPED \in Nat /\ HEAP_MAPPED < HEAP_PAGES_MAX BY <2>1 DEF LowInv, expand_heap
  <2>3. v \in Nat /\ 1 \in Nat /\ v + 1 <= Identity
    BY <2>2, SpaceAssumption, VmmAssumption DEF Identity
  <2>4. /\ Become(r, r.st.mem) /\ HEAP_MAPPED' = HEAP_MAPPED + r.done
        /\ UNCHANGED <<MMAP_NEXT, CURRENT_BRK, halted>>
    BY Zenon DEF expand_heap
  <2> HIDE DEF v
  <2>5. RunOk(r, TRUE, 1) BY Zenon, <2>1, <2>3, LoopLow
  <2> HIDE DEF r
  <2>6. LowState(r.st) /\ r.done \in 0 .. 1 BY Zenon, <2>5 DEF RunOk
  <2>7. LowState([mem |-> r.st.mem, used |-> r.st.used, tables |-> r.st.tables])
    BY Zenon, <2>6, Parts DEF LowState
  <2>8. LowState(State') /\ DOMAIN asked' \subseteq Frames BY Zenon, <2>4, <2>5, <2>7, BecomeLow
  <2>9. HEAP_MAPPED' \in 0 .. HEAP_PAGES_MAX BY <2>2, <2>4, <2>6, SpaceAssumption
  <2> QED BY <2>1, <2>4, <2>8, <2>9 DEF LowInv
<1> QED BY Zenon, <1>1, <1>2 DEF SpaceInv, LowClients

LEMMA MmapStep ==
  ASSUME SpaceInv, NEW n \in 1 .. 2, sys_mmap(n)
  PROVE  SpaceInv'
<1>1. "mmap" \in clients' /\ clients' = clients BY Zenon DEF sys_mmap, Runs
<1>2. ASSUME clients \cap HighClients = {} PROVE LowInv'
  <2>1. LowInv BY Zenon, <1>2 DEF SpaceInv
  <2>2. n \in Nat OBVIOUS
  <2>3. /\ MMAP_NEXT + n <= Identity /\ MmapAt(MMAP_NEXT, n) /\ MMAP_NEXT' = MMAP_NEXT + n
    BY Zenon DEF sys_mmap
  <2>4. LowState(State') /\ DOMAIN asked' \subseteq Frames /\ HEAP_MAPPED' = HEAP_MAPPED
    BY Zenon, <2>1, <2>2, <2>3, MmapLow
  <2>5. MMAP_NEXT' \in Nat /\ MMAP_START <= MMAP_NEXT' BY <2>1, <2>3, SpaceAssumption DEF LowInv
  <2> QED BY <2>1, <2>4, <2>5 DEF LowInv
<1> QED BY Zenon, <1>1, <1>2 DEF SpaceInv, LowClients

LEMMA FixedStep ==
  ASSUME SpaceInv, NEW v \in FixedPages, sys_mmap_fixed(v, 1)
  PROVE  SpaceInv'
<1>1. "fixed" \in clients' /\ clients' = clients BY Zenon DEF sys_mmap_fixed, Runs
<1>2. ASSUME clients \cap LowClients = {} PROVE HighInv'
  <2>1. HighInv BY Zenon, <1>2 DEF SpaceInv
  <2>2. v \in HighPages BY SpaceAssumption
  <2>3. MmapAt(v, 1) BY Zenon DEF sys_mmap_fixed
  <2>4. Tidy(State') /\ DOMAIN asked' \subseteq HighPages /\ CURRENT_BRK' = CURRENT_BRK
    BY Zenon, <2>1, <2>2, <2>3, MmapHigh
  <2> QED BY <2>1, <2>4 DEF HighInv
<1> QED BY Zenon, <1>1, <1>2 DEF SpaceInv, HighClients

LEMMA BrkStep ==
  ASSUME SpaceInv, NEW addr \in Breaks, sys_brk(addr)
  PROVE  SpaceInv'
<1>1. "brk" \in clients' /\ clients' = clients BY Zenon DEF sys_brk, Runs
<1>2. ASSUME clients \cap LowClients = {} PROVE HighInv'
  <2>1. HighInv BY Zenon, <1>2 DEF SpaceInv
  <2>2. addr \in 0 .. K * K * K * K * PageBytes BY SpaceAssumption
  <2>3. CASE addr < Identity * PageBytes
    <3>1. CURRENT_BRK' = addr /\ UNCHANGED <<mem, used, tables, asked>>
      BY Zenon, <2>3 DEF sys_brk
    <3>2. State' = State BY <3>1 DEF State
    <3> QED BY Zenon, <2>1, <2>2, <3>1, <3>2 DEF HighInv
  <2>4. CASE ~(addr < Identity * PageBytes)
    <3> DEFINE n == BrkEnd(addr) - BrkFirst
               r == MapRun(BrkFirst, n, FALSE)
    <3>1. Become(r, r.st.mem) /\ CURRENT_BRK' = IF r.done = n THEN addr ELSE CURRENT_BRK
      BY Zenon, <2>4 DEF sys_brk
    <3>2. addr >= CURRENT_BRK /\ addr >= Identity * PageBytes
      <4>1. addr \in Nat /\ Identity * PageBytes \in Nat
        BY <2>2, VmmAssumption, SpaceAssumption DEF Identity
      <4> QED BY <2>4, <4>1 DEF sys_brk
    <3>3. BrkFirst \in Nat /\ n \in Nat /\ \A p \in BrkFirst .. BrkFirst + n - 1 : p \in HighPages
      BY Zenon, <2>1, <3>2, BrkPages
    <3> HIDE DEF n
    <3>4. RunOk(r, FALSE, n) BY Zenon, <2>1, <3>3, LoopHigh
    <3> HIDE DEF r
    <3>5. Tidy([mem |-> r.st.mem, used |-> r.st.used, tables |-> r.st.tables])
      BY Zenon, <3>4, Parts DEF RunOk, Tidy
    <3>6. Tidy(State') /\ DOMAIN asked' \subseteq HighPages BY Zenon, <3>1, <3>4, <3>5, BecomeHigh
    <3> QED BY Zenon, <2>1, <2>2, <3>1, <3>6 DEF HighInv
  <2> QED BY Zenon, <2>3, <2>4
<1> QED BY Zenon, <1>1, <1>2 DEF SpaceInv, HighClients

LEMMA ElfStep ==
  ASSUME SpaceInv, NEW s \in Segments, elf_load(s[1], s[2])
  PROVE  SpaceInv'
<1> DEFINE v == s[1]
           n == s[2]
           r == MapRun(v, n, TRUE)
           m == Fill(r.st.mem, v, r.done, Data)
           B == K * K * K * K
<1>1. "elf" \in clients' /\ clients' = clients BY Zenon DEF elf_load, Runs
<1>2. ASSUME clients \cap LowClients = {} PROVE HighInv'
  <2>1. HighInv BY Zenon, <1>2 DEF SpaceInv
  <2>2. /\ v >= Identity /\ Become(r, m)
        /\ CURRENT_BRK' = IF r.done = n THEN (v + n) * PageBytes ELSE CURRENT_BRK
    BY Zenon DEF elf_load
  <2>3. v \in Nat /\ n \in Nat /\ v + n <= B BY Zenon, SpaceAssumption
  <2>4. B \in Nat /\ Identity \in Nat /\ HighPages = Identity .. B - 1 /\ PageBytes \in Nat
    BY VmmAssumption, SpaceAssumption DEF HighPages, Identity
  <2>5. CURRENT_BRK \in 0 .. B * PageBytes BY Zenon, <2>1 DEF HighInv
  <2> HIDE DEF v, n, B
  <2>6. \A p \in v .. v + n - 1 : p \in HighPages BY <2>2, <2>3, <2>4
  <2>7. RunOk(r, FALSE, n) BY Zenon, <2>1, <2>3, <2>6, LoopHigh
  <2> HIDE DEF r
  <2>8. Tidy(r.st) /\ r.done \in 0 .. n BY Zenon, <2>7 DEF RunOk
  <2>9. \A p \in v .. v + r.done - 1 : p \in HighPages BY <2>2, <2>3, <2>4, <2>8
  <2>10. Tidy([mem |-> m, used |-> r.st.used, tables |-> r.st.tables])
    BY Zenon, <2>8, <2>9, Contents, FillTidy
  <2> HIDE DEF m
  <2>11. Tidy(State') /\ DOMAIN asked' \subseteq HighPages BY Zenon, <2>2, <2>7, <2>10, BecomeHigh
  <2>12. (v + n) * PageBytes \in 0 .. B * PageBytes
    <3>1. PICK d \in Nat : B = (v + n) + d
      <4>1. B - (v + n) \in Nat /\ B = (v + n) + (B - (v + n)) BY <2>3, <2>4
      <4> QED BY <4>1
    <3> DEFINE w == v + n
    <3>2. w \in Nat BY <2>3
    <3> HIDE DEF w
    <3>3. B * PageBytes = w * PageBytes + d * PageBytes /\ w * PageBytes \in Nat /\ d * PageBytes \in Nat
      BY <2>4, <3>1, <3>2 DEF w
    <3>4. w * PageBytes \in 0 .. B * PageBytes BY <3>3
    <3> QED BY Zenon, <3>4 DEF w
  <2>13. CURRENT_BRK' \in 0 .. B * PageBytes BY Zenon, <2>2, <2>5, <2>12
  <2> QED BY Zenon, <2>11, <2>13 DEF HighInv, B
<1> QED BY Zenon, <1>1, <1>2 DEF SpaceInv, HighClients

LEMMA UnmapStep ==
  ASSUME SpaceInv, NEW v \in FixedPages, Unmap(v)
  PROVE  SpaceInv'
<1> DEFINE st == unmap_page(State, v)
           rest == DOMAIN asked \ {v}
<1>1. /\ v \in DOMAIN asked /\ clients' = clients
      /\ mem' = st.mem /\ asked' = [q \in rest |-> asked[q]]
      /\ UNCHANGED <<used, tables, HEAP_MAPPED, MMAP_NEXT, CURRENT_BRK, halted>>
  BY Zenon DEF Unmap, Runs
<1>2. v \in HighPages BY Zenon, SpaceAssumption
<1>3. ASSUME clients \cap LowClients = {} PROVE HighInv'
  <2>1. HighInv BY Zenon, <1>3 DEF SpaceInv
  <2>2. Tidy(State) BY Zenon, <2>1 DEF HighInv
  <2>3. Tidy(st) BY Zenon, <1>2, <2>2, UnmapTidy
  <2>4. st.used = used /\ st.tables = tables
    <3>1. State.used = used /\ State.tables = tables BY DEF State
    <3>2. \A a, b : [State EXCEPT !.mem[a][b] = None].used = State.used
               /\ [State EXCEPT !.mem[a][b] = None].tables = State.tables
      BY Zenon DEF State
    <3> QED BY Zenon, <3>1, <3>2 DEF unmap_page
  <2> HIDE DEF st
  <2>5. State' = [mem |-> st.mem, used |-> st.used, tables |-> st.tables]
    BY <1>1, <2>4 DEF State
  <2>6. State' = st BY Zenon, <2>3, <2>5, Parts DEF Tidy
  <2>7. DOMAIN asked' \subseteq DOMAIN asked BY <1>1
  <2>8. DOMAIN asked' \subseteq HighPages BY Zenon, <2>1, <2>7 DEF HighInv
  <2> QED BY Zenon, <1>1, <2>1, <2>3, <2>6, <2>8 DEF HighInv
<1>4. ASSUME clients \cap HighClients = {} PROVE FALSE
  <2>1. v \in Frames BY Zenon, <1>1, <1>4 DEF SpaceInv, LowInv
  <2> QED BY <1>2, <2>1, VmmAssumption DEF Frames, HighPages, Identity
<1> QED BY Zenon, <1>1, <1>3, <1>4 DEF SpaceInv

LEMMA SpaceNextInv == SpaceInv /\ [SpaceNext]_space_vars => SpaceInv'
<1> SUFFICES ASSUME SpaceInv, [SpaceNext]_space_vars PROVE SpaceInv' OBVIOUS
<1>1. CASE UNCHANGED space_vars
  <2>1. State' = State BY Zenon, <1>1 DEF State, space_vars
  <2>2. HighInv' = HighInv /\ LowInv' = LowInv
    BY <1>1, <2>1 DEF HighInv, LowInv, space_vars
  <2>3. clients' = clients BY <1>1 DEF space_vars
  <2> QED BY Zenon, <2>2, <2>3 DEF SpaceInv
<1>2. CASE SpaceNext
  BY Zenon, <1>2, ModuleStep, HeapStep, MmapStep, FixedStep, BrkStep, ElfStep, UnmapStep
  DEF SpaceNext
<1> QED BY Zenon, <1>1, <1>2

-----------------------------------------------------------------------------
(* The theorems.                                                           *)

\* Whatever map_page, unmap_page and their callers do, on either side of 4 GB
\* the tables keep their shape.
THEOREM SpaceInvariance == SpaceSpec => []SpaceInv
BY SpaceInitInv, SpaceNextInv, PTL DEF SpaceSpec

\* Nobody's pages above 4 GB share a frame, or are a table or kernel memory:
\* alloc_page gives each table and each page a frame that nothing leads to.
THEOREM PagesAboveExclusive == SpaceSpec => []HighExclusive
<1>1. SpaceInv => HighExclusive
  <2> SUFFICES ASSUME SpaceInv, NEW v \in High, Translate(mem, v) # 0
               PROVE  /\ Translate(mem, v) \notin tables \cup KernelFrames
                      /\ \A w \in High : Translate(mem, w) = Translate(mem, v) => v = w
    BY Zenon DEF HighExclusive
  <2>1. HighInv BY Zenon DEF SpaceInv, High, LowClients
  <2>2. High \subseteq HighPages BY Zenon, <2>1 DEF High, HighInv
  <2>3. State.mem = mem /\ State.used = used /\ State.tables = tables BY DEF State
  <2>4. PICK lv : Shape(mem, used, tables, lv) BY Zenon, <2>1, <2>3 DEF HighInv, Tidy
  <2>5. /\ Translate(mem, v) \notin tables /\ Translate(mem, v) \notin KernelFrames
        /\ \A w \in HighPages : Translate(mem, w) = Translate(mem, v) => v = w
    BY Zenon, <2>2, <2>4, HighPrivate
  <2> QED BY Zenon, <2>2, <2>5
<1> QED BY <1>1, SpaceInvariance, PTL

\* The identity map survives, as long as pages are mapped on one side of 4 GB
\* only: above it by brk, MAP_FIXED and the ELF loader, or below it by the boot
\* modules, the heap and mmap.
THEOREM IdentityMapKept == SpaceSpec => []IdentityKept
<1>1. SpaceInv => IdentityKept
  <2> SUFFICES ASSUME SpaceInv, OneSided, NEW v \in Frames PROVE Translate(mem, v) = v
    BY Zenon DEF IdentityKept
  <2>1. State.mem = mem BY DEF State
  <2>2. BootMap(mem)
    BY Zenon, <2>1 DEF SpaceInv, OneSided, HighInv, LowInv, Tidy, Shape, LowState
  <2> QED BY Zenon, <2>2, BootMapTranslates
<1> QED BY <1>1, SpaceInvariance, PTL

-----------------------------------------------------------------------------
(* The page allocator.                                                     *)

\* Before init() nobody has anything; afterwards owned pages have their bit set
\* and none of them is reserved.
OwnInv ==
  /\ boot # "up" => \A p \in Pages : owner[p] = Nobody
  /\ \A p \in Pages : owner[p] # Nobody => p \in BITMAP
  /\ boot = "start" => reserved = {} /\ FREE_PAGES = 0

PInv == PmmTypeOK /\ CountExact /\ ReservedKept /\ OwnInv

-----------------------------------------------------------------------------
LEMMA PagesFinite == IsFiniteSet(Pages) /\ Cardinality(Pages) = MAX_PAGES
<1>1. 0 \in Int /\ MAX_PAGES - 1 \in Int
  BY PmmAssumption
<1>2. IsFiniteSet(0 .. MAX_PAGES - 1) /\ Cardinality(0 .. MAX_PAGES - 1) = MAX_PAGES
  BY <1>1, FS_Interval, PmmAssumption
<1> QED
  BY <1>2 DEF Pages

\* Splitting a set of pages in two splits its size.
LEMMA SplitCount ==
  ASSUME NEW S \in SUBSET Pages, NEW T
  PROVE  /\ IsFiniteSet(S) /\ Cardinality(S) \in 0 .. MAX_PAGES
         /\ Cardinality(S \ T) \in Nat /\ Cardinality(S \cap T) \in Nat
         /\ Cardinality(S \ T) = Cardinality(S) - Cardinality(S \cap T)
<1>1. IsFiniteSet(S) /\ Cardinality(S) <= MAX_PAGES
  BY PagesFinite, FS_Subset
<1>2. IsFiniteSet(S \ T) /\ IsFiniteSet(S \cap T)
  BY <1>1, FS_Subset
<1>3. Cardinality(S) \in Nat /\ Cardinality(S \ T) \in Nat /\ Cardinality(S \cap T) \in Nat
  BY <1>1, <1>2, FS_CardinalityType
<1>4. Cardinality(S \ T) = Cardinality(S) - Cardinality(S \cap T)
  BY Zenon, <1>1, FS_Difference
<1> QED
  BY <1>1, <1>3, <1>4, PmmAssumption

\* The scan returns a clear bit when there is one.
LEMMA FirstFreeIsFree ==
  ASSUME NEW B, ~(Pages \subseteq B)
  PROVE  FirstFree(B) \in Pages \ B
<1> DEFINE T == Pages \ B
<1>1. T \in SUBSET Nat /\ T # {}
  BY DEF Pages
<1> HIDE DEF T
<1>2. \E x \in T : \A y \in T : x <= y
  BY Zenon, <1>1, LeastIn
<1>3. Min(T) \in T
  BY Zenon, <1>2 DEF Min
<1> QED
  BY <1>3 DEF FirstFree, T

\* Division brackets its dividend.
LEMMA DivBounds ==
  ASSUME NEW n \in Nat, NEW d \in Nat \ {0}
  PROVE  n \div d \in Nat /\ (n \div d) * d <= n /\ n < (n \div d + 1) * d
  OBVIOUS

\* mark_region_used sets the bit of every page that a byte of the range is in.
LEMMA TouchedUsed ==
  ASSUME NEW s \in Nat, NEW e \in Nat, s < e
  PROVE  Touched(<<s, e>>) \subseteq UsedSpan(s, e - s)
<1> SUFFICES ASSUME NEW p \in Pages, p * PAGE_SIZE < e, s < (p + 1) * PAGE_SIZE
             PROVE  p \in UsedSpan(s, e - s)
  BY DEF Touched
<1> DEFINE q == s \div PAGE_SIZE
           t == (e + PAGE_SIZE - 1) \div PAGE_SIZE
<1>1. p \in Nat /\ PAGE_SIZE \in Nat \ {0} /\ e + PAGE_SIZE - 1 \in Nat
  BY PmmAssumption DEF Pages
<1>2. q \in Nat /\ q * PAGE_SIZE <= s
  BY Zenon, <1>1, DivBounds
<1>3. t \in Nat /\ e + PAGE_SIZE - 1 < (t + 1) * PAGE_SIZE
  BY Zenon, <1>1, DivBounds
<1> HIDE DEF q, t
<1>4. q * PAGE_SIZE < (p + 1) * PAGE_SIZE => q <= p
  BY <1>1, <1>2
<1>5. p * PAGE_SIZE < t * PAGE_SIZE => p < t
  BY <1>1, <1>3
<1>6. q <= p
  BY <1>1, <1>2, <1>4
<1>7. (t + 1) * PAGE_SIZE = t * PAGE_SIZE + PAGE_SIZE
  BY <1>1, <1>3
<1>8. p < t
  BY <1>1, <1>3, <1>5, <1>7
<1>9. s + (e - s) + PAGE_SIZE - 1 = e + PAGE_SIZE - 1
  BY <1>1
<1> QED
  BY Zenon, <1>6, <1>8, <1>9 DEF UsedSpan, q, t

-----------------------------------------------------------------------------
LEMMA PmmInitInv == PmmInit => PInv
BY PmmAssumption DEF PmmInit, PInv, PmmTypeOK, CountExact, ReservedKept, OwnInv, Pages, Touched

LEMMA BootInv == ASSUME PInv, init PROVE PInv'
<1> DEFINE avail == Available(map)
           kept == UsedSpan(0, LOW_END) \cup UsedSpan(LOW_END, KERNEL_END - LOW_END)
           bitmap == (Pages \ avail) \cup kept
<1>1. avail \in SUBSET Pages /\ kept \in SUBSET Pages
  BY Zenon DEF Available, FreeSpan, UsedSpan
<1>2. /\ boot = "start" /\ boot' = "reserve" /\ BITMAP' = bitmap
      /\ FREE_PAGES' = Cardinality(avail) - Cardinality(kept \ (Pages \ avail))
      /\ TOTAL_PAGES' = FREE_PAGES' + Cardinality(bitmap)
      /\ reserved' = {<<0, LOW_END>>, <<LOW_END, KERNEL_END>>} /\ UNCHANGED <<map, owner>>
  BY ZenonT(60) DEF init, NewlyUsed
<1>3. 0 \in kept
  <2>1. 0 \div PAGE_SIZE <= 0
    BY PmmAssumption
  <2>2. 0 < (0 + LOW_END + PAGE_SIZE - 1) \div PAGE_SIZE
    BY PmmAssumption
  <2> QED
    BY <2>1, <2>2, PmmAssumption DEF UsedSpan, Pages
<1>4. Pages \ bitmap = avail \ kept /\ kept \ (Pages \ avail) = avail \cap kept
      /\ Pages \cap bitmap = bitmap /\ bitmap \subseteq Pages
  BY ZenonT(60), <1>1
<1> HIDE DEF avail, kept, bitmap
<1>5. FREE_PAGES' = Cardinality(Pages \ bitmap) /\ FREE_PAGES' \in Nat
  <2>1. Cardinality(avail \ kept) = Cardinality(avail) - Cardinality(avail \cap kept)
        /\ Cardinality(avail \ kept) \in Nat
    BY Zenon, <1>1, SplitCount
  <2> QED
    BY Zenon, <1>2, <1>4, <2>1
<1>6. Cardinality(Pages \ bitmap) = MAX_PAGES - Cardinality(bitmap)
      /\ Cardinality(bitmap) \in 0 .. MAX_PAGES
  <2>1. Cardinality(bitmap) \in 0 .. MAX_PAGES
    <3>1. bitmap \in SUBSET Pages
      BY <1>4
    <3> QED
      BY Zenon, <3>1, SplitCount
  <2>2. Cardinality(Pages \ bitmap) = Cardinality(Pages) - Cardinality(Pages \cap bitmap)
    <3>1. Pages \in SUBSET Pages
      BY Zenon
    <3> QED
      BY <3>1, SplitCount
  <2> QED
    BY Zenon, <1>4, <2>1, <2>2, PagesFinite
<1>7. PmmTypeOK'
  BY <1>1, <1>2, <1>4, <1>5, <1>6, PmmAssumption DEF PInv, PmmTypeOK
<1>8. CountExact'
  BY Zenon, <1>2, <1>5 DEF CountExact
<1>9. ReservedKept' /\ OwnInv'
  <2>1. kept \subseteq bitmap
    BY DEF bitmap
  <2>2. \A r \in reserved' : Touched(r) \subseteq kept
    <3>1. Touched(<<0, LOW_END>>) \subseteq UsedSpan(0, LOW_END - 0) /\ LOW_END - 0 = LOW_END
      BY TouchedUsed, PmmAssumption
    <3>2. Touched(<<LOW_END, KERNEL_END>>) \subseteq UsedSpan(LOW_END, KERNEL_END - LOW_END)
      <4>1. CASE LOW_END < KERNEL_END
        BY <4>1, TouchedUsed, PmmAssumption
      <4>2. CASE ~(LOW_END < KERNEL_END)
        BY Zenon, <4>2 DEF Touched
      <4> QED
        BY Zenon, <4>1, <4>2
    <3> QED
      BY Zenon, <1>2, <3>1, <3>2 DEF kept
  <2>3. \A p \in Pages : owner'[p] = Nobody
    BY <1>2 DEF PInv, OwnInv
  <2>4. 0 \in Pages
    BY PmmAssumption DEF Pages
  <2> QED
    BY Zenon, <1>1, <1>2, <1>3, <2>1, <2>2, <2>3, <2>4 DEF OwnInv, ReservedKept
<1> QED
  BY Zenon, <1>7, <1>8, <1>9 DEF PInv

LEMMA ReserveInv ==
  ASSUME PInv, NEW start \in Nat, NEW end \in Nat, reserve_range(start, end) PROVE PInv'
<1> DEFINE span == IF end <= start THEN {} ELSE UsedSpan(start, end - start)
<1>1. span \in SUBSET Pages
  BY Zenon DEF UsedSpan
<1>2. /\ boot = "reserve" /\ BITMAP' = BITMAP \cup span
      /\ FREE_PAGES' = FREE_PAGES - Cardinality(span \ BITMAP)
      /\ reserved' = reserved \cup {<<start, end>>}
      /\ UNCHANGED <<TOTAL_PAGES, boot, map, owner>>
  BY DEF reserve_range, NewlyUsed
<1>0. Touched(<<start, end>>) \subseteq span
  <2>1. CASE start < end
    BY <2>1, TouchedUsed
  <2>2. CASE ~(start < end)
    BY <2>2 DEF Touched
  <2> QED
    BY Zenon, <2>1, <2>2
<1> HIDE DEF span
<1>3. /\ (Pages \ BITMAP) \ span = Pages \ (BITMAP \cup span)
      /\ (Pages \ BITMAP) \cap span = span \ BITMAP
  BY Zenon, <1>1
<1>4. FREE_PAGES = Cardinality(Pages \ BITMAP)
  BY <1>2 DEF PInv, CountExact
<1>5. FREE_PAGES' = Cardinality(Pages \ (BITMAP \cup span))
      /\ Cardinality(Pages \ (BITMAP \cup span)) \in 0 .. MAX_PAGES
  <2>1. Pages \ BITMAP \in SUBSET Pages /\ Pages \ (BITMAP \cup span) \in SUBSET Pages
    OBVIOUS
  <2> QED
    BY ZenonT(60), <1>2, <1>3, <1>4, <2>1, SplitCount
<1>6. PmmTypeOK'
  BY <1>1, <1>2, <1>5 DEF PInv, PmmTypeOK
<1>7. CountExact'
  BY <1>2, <1>5 DEF CountExact
<1>8. ReservedKept' /\ OwnInv'
  <2>1. \A p \in Pages : owner'[p] = Nobody
    BY Zenon, <1>2 DEF PInv, OwnInv
  <2>2. \A r \in reserved' : Touched(r) \subseteq BITMAP'
    BY Zenon, <1>0, <1>2 DEF PInv, ReservedKept
  <2>3. \A r \in reserved' : Touched(r) \subseteq Pages
    BY Zenon DEF Touched
  <2>4. 0 \in BITMAP' /\ 0 \in Pages
    BY <1>2, PmmAssumption DEF PInv, ReservedKept, Pages
  <2> QED
    BY Zenon, <1>2, <2>1, <2>2, <2>3, <2>4 DEF PInv, OwnInv, ReservedKept
<1> QED
  BY Zenon, <1>6, <1>7, <1>8 DEF PInv

LEMMA AllocInv == ASSUME PInv, NEW c \in Clients, alloc_page(c) PROVE PInv'
<1> DEFINE p == FirstFree(BITMAP)
<1>1. p \in Pages \ BITMAP
  BY Zenon, FirstFreeIsFree DEF alloc_page
<1>2. /\ boot = "up" /\ BITMAP' = BITMAP \cup {p} /\ FREE_PAGES' = FREE_PAGES - 1
      /\ owner' = [owner EXCEPT ![p] = c]
      /\ UNCHANGED <<TOTAL_PAGES, boot, map, reserved>>
  BY DEF alloc_page, Take
<1> HIDE DEF p
<1>3. FREE_PAGES = Cardinality(Pages \ BITMAP)
  BY <1>2 DEF PInv, CountExact
<1>4. FREE_PAGES' = Cardinality(Pages \ (BITMAP \cup {p}))
      /\ Cardinality(Pages \ (BITMAP \cup {p})) \in 0 .. MAX_PAGES
  <2>1. Pages \ BITMAP \in SUBSET Pages /\ Pages \ (BITMAP \cup {p}) \in SUBSET Pages
        /\ (Pages \ BITMAP) \ {p} = Pages \ (BITMAP \cup {p})
    OBVIOUS
  <2>2. IsFiniteSet(Pages \ BITMAP)
    BY Zenon, <2>1, SplitCount
  <2>3. Cardinality((Pages \ BITMAP) \ {p}) = Cardinality(Pages \ BITMAP) - 1
    BY Zenon, <1>1, <2>2, FS_RemoveElement
  <2> QED
    BY Zenon, <1>2, <1>3, <2>1, <2>3, SplitCount
<1>5. PmmTypeOK'
  BY ZenonT(60), <1>1, <1>2, <1>4 DEF PInv, PmmTypeOK
<1>6. CountExact'
  BY Zenon, <1>2, <1>4 DEF CountExact
<1>7. ReservedKept' /\ OwnInv'
  BY ZenonT(60), <1>1, <1>2 DEF PInv, PmmTypeOK, OwnInv, ReservedKept, Touched
<1> QED
  BY Zenon, <1>5, <1>6, <1>7 DEF PInv

LEMMA FreeInv == ASSUME PInv, NEW p \in 0 .. MAX_PAGES, free_page(p) PROVE PInv'
<1>1. /\ boot = "up" /\ p \in Pages /\ p # 0 /\ owner[p] # Nobody /\ p \in BITMAP
      /\ BITMAP' = BITMAP \ {p} /\ FREE_PAGES' = FREE_PAGES + 1
      /\ owner' = [owner EXCEPT ![p] = Nobody]
      /\ UNCHANGED <<TOTAL_PAGES, boot, map, reserved>>
  BY DEF free_page, Freeable, PInv, PmmTypeOK
<1>2. FREE_PAGES = Cardinality(Pages \ BITMAP)
  BY <1>1 DEF PInv, CountExact
<1>3. FREE_PAGES' = Cardinality(Pages \ (BITMAP \ {p}))
      /\ Cardinality(Pages \ (BITMAP \ {p})) \in 0 .. MAX_PAGES
  <2>1. Pages \ BITMAP \in SUBSET Pages /\ Pages \ (BITMAP \ {p}) \in SUBSET Pages
        /\ (Pages \ BITMAP) \cup {p} = Pages \ (BITMAP \ {p}) /\ p \notin Pages \ BITMAP
    BY <1>1
  <2>2. IsFiniteSet(Pages \ BITMAP)
    BY Zenon, <2>1, SplitCount
  <2>3. Cardinality((Pages \ BITMAP) \cup {p}) = Cardinality(Pages \ BITMAP) + 1
    BY Zenon, <2>1, <2>2, FS_AddElement
  <2> QED
    BY Zenon, <1>1, <1>2, <2>1, <2>3, SplitCount
<1>4. PmmTypeOK'
  BY Zenon, <1>1, <1>3 DEF PInv, PmmTypeOK
<1>5. CountExact'
  BY <1>1, <1>3 DEF CountExact
<1>6. \A r \in reserved : p \notin Touched(r)
  BY ZenonT(60), <1>1 DEF PInv, ReservedKept
<1>7. ReservedKept' /\ OwnInv'
  BY ZenonT(60), <1>1, <1>6 DEF PInv, PmmTypeOK, OwnInv, ReservedKept, Touched
<1> QED
  BY Zenon, <1>4, <1>5, <1>7 DEF PInv

LEMMA PmmNextInv == PInv /\ [PmmNext]_pmm_vars => PInv'
<1> SUFFICES ASSUME PInv, [PmmNext]_pmm_vars PROVE PInv'
  OBVIOUS
<1>1. CASE init
  BY ZenonT(60), <1>1, BootInv
<1>2. CASE BootDone
  BY ZenonT(60), <1>2 DEF BootDone, PInv, PmmTypeOK, CountExact, ReservedKept, OwnInv
<1>3. ASSUME NEW r \in Ranges, reserve_range(r[1], r[2]) PROVE PInv'
  BY Zenon, <1>3, ReserveInv, PmmAssumption
<1>4. ASSUME NEW c \in Clients, alloc_page(c) PROVE PInv'
  BY <1>4, AllocInv
<1>5. ASSUME NEW p \in 0 .. MAX_PAGES, free_page(p) PROVE PInv'
  BY Zenon, <1>5, FreeInv
<1>6. CASE UNCHANGED pmm_vars
  BY Zenon, <1>6 DEF pmm_vars, PInv, PmmTypeOK, CountExact, ReservedKept, OwnInv
<1> QED
  BY ZenonT(60), <1>1, <1>2, <1>3, <1>4, <1>5, <1>6 DEF PmmNext, alloc_page_fails

-----------------------------------------------------------------------------
\* Every reachable state of the allocator satisfies the inductive invariant.
THEOREM PmmInvariance == PmmSpec => []PInv
BY PmmInitInv, PmmNextInv, PTL DEF PmmSpec

\* FREE_PAGES is always the number of clear bits of the bitmap.
THEOREM CountAlwaysExact == PmmSpec => []CountExact
<1>1. PInv => CountExact
  BY Zenon DEF PInv
<1> QED
  BY <1>1, PmmInvariance, PTL

\* The variables keep their types: the u32 counter never wraps.
THEOREM PmmTypeCorrect == PmmSpec => []PmmTypeOK
<1>1. PInv => PmmTypeOK
  BY DEF PInv
<1> QED
  BY <1>1, PmmInvariance, PTL

\* What init() and kernel_main set aside, page 0 included, is never handed out.
THEOREM ReservedAlwaysKept == PmmSpec => []ReservedKept
<1>1. PInv => ReservedKept
  BY DEF PInv
<1> QED
  BY <1>1, PmmInvariance, PTL

\* alloc_page() never hands out a page that somebody already has.
THEOREM NeverSteals == PmmSpec => NoStealing
<1> DEFINE Kept == \A p \in Pages : owner[p] # Nobody => owner'[p] \in {owner[p], Nobody}
<1>1. PInv /\ [PmmNext]_pmm_vars => Kept
  <2> SUFFICES ASSUME PInv, [PmmNext]_pmm_vars PROVE Kept
    BY Zenon
  <2>1. ASSUME NEW c \in Clients, alloc_page(c) PROVE Kept
    <3>1. FirstFree(BITMAP) \in Pages \ BITMAP
      BY ZenonT(60), <2>1, FirstFreeIsFree DEF alloc_page
    <3> QED
      BY Zenon, <2>1, <3>1 DEF alloc_page, PInv, PmmTypeOK, OwnInv
  <2>2. ASSUME NEW q \in 0 .. MAX_PAGES, free_page(q) PROVE Kept
    BY <2>2 DEF free_page, PInv, PmmTypeOK
  <2>3. CASE UNCHANGED owner
    BY <2>3
  <2> QED
    BY Zenon, <2>1, <2>2, <2>3 DEF PmmNext, init, BootDone, reserve_range, alloc_page_fails, pmm_vars
<1> QED
  BY <1>1, PmmInvariance, PTL DEF PmmSpec, NoStealing

=============================================================================
