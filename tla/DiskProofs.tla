----------------------------- MODULE DiskProofs -----------------------------
(***************************************************************************)
(* An open file of /disk keeps reading what was last written to it, and    *)
(* what is proved of the driver in Fat16Proofs holds under the nodes of    *)
(* fat16_vfs.rs, for every disk, cache size and set of names.              *)
(***************************************************************************)
EXTENDS DiskVfs, Fat16Proofs, FiniteSetTheorems

\* A leaf is given to the SMT solver and then to Zenon, a minute each.
USE SMTT(60), ZenonT(60)

-----------------------------------------------------------------------------
(* 8.3 names.                                                              *)

\* The names on the disk that survive the way through a node: name_from_83,
\* then name_to_83.
Canon == {c \in Names83 : To83(From83(c)) = c}

Letters == DOMAIN Upper

\* The first dot of a name, or the place after its end.
DotAt(name, d) ==
  /\ d \in 1 .. Len(name) + 1
  /\ d <= Len(name) => name[d] = "."
  /\ \A k \in 1 .. d - 1 : name[k] # "."

LEMMA DotUnique ==
  ASSUME NEW name \in Seq(Letters), NEW d, NEW e, DotAt(name, d), DotAt(name, e)
  PROVE  d = e
<1>1. d \in Nat /\ e \in Nat /\ Len(name) \in Nat BY DEF DotAt
<1>2. ~(d < e) BY <1>1 DEF DotAt
<1>3. ~(e < d) BY <1>1 DEF DotAt
<1> QED BY <1>1, <1>2, <1>3

LEMMA DotExists == ASSUME NEW name \in Seq(Letters) PROVE \E d : DotAt(name, d)
<1> DEFINE S == {d \in 1 .. Len(name) + 1 : d <= Len(name) => name[d] = "."}
<1>1. Len(name) + 1 \in S /\ S \subseteq Nat OBVIOUS
<1>2. PICK d \in S : \A k \in S : d <= k BY Zenon, <1>1, LeastOf
<1>3. \A k \in 1 .. d - 1 : name[k] # "." BY <1>2
<1> QED BY <1>2, <1>3 DEF DotAt

\* What name_to_83 does with a name whose first dot is at d.
LEMMA To83At ==
  ASSUME NEW name \in Seq(Letters), NEW d, DotAt(name, d),
         NEW up, up = [k \in 1 .. Len(name) |-> Upper[name[k]]]
  PROVE  To83(name) = <<Prefix(SubSeq(up, 1, d - 1), BaseLen),
                        Prefix(SubSeq(up, d + 1, Len(name)), ExtLen)>>
<1> DEFINE dot == CHOOSE e \in 1 .. Len(name) + 1 :
                    /\ e <= Len(name) => name[e] = "."
                    /\ \A k \in 1 .. e - 1 : name[k] # "."
<1>1. DotAt(name, dot) BY Zenon DEF DotAt
<1>2. dot = d BY <1>1, DotUnique
<1> QED BY Zenon, <1>2 DEF To83

\* Upper-case strings that fit go through name_to_83 unchanged.
Fits(q, n) == q \in Seq(Letters) /\ Len(q) <= n /\ \A k \in 1 .. Len(q) : Upper[q[k]] = q[k]

LEMMA PrefixFits ==
  ASSUME NEW q \in Seq(Letters), NEW n \in Nat,
         \A k \in 1 .. Len(q) : Upper[q[k]] = q[k]
  PROVE  /\ Fits(Prefix(q, n), n)
         /\ \A k \in 1 .. Len(Prefix(q, n)) : Prefix(q, n)[k] = q[k] /\ k \in 1 .. Len(q)
         /\ Len(q) <= n => Prefix(q, n) = q
<1> DEFINE m == IF Len(q) < n THEN Len(q) ELSE n
<1>1. m \in 0 .. Len(q) /\ m <= n OBVIOUS
<1>2. SubSeq(q, 1, m) \in Seq(Letters) /\ Len(SubSeq(q, 1, m)) = m
      /\ \A k \in 1 .. m : SubSeq(q, 1, m)[k] = q[k]
  BY <1>1
<1>3. Len(q) <= n => SubSeq(q, 1, m) = q BY <1>1, <1>2
<1> QED BY <1>1, <1>2, <1>3 DEF Prefix, Fits

LEMMA RoundTrip ==
  ASSUME NEW b, NEW e, Fits(b, BaseLen), Fits(e, ExtLen),
         \A k \in 1 .. Len(b) : b[k] # ".", e # <<>> => "." \in Letters
  PROVE  To83(From83(<<b, e>>)) = <<b, e>>
<1> DEFINE name == From83(<<b, e>>)
           up == [k \in 1 .. Len(name) |-> Upper[name[k]]]
<1>0. BaseLen \in Nat /\ ExtLen \in Nat BY DiskVfsAssumption
<1>1. CASE e = <<>>
  <2>1. name = b BY <1>1 DEF From83
  <2>2. up = b BY <2>1 DEF Fits
  <2>3. DotAt(b, Len(b) + 1) BY DEF DotAt, Fits
  <2>4. SubSeq(b, 1, Len(b)) = b /\ SubSeq(b, Len(b) + 2, Len(b)) = <<>> BY DEF Fits
  <2>5. Prefix(b, BaseLen) = b /\ Prefix(<<>>, ExtLen) = <<>>
    BY <1>0, <1>1, PrefixFits DEF Fits
  <2>6. To83(b) = <<Prefix(SubSeq(b, 1, Len(b)), BaseLen), Prefix(SubSeq(b, Len(b) + 2, Len(b)), ExtLen)>>
    <3>1. b \in Seq(Letters) /\ b = [k \in 1 .. Len(b) |-> Upper[b[k]]] BY Zenon, <2>1, <2>2 DEF Fits
    <3>2. (Len(b) + 1) - 1 = Len(b) /\ (Len(b) + 1) + 1 = Len(b) + 2 BY <3>1
    <3>3. To83(b) = <<Prefix(SubSeq(b, 1, (Len(b) + 1) - 1), BaseLen),
                      Prefix(SubSeq(b, (Len(b) + 1) + 1, Len(b)), ExtLen)>>
      BY Zenon, <2>3, <3>1, To83At
    <3> QED BY Zenon, <3>2, <3>3
  <2> QED BY Zenon, <1>1, <2>1, <2>4, <2>5, <2>6
<1>2. CASE e # <<>>
  <2>1. name = b \o <<".">> \o e BY <1>2 DEF From83
  <2>2. name \in Seq(Letters) /\ Len(name) = Len(b) + 1 + Len(e)
        /\ \A k \in 1 .. Len(name) : name[k] = IF k <= Len(b) THEN b[k]
                                               ELSE IF k = Len(b) + 1 THEN "."
                                               ELSE e[k - Len(b) - 1]
    <3>1. b \in Seq(Letters) /\ e \in Seq(Letters) /\ <<".">> \in Seq(Letters) /\ Len(<<".">>) = 1
      BY <1>2 DEF Fits
    <3>2. b \o <<".">> \in Seq(Letters) /\ Len(b \o <<".">>) = Len(b) + 1
          /\ \A k \in 1 .. Len(b) + 1 : (b \o <<".">>)[k] = IF k <= Len(b) THEN b[k] ELSE "."
      BY <3>1
    <3> DEFINE bd == b \o <<".">>
    <3> HIDE DEF bd
    <3>3. bd \o e \in Seq(Letters) /\ Len(bd \o e) = Len(bd) + Len(e)
          /\ \A k \in 1 .. Len(bd) + Len(e) : (bd \o e)[k] = IF k <= Len(bd) THEN bd[k] ELSE e[k - Len(bd)]
      BY <3>1, <3>2 DEF bd
    <3>4. name = bd \o e BY Zenon, <2>1 DEF bd
    <3>5. Len(bd) = Len(b) + 1 /\ Len(b) \in Nat /\ Len(e) \in Nat BY <3>1, <3>2 DEF bd
    <3>6. \A k \in 1 .. Len(b) + 1 : bd[k] = IF k <= Len(b) THEN b[k] ELSE "." BY <3>2 DEF bd
    <3> HIDE DEF name
    <3> QED BY <3>3, <3>4, <3>5, <3>6
  <2>3. b \in Seq(Letters) /\ e \in Seq(Letters) /\ Len(b) \in Nat /\ Len(e) \in Nat BY DEF Fits
  <2> HIDE DEF name
  <2>4. DotAt(name, Len(b) + 1)
    <3>1. \A k \in 1 .. (Len(b) + 1) - 1 : k \in 1 .. Len(b) /\ k \in 1 .. Len(name) /\ k <= Len(b)
      BY <2>2, <2>3
    <3>2. \A k \in 1 .. (Len(b) + 1) - 1 : name[k] # "." BY <2>2, <3>1
    <3>3. Len(b) + 1 \in 1 .. Len(name) /\ ~(Len(b) + 1 <= Len(b)) BY <2>2, <2>3
    <3>4. name[Len(b) + 1] = "." BY <2>2, <3>3
    <3>5. Len(b) + 1 \in 1 .. Len(name) + 1 BY <2>2, <3>3
    <3> QED BY Zenon, <3>2, <3>4, <3>5 DEF DotAt
  <2>5. name = [k \in 1 .. Len(name) |-> Upper[name[k]]]
    <3>1. Upper["."] = "." BY <1>2, UpperAssumption DEF Letters
    <3>2. ASSUME NEW k \in 1 .. Len(name) PROVE Upper[name[k]] = name[k]
      <4>1. CASE k <= Len(b)
        <5>1. k \in 1 .. Len(b) BY <2>3, <4>1
        <5> QED BY <2>2, <4>1, <5>1 DEF Fits
      <4>2. CASE k = Len(b) + 1
        <5>1. ~(k <= Len(b)) BY <2>3, <4>2
        <5> QED BY <2>2, <3>1, <4>2, <5>1
      <4>3. CASE ~(k <= Len(b)) /\ k # Len(b) + 1
        <5>1. k - Len(b) - 1 \in 1 .. Len(e) BY <2>2, <2>3, <4>3
        <5> QED BY Zenon, <2>2, <4>3, <5>1 DEF Fits
      <4> QED BY <4>1, <4>2, <4>3
    <3> QED BY <2>2, <3>2
  <2>6. SubSeq(name, 1, Len(b)) = b BY <2>2, <2>3
  <2>7. SubSeq(name, Len(b) + 2, Len(name)) = e BY <2>2, <2>3
  <2>8. (Len(b) + 1) - 1 = Len(b) /\ (Len(b) + 1) + 1 = Len(b) + 2 BY <2>3
  <2>9. To83(name) = <<Prefix(SubSeq(name, 1, (Len(b) + 1) - 1), BaseLen),
                       Prefix(SubSeq(name, (Len(b) + 1) + 1, Len(name)), ExtLen)>>
    BY Zenon, <2>2, <2>4, <2>5, To83At
  <2>10. Prefix(b, BaseLen) = b /\ Prefix(e, ExtLen) = e BY <1>0, PrefixFits DEF Fits
  <2>11. To83(name) = <<b, e>> BY Zenon, <2>6, <2>7, <2>8, <2>9, <2>10
  <2> QED BY <2>11 DEF name
<1> QED BY <1>1, <1>2

\* Whatever name_to_83 makes of a name, it finds again from the node's name.
LEMMA NamesCanon == ASSUME NEW x \in Names PROVE To83(x) \in Canon
<1>1. x \in Seq(Letters) /\ BaseLen \in Nat /\ ExtLen \in Nat BY DiskVfsAssumption DEF Letters
<1>2. PICK d : DotAt(x, d) BY <1>1, DotExists
<1> DEFINE up == [k \in 1 .. Len(x) |-> Upper[x[k]]]
           q == SubSeq(up, 1, d - 1)
           r == SubSeq(up, d + 1, Len(x))
<1>3. d \in 1 .. Len(x) + 1 /\ Len(x) \in Nat BY <1>1, <1>2 DEF DotAt
<1>4. up \in Seq(Letters) /\ Len(up) = Len(x)
      /\ \A k \in 1 .. Len(x) : up[k] = Upper[x[k]] /\ Upper[up[k]] = up[k] /\ (up[k] = "." <=> x[k] = ".")
  BY <1>1, UpperAssumption DEF Letters
<1> HIDE DEF up
<1>5. q \in Seq(Letters) /\ Len(q) = d - 1 /\ \A k \in 1 .. Len(q) : q[k] = up[k] /\ k \in 1 .. Len(x)
  BY <1>3, <1>4
<1>6. r \in Seq(Letters) /\ \A k \in 1 .. Len(r) : r[k] = up[k + d] /\ k + d \in 1 .. Len(x)
  BY <1>3, <1>4
<1>7. r # <<>> => d <= Len(x) /\ x[d] \in Letters BY <1>1, <1>3, <1>4
<1> HIDE DEF q, r
<1>8. \A k \in 1 .. Len(q) : Upper[q[k]] = q[k] /\ q[k] # "." BY <1>2, <1>3, <1>4, <1>5 DEF DotAt
<1>9. \A k \in 1 .. Len(r) : Upper[r[k]] = r[k] BY <1>4, <1>6
<1>10. Fits(Prefix(q, BaseLen), BaseLen) /\ Fits(Prefix(r, ExtLen), ExtLen)
       /\ \A k \in 1 .. Len(Prefix(q, BaseLen)) : Prefix(q, BaseLen)[k] # "."
  BY Zenon, <1>1, <1>5, <1>6, <1>8, <1>9, PrefixFits
<1>11. Prefix(r, ExtLen) # <<>> => "." \in Letters
  <2>1. r = <<>> => Len(r) <= ExtLen BY <1>1
  <2>2. r = <<>> => Prefix(r, ExtLen) = <<>> BY Zenon, <1>1, <1>6, <1>9, <2>1, PrefixFits
  <2> QED BY <1>2, <1>7, <2>2 DEF DotAt
<1>12. To83(x) = <<Prefix(q, BaseLen), Prefix(r, ExtLen)>>
  BY Zenon, <1>1, <1>2, To83At DEF q, r, up
<1>13. To83(From83(To83(x))) = To83(x) BY Zenon, <1>10, <1>11, <1>12, RoundTrip
<1> QED BY <1>13, NamesAssumption DEF Canon

-----------------------------------------------------------------------------
(* The listing.                                                            *)

UpTo(F, k) == {t \in F : t <= k}

LEMMA UpToFinite ==
  ASSUME NEW F \in SUBSET RootSlots, NEW k \in Nat
  PROVE  /\ IsFiniteSet(F) /\ IsFiniteSet(UpTo(F, k))
         /\ Cardinality(F) \in Nat /\ Cardinality(UpTo(F, k)) \in Nat
<1>1. IsFiniteSet(RootSlots) BY FS_Interval, DirAssumption DEF RootSlots
<1>2. IsFiniteSet(F) BY <1>1, FS_Subset
<1>3. UpTo(F, k) \in SUBSET F BY DEF UpTo
<1>4. IsFiniteSet(UpTo(F, k)) BY <1>2, <1>3, FS_Subset
<1> QED BY <1>2, <1>4, FS_CardinalityType

\* A file at k counts from k on.
LEMMA UpToStep ==
  ASSUME NEW F \in SUBSET RootSlots, NEW k \in Nat
  PROVE  Cardinality(UpTo(F, k + 1)) =
           IF k + 1 \in F THEN Cardinality(UpTo(F, k)) + 1 ELSE Cardinality(UpTo(F, k))
<1>0. \A t \in F : t <= k + 1 <=> t <= k \/ t = k + 1 BY DEF RootSlots
<1>1. CASE k + 1 \in F
  <2>1. UpTo(F, k + 1) = UpTo(F, k) \cup {k + 1} BY Zenon, <1>0, <1>1 DEF UpTo
  <2>2. k + 1 \notin UpTo(F, k) BY DEF UpTo
  <2> QED BY Zenon, <1>1, <2>1, <2>2, UpToFinite, FS_AddElement
<1>2. CASE k + 1 \notin F
  <2>1. UpTo(F, k + 1) = UpTo(F, k) BY Zenon, <1>0, <1>2 DEF UpTo
  <2> QED BY <1>2, <2>1
<1> QED BY <1>1, <1>2

\* Every position up to the number of files is some file's.
LEMMA PositionTaken ==
  ASSUME NEW F \in SUBSET RootSlots, NEW i \in 1 .. Cardinality(F)
  PROVE  \E s \in F : Cardinality(UpTo(F, s)) = i
<1> DEFINE S == {k \in Nat : Cardinality(UpTo(F, k)) >= i}
<1>0. RootEntries \in Nat /\ Cardinality(F) \in Nat /\ i \in Nat BY DirAssumption, UpToFinite
<1>1. RootEntries \in S
  <2>1. \A t \in F : t <= RootEntries BY <1>0 DEF RootSlots
  <2>2. UpTo(F, RootEntries) = F BY Zenon, <2>1 DEF UpTo
  <2> QED BY <1>0, <2>2
<1>2. PICK k \in S : \A m \in S : k <= m BY Zenon, <1>1, LeastOf
<1>3. k # 0
  <2>1. \A t \in F : ~(t <= 0) BY DEF RootSlots
  <2>2. UpTo(F, 0) = {} BY Zenon, <2>1 DEF UpTo
  <2> QED BY <2>2, <1>2, FS_EmptySet
<1>4. k - 1 \in Nat /\ k = (k - 1) + 1 /\ ~(k <= k - 1) BY <1>2, <1>3
<1>5. ~(Cardinality(UpTo(F, k - 1)) >= i) BY <1>2, <1>4
<1>6. Cardinality(UpTo(F, k)) \in Nat /\ Cardinality(UpTo(F, k - 1)) \in Nat BY Zenon, <1>2, <1>4, UpToFinite
<1>7. Cardinality(UpTo(F, k)) =
        IF k \in F THEN Cardinality(UpTo(F, k - 1)) + 1 ELSE Cardinality(UpTo(F, k - 1))
  BY <1>4, UpToStep
<1>8. Cardinality(UpTo(F, k)) >= i BY <1>2
<1>9. k \in F BY <1>5, <1>7, <1>8
<1>10. Cardinality(UpTo(F, k)) = i BY <1>0, <1>5, <1>6, <1>7, <1>8, <1>9
<1> QED BY <1>9, <1>10

\* No two files have one position.
LEMMA PositionOnce ==
  ASSUME NEW F \in SUBSET RootSlots, NEW s \in F, NEW t \in F,
         Cardinality(UpTo(F, s)) = Cardinality(UpTo(F, t))
  PROVE  s = t
<1>0. s \in Nat /\ t \in Nat /\ F \subseteq Nat BY DEF RootSlots
<1>1. ASSUME NEW a \in F, NEW b \in F, a < b
      PROVE  Cardinality(UpTo(F, a)) < Cardinality(UpTo(F, b))
  <2>0. a \in Nat /\ b \in Nat BY <1>0
  <2>1. b \notin UpTo(F, a) /\ UpTo(F, a) \cup {b} \in SUBSET UpTo(F, b)
    <3>1. ~(b <= a) /\ b <= b /\ \A x \in F : x <= a => x <= b BY <1>0, <1>1, <2>0
    <3> QED BY Zenon, <3>1 DEF UpTo
  <2>2. IsFiniteSet(UpTo(F, a)) /\ IsFiniteSet(UpTo(F, b))
        /\ Cardinality(UpTo(F, a)) \in Nat /\ Cardinality(UpTo(F, b)) \in Nat
    BY Zenon, <2>0, UpToFinite
  <2>3. Cardinality(UpTo(F, a) \cup {b}) = Cardinality(UpTo(F, a)) + 1 BY Zenon, <2>1, <2>2, FS_AddElement
  <2>4. Cardinality(UpTo(F, a) \cup {b}) <= Cardinality(UpTo(F, b)) BY <2>1, <2>2, FS_Subset
  <2> QED BY <2>2, <2>3, <2>4
<1>2. Cardinality(UpTo(F, s)) \in Nat /\ Cardinality(UpTo(F, t)) \in Nat BY <1>0, UpToFinite
<1>3. ~(s < t) /\ ~(t < s) BY <1>1, <1>2
<1> QED BY <1>0, <1>3

\* The files of F in the order of their slots.
ListOf(F) == [i \in 1 .. Cardinality(F) |-> CHOOSE s \in F : Cardinality(UpTo(F, s)) = i]

LEMMA ListOfFiles ==
  ASSUME NEW F \in SUBSET RootSlots
  PROVE  /\ Cardinality(F) \in Nat
         /\ ListOf(F) \in Seq(F) /\ Len(ListOf(F)) = Cardinality(F)
         /\ \A i \in 1 .. Cardinality(F) :
              ListOf(F)[i] \in F /\ Cardinality(UpTo(F, ListOf(F)[i])) = i
<1>1. Cardinality(F) \in Nat BY UpToFinite
<1>2. ASSUME NEW i \in 1 .. Cardinality(F)
      PROVE  ListOf(F)[i] \in F /\ Cardinality(UpTo(F, ListOf(F)[i])) = i
  <2>1. ListOf(F)[i] = CHOOSE s \in F : Cardinality(UpTo(F, s)) = i BY Zenon DEF ListOf
  <2>2. \E s \in F : Cardinality(UpTo(F, s)) = i BY PositionTaken
  <2> QED BY Zenon, <2>1, <2>2
<1>3. ListOf(F) = [i \in 1 .. Cardinality(F) |-> ListOf(F)[i]] BY DEF ListOf
<1>4. ListOf(F) \in Seq(F) /\ Len(ListOf(F)) = Cardinality(F) BY <1>1, <1>2, <1>3
<1> QED BY <1>1, <1>2, <1>4

\* A new file behind the others leaves their positions alone.
LEMMA ListOfKept ==
  ASSUME NEW F \in SUBSET RootSlots, NEW G \in SUBSET RootSlots, F \subseteq G,
         \A s \in F, t \in G \ F : s < t, NEW i \in 1 .. Cardinality(F)
  PROVE  i \in 1 .. Cardinality(G) /\ ListOf(G)[i] = ListOf(F)[i]
<1> DEFINE s == ListOf(F)[i]
<1>1. s \in F /\ Cardinality(UpTo(F, s)) = i BY ListOfFiles
<1>2. i \in 1 .. Cardinality(G)
  <2>1. IsFiniteSet(G) /\ Cardinality(G) \in Nat /\ Cardinality(F) \in Nat BY UpToFinite
  <2>2. Cardinality(F) <= Cardinality(G) BY <2>1, FS_Subset
  <2> QED BY <2>1, <2>2
<1> HIDE DEF s
<1>3. UpTo(G, s) = UpTo(F, s)
  <2>1. \A t \in G \ F : ~(t <= s) BY <1>1 DEF RootSlots
  <2> QED BY Zenon, <2>1 DEF UpTo
<1>4. ListOf(G)[i] \in G /\ Cardinality(UpTo(G, ListOf(G)[i])) = i BY <1>2, ListOfFiles
<1>5. ListOf(G)[i] = s BY <1>1, <1>3, <1>4, PositionOnce
<1> QED BY <1>2, <1>5 DEF s

\* The listing is that of the reached files.
LEMMA ListedIs == Listed = ListOf(Files) /\ Listed' = ListOf(Files') /\ Files \in SUBSET RootSlots
                  /\ Files' \in SUBSET RootSlots
<1>1. Listed = ListOf(Files) /\ Files \in SUBSET RootSlots BY DEF Listed, ListOf, Position, UpTo, Files
<1>2. Listed' = ListOf(Files') BY DEF Listed, ListOf, Position, UpTo
<1>3. Files' \in SUBSET RootSlots BY DEF Files
<1> QED BY <1>1, <1>2, <1>3

-----------------------------------------------------------------------------
(* Reading.                                                                *)

\* read_file's walk along the links goes from cluster to cluster of the chain.
LEMMA NthOnChain ==
  ASSUME NEW cs \in Seq(Clusters), Links(fat, cs), NEW i \in 1 .. Len(cs)
  PROVE  NthCluster(cs[1], i) = cs[i]
<1> DEFINE Rec(f) == [k \in 1 .. i |-> IF k = 1 THEN cs[1]
                                       ELSE IF f[k - 1] \in Clusters THEN fat[f[k - 1]] ELSE EOC]
           nth == CHOOSE f : f = Rec(f)
           g == [k \in 1 .. i |-> cs[k]]
<1>1. NthCluster(cs[1], i) = nth[i] BY DEF NthCluster
<1>2. ASSUME NEW k \in 1 .. i, k # 1
      PROVE  k - 1 \in 1 .. i /\ cs[k - 1] \in Clusters /\ fat[cs[k - 1]] = cs[k]
  <2>1. k - 1 \in 1 .. i /\ k - 1 \in 1 .. Len(cs) /\ k - 1 # Len(cs) /\ (k - 1) + 1 = k BY <1>2
  <2> QED BY <2>1 DEF Links
<1>3. g = Rec(g)
  <2>1. \A k \in 1 .. i : k # 1 => g[k - 1] = cs[k - 1] BY <1>2
  <2> QED BY <1>2, <2>1
<1> HIDE DEF g
<1>4. nth = Rec(nth) BY Zenon, <1>3
<1> HIDE DEF nth
<1>5. ASSUME NEW k \in 1 .. i
      PROVE  nth[k] = IF k = 1 THEN cs[1]
                      ELSE IF nth[k - 1] \in Clusters THEN fat[nth[k - 1]] ELSE EOC
  BY <1>4
<1> DEFINE Bad == {k \in 1 .. i : nth[k] # cs[k]}
<1>6. Bad = {}
  <2> SUFFICES ASSUME Bad # {} PROVE FALSE OBVIOUS
  <2>0. Bad \in SUBSET Nat OBVIOUS
  <2>1. PICK k \in Bad : \A m \in Bad : k <= m BY Zenon, <2>0, LeastOf
  <2>2. k # 1 BY <1>5, <2>1
  <2>3. k - 1 \in 1 .. i /\ ~(k <= k - 1) BY <2>1, <2>2
  <2>4. nth[k - 1] = cs[k - 1] BY <2>1, <2>3
  <2> QED BY <1>2, <1>5, <2>1, <2>2, <2>4
<1> QED BY <1>1, <1>6

\* A file whose chain is in place is read back whole.
LEMMA ReadsBack ==
  ASSUME NEW s \in RootSlots, NEW cs \in Seq(Clusters), NEW c \in Seq(Chunks),
         Links(fat, cs), dir[s].first = FirstOf(cs), dir[s].size = Len(cs), Len(c) = Len(cs),
         \A i \in 1 .. Len(cs) : data[cs[i]] = c[i]
  PROVE  ReadFile(s, Len(cs)) = c
<1> DEFINE n == Len(cs)
           have == {i \in 1 .. n : \A j \in 1 .. i : NthCluster(dir[s].first, j) \in Clusters}
<1>0. n \in Nat /\ \A i \in 1 .. n : cs[i] \in Clusters OBVIOUS
<1>1. ASSUME NEW i \in 1 .. n PROVE NthCluster(dir[s].first, i) = cs[i]
  <2>1. cs # <<>> /\ dir[s].first = cs[1] BY <1>0 DEF FirstOf
  <2> QED BY <2>1, NthOnChain
<1>2. have = 1 .. n
  <2>1. \A i \in 1 .. n : \A j \in 1 .. i : j \in 1 .. n BY <1>0
  <2> QED BY Zenon, <1>0, <1>1, <2>1
<1>3. ReadFile(s, n) = [i \in have |-> data[NthCluster(dir[s].first, i)]]
  BY <1>0 DEF ReadFile
<1>4. [i \in 1 .. n |-> data[NthCluster(dir[s].first, i)]] = [i \in 1 .. n |-> c[i]]
  BY Zenon, <1>1
<1>5. [i \in 1 .. n |-> c[i]] = c OBVIOUS
<1> QED BY Zenon, <1>2, <1>3, <1>4, <1>5

\* Whatever an entry names, read_file returns chunks.
LEMMA ReadsChunks ==
  ASSUME TypeOK, NEW s \in RootSlots, NEW max \in Nat
  PROVE  ReadFile(s, max) \in Seq(Chunks)
<1> DEFINE want == IF dir[s].size > max THEN max ELSE dir[s].size
           Good(i) == \A j \in 1 .. i : NthCluster(dir[s].first, j) \in Clusters
           have == {i \in 1 .. want : Good(i)}
           Out == {i \in Nat \ {0} : i \notin have}
<1>1. want \in Nat BY DEF TypeOK, Entries
<1> HIDE DEF want, Good
<1>2. want + 1 \in Out BY <1>1
<1>3. PICK k \in Out : \A m \in Out : k <= m BY Zenon, <1>2, LeastOf
<1>4. k - 1 \in Nat /\ k \in Nat BY <1>3
<1>5. have = 1 .. k - 1
  <2>1. ASSUME NEW i \in 1 .. k - 1 PROVE i \in have
    <3>1. i \in Nat \ {0} /\ ~(k <= i) BY <1>4
    <3> QED BY <1>3, <3>1
  <2>2. ASSUME NEW i \in have, ~(i < k) PROVE FALSE
    <3>1. i \in 1 .. want /\ Good(i) OBVIOUS
    <3>2. k \in 1 .. want /\ k \in 1 .. i BY <1>1, <1>3, <1>4, <2>2, <3>1
    <3>3. \A j \in 1 .. k : j \in 1 .. i BY <3>1, <3>2, <1>1
    <3>4. Good(k) BY Zenon, <3>1, <3>3 DEF Good
    <3> QED BY <1>3, <3>2, <3>4
  <2>3. ASSUME NEW i \in have PROVE i \in 1 .. k - 1 BY <1>1, <1>4, <2>2
  <2> QED BY <2>1, <2>3
<1>6. ASSUME NEW i \in have PROVE data[NthCluster(dir[s].first, i)] \in Chunks
  <2>1. i \in 1 .. i BY <1>1
  <2>2. NthCluster(dir[s].first, i) \in Clusters BY Zenon, <2>1 DEF Good
  <2> QED BY <2>2 DEF TypeOK
<1>7. ReadFile(s, max) = [i \in have |-> data[NthCluster(dir[s].first, i)]]
  BY Zenon DEF ReadFile, want, Good
<1> HIDE DEF have
<1> QED BY <1>4, <1>5, <1>6, <1>7

\* find_root_entry returns a slot or -1.
LEMMA FindsSlot ==
  ASSUME NEW n
  PROVE  \E i \in RootSlots \cup {0} : FindRootEntry(n, i)
<1> DEFINE S == {j \in RootSlots : Reached(j) /\ dir[j].kind \in {"dir", "file"} /\ dir[j].name = n}
<1>1. S \in SUBSET Nat /\ S \subseteq RootSlots BY DEF RootSlots
<1>2. CASE S = {} BY Zenon, <1>2 DEF FindRootEntry, IsFirst
<1>3. CASE S # {}
  <2>1. PICK i \in S : \A j \in S : i <= j BY Zenon, <1>1, <1>3, LeastOf
  <2> QED BY <1>3, <2>1 DEF FindRootEntry, IsFirst
<1> QED BY <1>2, <1>3

\* The content of the descriptor's node, as far as types go.
LEMMA VfsReadsChunks ==
  ASSUME TypeOK, NEW k, node[k].size \in Nat
  PROVE  VfsRead(k) \in Seq(Chunks)
<1> DEFINE s == CHOOSE i \in RootSlots \cup {0} : FindRootEntry(To83(node[k].name), i)
<1>1. s \in RootSlots \cup {0} BY Zenon, FindsSlot
<1>2. VfsRead(k) = IF node[k].size = 0 THEN <<>>
                   ELSE IF s = 0 THEN <<>> ELSE ReadFile(s, node[k].size)
  BY Zenon DEF VfsRead
<1> HIDE DEF s
<1>3. <<>> \in Seq(Chunks) OBVIOUS
<1> QED BY Zenon, <1>1, <1>2, <1>3, ReadsChunks

-----------------------------------------------------------------------------
(* The inductive invariant.                                                *)

\* The cached nodes are distinct, and their names are names of the disk.
NodeNames == {From83(c) : c \in Canon}
NodeRecs  == [name : NodeNames, size : Nat]

CacheInv ==
  /\ node \in Seq(NodeRecs) /\ offset \in Nat
  /\ node_count \in 0 .. MaxFiles /\ file_nodes \in [1 .. MaxFiles -> Nat]
  /\ \A i \in 1 .. node_count : file_nodes[i] \in 1 .. Len(node)
  /\ \A i, j \in 1 .. node_count : file_nodes[i] = file_nodes[j] => i = j

\* The write under way goes to the entry of its name, or to a free slot.
NameInv ==
  /\ \A s \in RootSlots : dir[s].kind = "file" => dir[s].name \in Canon
  /\ pc = "data" =>
       /\ op.entry.kind = "file" => op.entry.name \in Canon
       /\ \/ IsFile(op.slot) /\ op.entry.kind = dir[op.slot].kind /\ op.entry.name = dir[op.slot].name
          \/ dir[op.slot].kind \in {"end", "deleted"} /\ op.entry.kind = "file"

\* The descriptor's node has the name of the file it was opened for, and
\* refresh_nodes will find that file at the position of the node.
OpenInv ==
  /\ pc = "down" => open = NoFd
  /\ open # NoFd =>
       /\ open.node \in 1 .. Len(node) /\ open.slot \in Files
       /\ ~filled => /\ node[open.node].name = From83(dir[open.slot].name)
                     /\ \A i \in 1 .. node_count :
                          file_nodes[i] = open.node => i \in 1 .. Cardinality(Files) /\ Listed[i] = open.slot

DInv == LInv /\ NInv /\ CacheInv /\ NameInv /\ OpenInv

-----------------------------------------------------------------------------
(* refresh_nodes.                                                          *)

\* The nodes of the first n files are made over or made anew, each for its
\* file, and no other node changes.
Refreshed(n) ==
  /\ node_count' = n /\ n <= MaxFiles
  /\ node' \in Seq(NodeRecs) /\ Len(node) <= Len(node')
  /\ file_nodes' \in [1 .. MaxFiles -> Nat]
  /\ \A i \in 1 .. n : file_nodes'[i] \in 1 .. Len(node')
  /\ \A i, j \in 1 .. n : file_nodes'[i] = file_nodes'[j] => i = j
  /\ \A i \in 1 .. n : node'[file_nodes'[i]].name = From83(dir[Listed[i]].name)
  /\ \A i \in 1 .. n : file_nodes'[i] \in 1 .. Len(node) => i <= node_count /\ file_nodes[i] = file_nodes'[i]
  /\ \A k \in 1 .. Len(node) : (\A i \in 1 .. n : file_nodes'[i] # k) => node'[k] = node[k]

LEMMA RefreshMakes ==
  ASSUME TypeOK, CacheInv, NameInv, NEW mounted \in BOOLEAN, RefreshNodes(mounted)
  PROVE  \E n \in 0 .. Len(Listed) : Refreshed(n)
<1>1. PICK n \in 0 .. Len(Listed), lost \in SUBSET (1 .. Len(Listed)) :
        LET most  == IF mounted THEN n ELSE 0
            fresh == {i \in 1 .. most : i > node_count}
            id(i) == IF i \in fresh THEN Len(node) + i - node_count ELSE file_nodes[i]
            made(i) == [name |-> From83(dir[Listed[i]].name),
                        size |-> IF i \in lost THEN 0 ELSE dir[Listed[i]].size]
        IN /\ most <= MaxFiles /\ lost \subseteq 1 .. most
           /\ Len(node) + Cardinality(fresh) <= MaxNodes
           /\ node_count' = most
           /\ file_nodes' = [i \in 1 .. MaxFiles |-> IF i <= most THEN id(i) ELSE file_nodes[i]]
           /\ node' = [k \in 1 .. Len(node) + Cardinality(fresh) |->
                         IF \E i \in 1 .. most : id(i) = k
                         THEN made(CHOOSE i \in 1 .. most : id(i) = k) ELSE node[k]]
  BY Zenon DEF RefreshNodes
<1> DEFINE most  == IF mounted THEN n ELSE 0
           fresh == {i \in 1 .. most : i > node_count}
           id(i) == IF i \in fresh THEN Len(node) + i - node_count ELSE file_nodes[i]
           made(i) == [name |-> From83(dir[Listed[i]].name),
                       size |-> IF i \in lost THEN 0 ELSE dir[Listed[i]].size]
           length == Len(node) + Cardinality(fresh)
<1>2. /\ most <= MaxFiles /\ node_count' = most
      /\ file_nodes' = [i \in 1 .. MaxFiles |-> IF i <= most THEN id(i) ELSE file_nodes[i]]
      /\ node' = [k \in 1 .. length |-> IF \E i \in 1 .. most : id(i) = k
                                        THEN made(CHOOSE i \in 1 .. most : id(i) = k) ELSE node[k]]
  BY Zenon, <1>1
<1>3. /\ Files \in SUBSET RootSlots /\ Len(Listed) \in Nat
      /\ \A i \in 1 .. Len(Listed) : Listed[i] \in Files
  BY ListedIs, ListOfFiles
<1>4. most \in 0 .. Len(Listed) /\ node_count \in Nat /\ MaxFiles \in Nat /\ Len(node) \in Nat
  BY <1>3, DiskVfsAssumption DEF CacheInv
<1>5. length = IF most > node_count THEN Len(node) + most - node_count ELSE Len(node)
  <2> HIDE DEF most
  <2>0. node_count + 1 \in Int /\ most \in Int /\ most \in Nat BY <1>4
  <2>1. fresh = node_count + 1 .. most BY <1>4, <2>0
  <2>2. Cardinality(node_count + 1 .. most) = IF node_count + 1 > most THEN 0 ELSE most - (node_count + 1) + 1
    BY Zenon, <2>0, FS_Interval
  <2> HIDE DEF fresh
  <2> QED BY <1>4, <2>0, <2>1, <2>2
<1>6. ASSUME NEW i \in 1 .. most
      PROVE  /\ id(i) \in 1 .. length
             /\ id(i) = IF i > node_count THEN Len(node) + i - node_count ELSE file_nodes[i]
             /\ i <= node_count => id(i) \in 1 .. Len(node)
             /\ i \in 1 .. MaxFiles /\ file_nodes'[i] = id(i)
             /\ made(i) \in NodeRecs
  <2>1. id(i) = IF i > node_count THEN Len(node) + i - node_count ELSE file_nodes[i] OBVIOUS
  <2>2. i <= node_count => file_nodes[i] \in 1 .. Len(node) BY <1>4 DEF CacheInv
  <2>3. id(i) \in 1 .. length BY <1>4, <1>5, <2>1, <2>2
  <2>4. i \in 1 .. MaxFiles /\ i <= most BY <1>2, <1>4
  <2>5. file_nodes'[i] = id(i) BY <1>2, <2>4
  <2>6. Listed[i] \in Files BY <1>3, <1>4
  <2>7. dir[Listed[i]].name \in Canon /\ dir[Listed[i]].size \in Nat
    BY Zenon, <1>3, <2>6 DEF Files, NameInv, TypeOK, Entries
  <2>8. made(i) \in NodeRecs BY <2>7 DEF NodeRecs, NodeNames
  <2> HIDE DEF id, made, most
  <2>9. i <= node_count => id(i) \in 1 .. Len(node) BY <1>4, <2>1, <2>2
  <2> QED BY ZenonT(60), <2>1, <2>3, <2>4, <2>5, <2>8, <2>9
<1>7. ASSUME NEW i \in 1 .. most, NEW j \in 1 .. most, id(i) = id(j) PROVE i = j
  BY <1>4, <1>6, <1>7 DEF CacheInv
<1> HIDE DEF most, fresh, id, made, length
<1>8. ASSUME NEW i \in 1 .. most PROVE node'[id(i)] = made(i)
  <2>1. (CHOOSE j \in 1 .. most : id(j) = id(i)) = i BY Zenon, <1>7
  <2> QED BY Zenon, <1>2, <1>6, <2>1
<1>9. length \in Nat /\ Len(node) <= length BY <1>4, <1>5
<1>10. ASSUME NEW k \in 1 .. length PROVE node'[k] \in NodeRecs
  <2>1. CASE \E i \in 1 .. most : id(i) = k BY Zenon, <1>6, <1>8, <2>1
  <2>2. CASE ~ \E i \in 1 .. most : id(i) = k
    <3>1. node'[k] = node[k] BY Zenon, <1>2, <2>2
    <3>2. k \in 1 .. Len(node)
      <4> SUFFICES ASSUME ~(k <= Len(node)) PROVE FALSE BY <1>9
      <4>1. k - Len(node) + node_count \in 1 .. most /\ k - Len(node) + node_count > node_count
        BY <1>4, <1>5
      <4>2. id(k - Len(node) + node_count) = k BY <1>4, <1>6, <4>1
      <4> QED BY Zenon, <2>2, <4>1, <4>2
    <3> QED BY <3>1, <3>2 DEF CacheInv
  <2> QED BY <2>1, <2>2
<1>11. node' \in Seq(NodeRecs) /\ Len(node') = length
  <2>1. node' = [k \in 1 .. length |-> node'[k]] BY <1>2
  <2> QED BY <1>9, <1>10, <2>1
<1>12. file_nodes' \in [1 .. MaxFiles -> Nat]
  <2>1. ASSUME NEW i \in 1 .. MaxFiles PROVE (IF i <= most THEN id(i) ELSE file_nodes[i]) \in Nat
    <3>1. i <= most => i \in 1 .. most BY <1>4
    <3>2. i <= most => id(i) \in Nat BY <1>6, <1>9, <3>1
    <3> QED BY <3>2 DEF CacheInv
  <2> QED BY <1>2, <2>1
<1>13. \A i \in 1 .. most : node'[file_nodes'[i]].name = From83(dir[Listed[i]].name)
  <2>1. \A i : made(i).name = From83(dir[Listed[i]].name) BY DEF made
  <2> QED BY Zenon, <1>6, <1>8, <2>1
<1>14. ASSUME NEW i \in 1 .. most, file_nodes'[i] \in 1 .. Len(node)
       PROVE  i <= node_count /\ file_nodes[i] = file_nodes'[i]
  BY <1>4, <1>6, <1>14
<1>15. ASSUME NEW k \in 1 .. Len(node), \A i \in 1 .. most : file_nodes'[i] # k PROVE node'[k] = node[k]
  <2>1. k \in 1 .. length BY <1>4, <1>9
  <2>2. ~ \E i \in 1 .. most : id(i) = k BY Zenon, <1>6, <1>15
  <2> QED BY Zenon, <1>2, <2>1, <2>2
<1>16. Refreshed(most)
  <2>1. \A i \in 1 .. most : file_nodes'[i] \in 1 .. Len(node') BY Zenon, <1>6, <1>11
  <2>2. \A i, j \in 1 .. most : file_nodes'[i] = file_nodes'[j] => i = j BY <1>6, <1>7
  <2> QED BY ZenonT(60), <1>2, <1>9, <1>11, <1>12, <1>13, <1>14, <1>15, <2>1, <2>2 DEF Refreshed
<1> QED BY <1>4, <1>16

-----------------------------------------------------------------------------
(* The steps.                                                              *)

\* What /disk asks of the driver.
DiskStep ==
  \/ \E n \in Canon, c \in Seq(Chunks) : WriteFile(n, c)
  \/ WriteCluster \/ WriteEntry \/ FlushSector \/ Crash \/ Mount

LEMMA DiskStepIsStep == DiskStep => Step
BY Zenon DEF DiskStep, Step, Canon

\* fat16_vfs_write hands write_file chunks under a name of the disk.
LEMMA VfsWriteWrites ==
  ASSUME TypeOK, CacheInv, OpenInv, NEW off \in Nat, NEW chunk \in Chunks, VfsWrite(off, chunk)
  PROVE  \E n \in Canon, c \in Seq(Chunks) : WriteFile(n, c)
<1> DEFINE nd == node[open.node]
<1>1. open # NoFd BY Zenon DEF VfsWrite
<1>2. nd \in NodeRecs BY <1>1 DEF OpenInv, CacheInv
<1>3. nd.size \in Nat /\ nd.name \in NodeNames BY <1>2 DEF NodeRecs
<1>4. To83(nd.name) \in Canon BY Zenon, <1>3 DEF NodeNames, Canon
<1>5. VfsRead(open.node) \in Seq(Chunks) BY <1>3, VfsReadsChunks
<1>6. ASSUME NEW read, NEW size \in Nat
      PROVE  Overlaid(VfsRead(open.node), read, off, size, chunk) \in Seq(Chunks)
  <2>1. PICK old \in Seq(Chunks) : old = VfsRead(open.node) BY Zenon, <1>5
  <2>2. ASSUME NEW i \in 1 .. size
        PROVE  (IF i = off + 1 THEN chunk ELSE IF i <= read /\ i <= Len(old) THEN old[i] ELSE Zero) \in Chunks
    BY DirAssumption
  <2>3. Overlaid(old, read, off, size, chunk) \in Seq(Chunks) BY <2>2 DEF Overlaid
  <2> QED BY Zenon, <2>1, <2>3
<1>7. PICK read \in 0 .. nd.size :
        LET size == IF off = 0 \/ off + 1 > nd.size THEN off + 1 ELSE nd.size
        IN WriteFile(To83(nd.name), Overlaid(VfsRead(open.node), read, off, size, chunk))
  BY Zenon DEF VfsWrite
<1> HIDE DEF nd
<1>8. (IF off = 0 \/ off + 1 > nd.size THEN off + 1 ELSE nd.size) \in Nat BY <1>3
<1> QED BY Zenon, <1>4, <1>6, <1>7, <1>8

\* Every step of /disk is one of the driver, or none.
LEMMA DiskSteps ==
  ASSUME TypeOK, CacheInv, OpenInv, [DNext]_dvars
  PROVE  DiskStep \/ UNCHANGED vars
<1>1. ASSUME NEW n \in Names, NEW c \in Contents, ShellWrite(n, c) PROVE DiskStep
  <2>1. c \in Seq(Chunks) BY DirAssumption
  <2> QED BY Zenon, <1>1, <2>1, NamesCanon DEF ShellWrite, DiskStep
<1>2. ASSUME NEW off \in 0 .. 1, NEW chunk \in Chunks, VfsWrite(off, chunk) PROVE DiskStep
  <2>1. off \in Nat OBVIOUS
  <2> QED BY Zenon, <1>2, <2>1, VfsWriteWrites DEF DiskStep
<1>3. ASSUME (\E n \in Names : Open(n)) \/ Lookup \/ VfsWritten \/ UNCHANGED dvars PROVE UNCHANGED vars
  BY Zenon, <1>3 DEF Open, Lookup, VfsWritten, dvars
<1>4. ASSUME WriteGoesOn \/ Reboot \/ Boot PROVE DiskStep
  BY Zenon, <1>4 DEF WriteGoesOn, Reboot, Boot, DiskStep
<1> QED BY Zenon, <1>1, <1>2, <1>3, <1>4 DEF DNext

\* Nothing but write_root_entry touches the directory.
LEMMA DirUntouched ==
  ASSUME DiskStep \/ UNCHANGED vars, ~WriteEntry
  PROVE  dir' = dir
<1>1. ASSUME NEW n, NEW c, WriteFile(n, c) PROVE dir' = dir BY Zenon, <1>1 DEF WriteFile, disk
<1>2. ASSUME Crash \/ Mount \/ UNCHANGED vars PROVE dir' = dir BY Zenon, <1>2 DEF Crash, Mount, vars, disk
<1>3. ASSUME WriteCluster \/ FlushSector PROVE dir' = dir BY Zenon, <1>3 DEF WriteCluster, FlushSector
<1> QED BY Zenon, <1>1, <1>2, <1>3 DEF DiskStep

\* The entry write_root_entry writes.
LEMMA EntryWritten ==
  ASSUME TypeOK, NInv, NameInv, WriteEntry, dir' # dir
  PROVE  /\ op.slot \in RootSlots /\ op.entry \in Entries /\ NewEntry.kind = op.entry.kind
         /\ NewEntry.name = op.entry.name /\ dir' = [dir EXCEPT ![op.slot] = NewEntry]
         /\ dir'[op.slot] = NewEntry /\ \A s \in RootSlots \ {op.slot} : dir'[s] = dir[s]
         /\ pc = "data"
<1>1. pc = "data" /\ dir' = [dir EXCEPT ![op.slot] = NewEntry] BY Zenon DEF WriteEntry, Committed
<1>2. op.slot \in RootSlots /\ op.entry \in Entries BY ZenonT(60), <1>1 DEF NInv, NameChosen, TypeOK
<1>3. NewEntry.kind = op.entry.kind /\ NewEntry.name = op.entry.name BY Zenon, <1>2 DEF NewEntry, Entries
<1>4. dir'[op.slot] = NewEntry /\ \A s \in RootSlots \ {op.slot} : dir'[s] = dir[s]
  BY <1>1, <1>2 DEF TypeOK
<1> QED BY Zenon, <1>1, <1>2, <1>3, <1>4

LEMMA NameInvStep ==
  ASSUME TypeOK, NInv, NameInv, DiskStep \/ UNCHANGED vars
  PROVE  NameInv'
<1>1. ASSUME NEW n \in Canon, NEW c \in Seq(Chunks), WriteFile(n, c) PROVE NameInv'
  <2>1. dir' = dir BY Zenon, <1>1 DEF WriteFile, disk
  <2>2. PICK s \in RootSlots \cup {0} :
          /\ FindRootEntry(n, s) \/ s = 0
          /\ \/ s # 0 /\ Begin(s, dir[s], c)
             \/ s = 0 /\ \E free \in RootSlots \cup {0} :
                  \/ /\ free # 0 /\ FindFreeRootEntry(free)
                     /\ Begin(free, [Blank("file") EXCEPT !.name = n], c)
                  \/ free = 0 /\ Fails
    BY Zenon, <1>1 DEF WriteFile
  <2>3. ASSUME Fails PROVE pc' # "data" BY <2>3 DEF Fails
  <2>4. ASSUME NEW p, NEW e, Begin(p, e, c), pc' = "data" PROVE op'.slot = p /\ op'.entry = e
    BY Zenon, <2>3, <2>4 DEF Begin, NoOp
  <2>5. ASSUME pc' = "data", s # 0
        PROVE  op'.slot = s /\ op'.entry = dir[s] /\ IsFile(s) /\ s \in RootSlots
    <3>1. op'.slot = s /\ op'.entry = dir[s] BY Zenon, <2>2, <2>4, <2>5
    <3>2. IsFile(s) /\ s \in RootSlots BY <2>2, <2>5 DEF FindRootEntry, IsFirst, IsFile
    <3> QED BY <3>1, <3>2
  <2>6. ASSUME pc' = "data", s = 0
        PROVE  dir[op'.slot].kind \in {"end", "deleted"} /\ op'.entry.kind = "file" /\ op'.entry.name = n
    <3>1. PICK free \in RootSlots : /\ FindFreeRootEntry(free)
                                    /\ Begin(free, [Blank("file") EXCEPT !.name = n], c)
      BY Zenon, <2>2, <2>3, <2>6
    <3>2. op'.slot = free /\ op'.entry = [Blank("file") EXCEPT !.name = n] BY Zenon, <2>4, <2>6, <3>1
    <3>3. dir[free].kind \in {"end", "deleted"}
      <4>1. free # 0 BY DEF RootSlots
      <4> QED BY Zenon, <3>1, <4>1 DEF FindFreeRootEntry, IsFirst
    <3>4. op'.entry.kind = "file" /\ op'.entry.name = n BY <3>2 DEF Blank
    <3> QED BY Zenon, <3>2, <3>3, <3>4
  <2>7. pc' = "data" => /\ op'.entry.kind = "file" => op'.entry.name \in Canon
                        /\ \/ IsFile(op'.slot) /\ op'.entry.kind = dir[op'.slot].kind
                              /\ op'.entry.name = dir[op'.slot].name
                           \/ dir[op'.slot].kind \in {"end", "deleted"} /\ op'.entry.kind = "file"
    BY Zenon, <2>5, <2>6 DEF NameInv
  <2> QED BY Zenon, <2>1, <2>7 DEF NameInv, IsFile
<1>2. ASSUME WriteCluster PROVE NameInv'
  <2>1. dir' = dir /\ pc = "data" BY Zenon, <1>2 DEF WriteCluster
  <2>2. pc' = "data" => op'.slot = op.slot /\ op'.entry = op.entry
    BY <1>2 DEF WriteCluster, Fails, TypeOK
  <2> QED BY Zenon, <2>1, <2>2 DEF NameInv, IsFile
<1>3. ASSUME FlushSector \/ Crash \/ Mount PROVE NameInv'
  <2>1. dir' = dir BY Zenon, <1>3 DEF FlushSector, Crash, Mount, disk
  <2>2. pc' # "data" BY <1>3 DEF FlushSector, Crash, Mount, Fails
  <2> QED BY Zenon, <2>1, <2>2 DEF NameInv
<1>4. ASSUME WriteEntry PROVE NameInv'
  <2>1. pc = "data" /\ pc' # "data" BY <1>4 DEF WriteEntry, Fails
  <2>2. CASE dir' = dir BY Zenon, <2>1, <2>2 DEF NameInv
  <2>3. CASE dir' # dir
    <3> SUFFICES ASSUME NEW s \in RootSlots, dir'[s].kind = "file" PROVE dir'[s].name \in Canon
      BY Zenon, <2>1 DEF NameInv
    <3>1. CASE s = op.slot BY Zenon, <1>4, <2>1, <2>3, <3>1, EntryWritten DEF NameInv
    <3>2. CASE s # op.slot BY Zenon, <1>4, <2>3, <3>2, EntryWritten DEF NameInv
    <3> QED BY <3>1, <3>2
  <2> QED BY Zenon, <2>2, <2>3
<1>5. CASE UNCHANGED vars BY Zenon, <1>5 DEF vars, disk, NameInv, IsFile
<1> QED BY Zenon, <1>1, <1>2, <1>3, <1>4, <1>5 DEF DiskStep

\* Files stay listed under their names, and new ones come behind them, unless
\* a deleted slot is filled.
LEMMA FilesGrow ==
  ASSUME TypeOK, NInv, NameInv, DiskStep \/ UNCHANGED vars
  PROVE  \/ \E t \in RootSlots : dir[t].kind = "deleted" /\ dir'[t].kind = "file"
         \/ \A s \in Files, t \in Files' \ Files : s < t
<1> SUFFICES ASSUME ~ \E t \in RootSlots : dir[t].kind = "deleted" /\ dir'[t].kind = "file",
                    NEW s \in Files, NEW t \in Files' \ Files
             PROVE  s < t
  OBVIOUS
<1>1. dir' # dir BY Zenon DEF Files, Reached
<1>2. WriteEntry BY <1>1, DirUntouched
<1> DEFINE p == op.slot
<1>3. /\ p \in RootSlots /\ dir'[p].kind = op.entry.kind /\ pc = "data"
      /\ \A j \in RootSlots \ {p} : dir'[j] = dir[j]
  BY Zenon, <1>1, <1>2, EntryWritten
<1>4. t \in RootSlots /\ Reached(t)' /\ dir'[t].kind = "file" /\ s \in RootSlots /\ Reached(s)
  BY Zenon DEF Files
<1>5. dir[p].kind = "end"
  <2>1. CASE op.entry.kind = dir[p].kind
    <3>1. \A j \in RootSlots : dir'[j].kind = dir[j].kind BY Zenon, <1>3, <2>1
    <3>2. t \in Files BY Zenon, <1>4, <3>1 DEF Files, Reached
    <3> QED BY <3>2
  <2>2. CASE dir[p].kind \in {"end", "deleted"} /\ op.entry.kind = "file" BY Zenon, <1>3, <2>2
  <2> QED BY Zenon, <1>3, <2>1, <2>2 DEF NameInv
<1> HIDE DEF p
<1>6. s < p
  <2>1. ~(p <= s) BY Zenon, <1>3, <1>4, <1>5 DEF Reached
  <2> QED BY <1>3, <1>4, <2>1 DEF RootSlots
<1>7. t = p
  <2> SUFFICES ASSUME t # p PROVE FALSE OBVIOUS
  <2>1. dir[t].kind = "file" BY Zenon, <1>3, <1>4
  <2>2. ~(p < t) BY Zenon, <1>3, <1>4, <1>5, <2>1 DEF NInv, EndsDirectory
  <2>3. t < p BY <1>3, <1>4, <2>2 DEF RootSlots
  <2>4. \A j \in RootSlots : j <= t => j # p BY <1>3, <1>4, <2>3 DEF RootSlots
  <2>5. Reached(t) BY Zenon, <1>3, <1>4, <2>4 DEF Reached
  <2> QED BY Zenon, <1>4, <2>1, <2>5 DEF Files
<1> QED BY Zenon, <1>6, <1>7

LEMMA FilesStay ==
  ASSUME TypeOK, NInv, NameInv, DiskStep \/ UNCHANGED vars
  PROVE  Files \subseteq Files' /\ \A s \in Files : dir'[s].name = dir[s].name
<1>1. CASE dir' = dir
  <2>1. Files' = Files BY Zenon, <1>1 DEF Files, Reached
  <2> QED BY Zenon, <1>1, <2>1
<1>2. CASE dir' # dir
  <2> DEFINE p == op.slot
  <2>1. /\ p \in RootSlots /\ dir'[p].kind = op.entry.kind /\ pc = "data"
        /\ dir'[p].name = op.entry.name
        /\ \A j \in RootSlots \ {p} : dir'[j] = dir[j]
    BY Zenon, <1>2, DirUntouched, EntryWritten
  <2>2. op.entry.kind \in {"dir", "file"} BY Zenon, <2>1 DEF NInv, NameChosen
  <2>3. IsFile(p) => op.entry.kind = dir[p].kind /\ op.entry.name = dir[p].name
    BY <2>1 DEF NameInv, IsFile
  <2> HIDE DEF p
  <2>4. ASSUME NEW s \in Files
        PROVE  s \in RootSlots /\ dir'[s].kind = "file" /\ dir'[s].name = dir[s].name
    <3>1. s \in RootSlots /\ dir[s].kind = "file" BY DEF Files
    <3> QED BY Zenon, <2>1, <2>3, <3>1 DEF IsFile
  <2>5. ASSUME NEW s \in Files PROVE Reached(s)'
    <3>1. Reached(s) BY Zenon DEF Files
    <3>2. dir'[p].kind # "end" BY Zenon, <2>1, <2>2
    <3> QED BY Zenon, <2>1, <3>1, <3>2 DEF Reached
  <2> QED BY Zenon, <2>4, <2>5 DEF Files
<1> QED BY <1>1, <1>2

\* write_file's return only changes the size of the descriptor's node.
LEMMA WrittenNodes ==
  ASSUME CacheInv, VfsWritten
  PROVE  /\ node' \in Seq(NodeRecs) /\ Len(node') = Len(node)
         /\ \A k \in 1 .. Len(node) : node'[k].name = node[k].name
<1>1. node' = IF ret = 0 THEN [node EXCEPT ![open.node].size = offset] ELSE node BY Zenon DEF VfsWritten
<1>2. node \in Seq(NodeRecs) /\ offset \in Nat /\ Len(node) \in Nat BY DEF CacheInv
<1>3. \A k \in 1 .. Len(node) : node[k] \in NodeRecs BY <1>2
<1>4. ASSUME NEW k \in 1 .. Len(node)
      PROVE  [node[k] EXCEPT !.size = offset] \in NodeRecs /\ [node[k] EXCEPT !.size = offset].name = node[k].name
  BY <1>2, <1>3 DEF NodeRecs
<1>5. CASE ret = 0
  <2>1. node' = [k \in 1 .. Len(node) |-> IF k = open.node THEN [node[k] EXCEPT !.size = offset] ELSE node[k]]
    <3>1. DOMAIN node = 1 .. Len(node) BY <1>2
    <3>2. node' = [node EXCEPT ![open.node].size = offset] BY <1>1, <1>5
    <3>3. DOMAIN node' = DOMAIN node BY <3>2
    <3>4. ASSUME NEW k \in DOMAIN node
          PROVE  node'[k] = IF k = open.node THEN [node[k] EXCEPT !.size = offset] ELSE node[k]
      BY <3>2
    <3>5. node' = [k \in DOMAIN node |-> node'[k]] BY Zenon, <3>2
    <3> QED BY Zenon, <3>1, <3>4, <3>5
  <2>2. \A k \in 1 .. Len(node) : node'[k] \in NodeRecs /\ node'[k].name = node[k].name
    BY Zenon, <1>3, <1>4, <2>1
  <2>3. node' = [k \in 1 .. Len(node) |-> node'[k]] BY <2>1
  <2> QED BY <1>2, <2>2, <2>3
<1>6. CASE ret # 0 BY <1>1, <1>2, <1>6
<1> QED BY <1>5, <1>6

LEMMA CacheRefreshed ==
  ASSUME TypeOK, CacheInv, NameInv, NEW mounted \in BOOLEAN, RefreshNodes(mounted), offset' = offset
  PROVE  CacheInv'
<1>1. PICK n \in 0 .. Len(Listed) : Refreshed(n) BY Zenon, RefreshMakes
<1>2. n \in 0 .. MaxFiles
  <2>1. Len(Listed) \in Nat BY ListedIs, ListOfFiles
  <2> QED BY <1>1, <2>1, DiskVfsAssumption DEF Refreshed
<1> QED BY Zenon, <1>1, <1>2 DEF Refreshed, CacheInv

LEMMA CacheInvStep ==
  ASSUME TypeOK, CacheInv, NameInv, OpenInv, [DNext]_dvars
  PROVE  CacheInv'
<1>0. ready \in BOOLEAN BY DEF TypeOK
<1>1. ASSUME NEW n \in Names, Open(n) PROVE CacheInv' BY Zenon, <1>0, <1>1, CacheRefreshed DEF Open
<1>2. ASSUME Lookup PROVE CacheInv' BY Zenon, <1>0, <1>2, CacheRefreshed DEF Lookup
<1>3. ASSUME Boot PROVE CacheInv'
  <2>1. ready' \in BOOLEAN BY Zenon, <1>3 DEF Boot, Mount
  <2> QED BY Zenon, <1>3, <2>1, CacheRefreshed DEF Boot
<1>4. ASSUME NEW n \in Names, NEW c \in Contents, ShellWrite(n, c) PROVE CacheInv'
  BY Zenon, <1>4 DEF ShellWrite, cache, CacheInv
<1>5. ASSUME NEW off \in 0 .. 1, NEW chunk \in Chunks, VfsWrite(off, chunk) PROVE CacheInv'
  <2>1. open # NoFd BY ZenonT(60), <1>5 DEF VfsWrite
  <2>2. node[open.node] \in NodeRecs BY <2>1 DEF OpenInv, CacheInv
  <2>3. node[open.node].size \in Nat BY ZenonT(60), <2>2 DEF NodeRecs
  <2>4. offset' \in {off + 1, node[open.node].size} BY ZenonT(60), <1>5 DEF VfsWrite
  <2>5. off + 1 \in Nat OBVIOUS
  <2>6. offset' \in Nat BY Zenon, <2>3, <2>4, <2>5
  <2> QED BY Zenon, <1>5, <2>6 DEF VfsWrite, cache, CacheInv
<1>6. ASSUME VfsWritten PROVE CacheInv'
  <2>1. offset' = 0 /\ UNCHANGED <<file_nodes, node_count>> BY Zenon, <1>6 DEF VfsWritten
  <2>2. offset' \in Nat BY <2>1
  <2> QED BY Zenon, <1>6, <2>1, <2>2, WrittenNodes DEF CacheInv
<1>7. ASSUME WriteGoesOn PROVE CacheInv' BY Zenon, <1>7 DEF WriteGoesOn, cache, CacheInv
<1>8. ASSUME Reboot PROVE CacheInv'
  <2>1. node' = <<>> /\ node_count' = 0 /\ offset' = 0 /\ file_nodes' = [i \in 1 .. MaxFiles |-> 0]
    BY Zenon, <1>8 DEF Reboot
  <2> QED BY <2>1, DiskVfsAssumption DEF CacheInv
<1>9. CASE UNCHANGED dvars BY Zenon, <1>9 DEF dvars, cache, CacheInv
<1> QED BY ZenonT(60), <1>1, <1>2, <1>3, <1>4, <1>5, <1>6, <1>7, <1>8, <1>9 DEF DNext

\* refresh_nodes under an open descriptor.
LEMMA OpenRefreshed ==
  ASSUME TypeOK, CacheInv, NameInv, OpenInv, NEW mounted \in BOOLEAN, RefreshNodes(mounted),
         UNCHANGED <<dir, pc, open, filled>>
  PROVE  OpenInv'
<1>1. PICK n \in 0 .. Len(Listed) : Refreshed(n) BY RefreshMakes
<1>2. Files' = Files /\ Listed' = Listed
  <2>1. Files' = Files BY Zenon DEF Files, Reached
  <2> QED BY Zenon, <2>1, ListedIs
<1>3. Len(Listed) = Cardinality(Files) /\ Len(node) \in Nat /\ Len(node') \in Nat /\ Len(Listed) \in Nat
  <2>1. Len(Listed) = Cardinality(Files) BY Zenon, ListedIs, ListOfFiles
  <2>2. Cardinality(Files) \in Nat BY Zenon, ListedIs, UpToFinite
  <2>3. node \in Seq(NodeRecs) /\ node' \in Seq(NodeRecs) BY Zenon, <1>1 DEF CacheInv, Refreshed
  <2> QED BY <2>1, <2>2, <2>3
<1> SUFFICES ASSUME open # NoFd PROVE OpenInv' BY Zenon DEF OpenInv
<1>4. open.node \in 1 .. Len(node') /\ open.node \in 1 .. Len(node)
  <2>1. open.node \in 1 .. Len(node) /\ Len(node) <= Len(node')
    BY Zenon, <1>1 DEF OpenInv, Refreshed
  <2> QED BY <1>3, <2>1
<1>5. ASSUME ~filled, NEW i \in 1 .. n, file_nodes'[i] = open.node
      PROVE  i \in 1 .. Cardinality(Files) /\ Listed[i] = open.slot
  <2>1. i <= node_count /\ file_nodes[i] = open.node BY Zenon, <1>1, <1>4, <1>5 DEF Refreshed
  <2>2. i \in 1 .. node_count
    <3>1. node_count \in Nat BY DiskVfsAssumption DEF CacheInv
    <3> QED BY <1>3, <2>1, <3>1
  <2> QED BY ZenonT(60), <1>5, <2>1, <2>2 DEF OpenInv
<1>6. ASSUME ~filled PROVE node'[open.node].name = From83(dir[open.slot].name)
  <2>1. CASE \E i \in 1 .. n : file_nodes'[i] = open.node
    BY ZenonT(60), <1>1, <1>5, <1>6, <2>1 DEF Refreshed
  <2>2. CASE \A i \in 1 .. n : file_nodes'[i] # open.node
    <3>1. node'[open.node] = node[open.node] BY Zenon, <1>1, <1>4, <2>2 DEF Refreshed
    <3> QED BY Zenon, <1>6, <3>1 DEF OpenInv
  <2> QED BY <2>1, <2>2
<1> QED BY ZenonT(60), <1>1, <1>2, <1>4, <1>5, <1>6 DEF OpenInv, Refreshed

LEMMA OpenInvOpen ==
  ASSUME TypeOK, CacheInv, NameInv, OpenInv, NEW name, Open(name)
  PROVE  OpenInv'
<1>0. ready \in BOOLEAN BY DEF TypeOK
<1>1. PICK n \in 0 .. Len(Listed) : Refreshed(n) BY Zenon, <1>0, RefreshMakes DEF Open
<1>2. pc = "idle" /\ pc' = pc /\ dir' = dir BY Zenon DEF Open, vars, disk
<1>3. Files' = Files /\ Listed' = Listed
  <2>1. Files' = Files BY Zenon, <1>2 DEF Files, Reached
  <2> QED BY Zenon, <2>1, ListedIs
<1>4. Len(Listed) = Cardinality(Files) /\ Len(Listed) \in Nat
      /\ \A i \in 1 .. Len(Listed) : Listed[i] \in Files
  BY ListedIs, ListOfFiles
<1>5. PICK i \in 0 .. n : open' = IF i = 0 THEN NoFd ELSE [node |-> file_nodes'[i], slot |-> Listed[i]]
  BY Zenon, <1>1 DEF Open, Refreshed
<1>6. CASE i = 0 BY Zenon, <1>2, <1>5, <1>6 DEF OpenInv
<1>7. CASE i # 0
  <2>1. i \in 1 .. n /\ i \in 1 .. Len(Listed) BY <1>4, <1>7
  <2>2. open'.node = file_nodes'[i] /\ open'.slot = Listed[i] BY <1>5, <1>7
  <2>3. open'.node \in 1 .. Len(node') /\ open'.slot \in Files' BY ZenonT(60), <1>1, <1>3, <1>4, <2>1, <2>2 DEF Refreshed
  <2>4. node'[open'.node].name = From83(dir'[open'.slot].name)
    BY Zenon, <1>1, <1>2, <2>1, <2>2 DEF Refreshed
  <2>5. ASSUME NEW j \in 1 .. node_count', file_nodes'[j] = open'.node
        PROVE  j \in 1 .. Cardinality(Files') /\ Listed'[j] = open'.slot
    <3>1. j = i BY ZenonT(60), <1>1, <2>1, <2>2, <2>5 DEF Refreshed
    <3> QED BY Zenon, <1>3, <1>4, <2>1, <2>2, <3>1
  <2>6. pc' # "down" BY Zenon, <1>2
  <2> QED BY Zenon, <2>3, <2>4, <2>5, <2>6 DEF OpenInv
<1> QED BY Zenon, <1>6, <1>7

\* The driver works on, under a descriptor nothing is done with.
LEMMA OpenInvDriver ==
  ASSUME TypeOK, NInv, NameInv, OpenInv, DiskStep \/ UNCHANGED vars, pc' # "down",
         Len(node') = Len(node), \A k \in 1 .. Len(node) : node'[k].name = node[k].name,
         UNCHANGED <<file_nodes, node_count, open>>, filled => filled',
         (\E t \in RootSlots : dir[t].kind = "deleted" /\ dir'[t].kind = "file") => filled'
  PROVE  OpenInv'
<1> SUFFICES ASSUME open # NoFd PROVE OpenInv' BY Zenon DEF OpenInv
<1>1. Files \subseteq Files' /\ dir'[open.slot].name = dir[open.slot].name /\ open.slot \in Files
      /\ open.node \in 1 .. Len(node)
  BY Zenon, FilesStay DEF OpenInv
<1>2. CASE filled' BY Zenon, <1>1, <1>2 DEF OpenInv
<1>3. CASE ~filled'
  <2>1. ~filled /\ \A s \in Files, t \in Files' \ Files : s < t BY Zenon, <1>3, FilesGrow
  <2>2. node'[open.node].name = From83(dir'[open.slot].name) BY Zenon, <1>1, <2>1 DEF OpenInv
  <2>3. ASSUME NEW i \in 1 .. node_count, file_nodes[i] = open.node
        PROVE  i \in 1 .. Cardinality(Files') /\ Listed'[i] = open.slot
    <3>1. i \in 1 .. Cardinality(Files) /\ Listed[i] = open.slot BY Zenon, <2>1, <2>3 DEF OpenInv
    <3> QED BY Zenon, <1>1, <2>1, <3>1, ListedIs, ListOfKept
  <2> QED BY Zenon, <1>1, <2>2, <2>3 DEF OpenInv
<1> QED BY Zenon, <1>2, <1>3

LEMMA OpenInvStep ==
  ASSUME TypeOK, NInv, CacheInv, NameInv, OpenInv, [DNext]_dvars
  PROVE  OpenInv'
<1>0. (DiskStep \/ UNCHANGED vars) /\ ready \in BOOLEAN BY ZenonT(60), DiskSteps DEF TypeOK
<1>1. ASSUME NEW n \in Names, Open(n) PROVE OpenInv' BY <1>1, OpenInvOpen
<1>2. ASSUME Lookup PROVE OpenInv'
  <2>1. UNCHANGED <<dir, pc, open, filled>> BY Zenon, <1>2 DEF Lookup, vars, disk
  <2> QED BY Zenon, <1>0, <1>2, <2>1, OpenRefreshed DEF Lookup
<1>3. ASSUME Boot PROVE OpenInv'
  <2>1. pc = "down" /\ open' = open BY Zenon, <1>3 DEF Boot, Mount
  <2> QED BY Zenon, <2>1 DEF OpenInv
<1>4. ASSUME Reboot PROVE OpenInv' BY Zenon, <1>4 DEF Reboot, OpenInv
<1>5. ASSUME \/ \E n \in Names, c \in Contents : ShellWrite(n, c)
             \/ \E off \in 0 .. 1, chunk \in Chunks : VfsWrite(off, chunk)
      PROVE  OpenInv'
  <2>1. UNCHANGED <<node, file_nodes, node_count, open, filled>>
    BY Zenon, <1>5 DEF ShellWrite, VfsWrite, cache
  <2>2. PICK n, c : WriteFile(n, c) BY Zenon, <1>5 DEF ShellWrite, VfsWrite
  <2>3. dir' = dir BY Zenon, <2>2 DEF WriteFile, disk
  <2>4. pc' # "down" BY Zenon, <2>2 DEF WriteFile, Begin, Fails
  <2>5. ~ \E t \in RootSlots : dir[t].kind = "deleted" /\ dir'[t].kind = "file" BY <2>3
  <2> QED BY Zenon, <1>0, <2>1, <2>4, <2>5, OpenInvDriver
<1>6. ASSUME VfsWritten PROVE OpenInv'
  <2>1. UNCHANGED <<dir, pc, file_nodes, node_count, open, filled>> BY Zenon, <1>6 DEF VfsWritten, vars, disk
  <2>2. pc' # "down" BY Zenon, <1>6, <2>1 DEF VfsWritten
  <2>3. ~ \E t \in RootSlots : dir[t].kind = "deleted" /\ dir'[t].kind = "file" BY <2>1
  <2> QED BY ZenonT(60), <1>0, <1>6, <2>1, <2>2, <2>3, WrittenNodes, OpenInvDriver
<1>7. ASSUME WriteGoesOn PROVE OpenInv'
  <2>1. UNCHANGED <<node, file_nodes, node_count, open>> BY Zenon, <1>7 DEF WriteGoesOn, cache
  <2>2. pc' # "down" BY ZenonT(60), <1>7 DEF WriteGoesOn, WriteCluster, WriteEntry, FlushSector, Fails
  <2>3. filled' = (filled \/ \E s \in RootSlots : dir[s].kind = "deleted" /\ dir'[s].kind = "file")
    BY Zenon, <1>7 DEF WriteGoesOn
  <2> QED BY Zenon, <1>0, <2>1, <2>2, <2>3, OpenInvDriver
<1>8. CASE UNCHANGED dvars
  <2>1. UNCHANGED <<dir, pc, node, file_nodes, node_count, open, filled>>
    BY Zenon, <1>8 DEF dvars, vars, disk, cache
  <2>2. Files' = Files /\ Listed' = Listed
    <3>1. Files' = Files BY Zenon, <2>1 DEF Files, Reached
    <3> QED BY Zenon, <3>1, ListedIs
  <2> QED BY Zenon, <2>1, <2>2 DEF OpenInv
<1> QED BY ZenonT(60), <1>1, <1>2, <1>3, <1>4, <1>5, <1>6, <1>7, <1>8 DEF DNext

LEMMA DInvInit == DInit => DInv
<1> SUFFICES ASSUME DInit PROVE DInv OBVIOUS
<1>1. LInv /\ NInv BY Zenon, LInvInit, NInvInit DEF DInit
<1>2. CacheInv BY DiskVfsAssumption DEF DInit, CacheInv
<1>3. OpenInv BY Zenon DEF DInit, OpenInv
<1>4. NameInv
  <2>1. pc = "down" BY ZenonT(60) DEF DInit, Init
  <2>2. ASSUME NEW s \in RootSlots, dir[s].kind = "file" PROVE dir[s].name \in Canon
    <3>1. dir[s] \in Given BY <2>2 DEF DInit, Init, Blank
    <3>2. dir[s].name = GivenName BY <3>1 DEF Given
    <3> QED BY ZenonT(60), <3>2, NamesAssumption, DirAssumption DEF Canon
  <2>3. pc # "data" BY <2>1
  <2> QED BY Zenon, <2>2, <2>3 DEF NameInv
<1> QED BY Zenon, <1>1, <1>2, <1>3, <1>4 DEF DInv

LEMMA DInvStep == DInv /\ [DNext]_dvars => DInv'
<1> SUFFICES ASSUME DInv, [DNext]_dvars PROVE DInv' OBVIOUS
<1>1. TypeOK /\ LInv /\ NInv /\ CacheInv /\ NameInv /\ OpenInv BY Zenon DEF DInv, NInv
<1>2. DiskStep \/ UNCHANGED vars BY <1>1, DiskSteps
<1>3. [Step]_vars BY <1>2, DiskStepIsStep
<1>4. LInv' /\ NInv' BY Zenon, <1>1, <1>3, LInvStep, NInvStep
<1>5. NameInv' BY <1>1, <1>2, NameInvStep
<1>6. CacheInv' /\ OpenInv' BY Zenon, <1>1, CacheInvStep, OpenInvStep
<1> QED BY Zenon, <1>4, <1>5, <1>6 DEF DInv

LEMMA DInvOpenReads == DInv => OpenReads
<1> SUFFICES ASSUME DInv, ready, open # NoFd, ~filled, ~misread, ~tainted, open.slot \notin torn,
                    node[open.node].size = dir[open.slot].size
             PROVE  VfsRead(open.node) = content[open.slot]
  BY Zenon DEF OpenReads
<1> DEFINE s == open.slot
           k == open.node
<1>1. TypeOK /\ FInv /\ NInv /\ NameInv /\ OpenInv BY Zenon DEF DInv, LInv, NInv
<1>2. /\ s \in RootSlots /\ Reached(s) /\ dir[s].kind = "file"
      /\ node[k].name = From83(dir[s].name) /\ dir[s].name \in Canon
  BY Zenon, <1>1 DEF OpenInv, NameInv, Files
<1> HIDE DEF s, k
<1>3. To83(node[k].name) = dir[s].name BY Zenon, <1>2 DEF Canon
<1>4. s \in Intact BY ZenonT(60), <1>2 DEF Intact, IsFile, s
<1>5. Placed(s) /\ chain[s] \in Seq(Clusters) BY Zenon, <1>1, <1>4, WallOf DEF FInv
<1>6. PICK cs \in Seq(Clusters) : cs = chain[s] BY Zenon, <1>5
<1>7. PICK c \in Seq(Chunks) : c = content[s] BY Zenon, <1>1, <1>2 DEF TypeOK
<1>8. /\ Links(fat, cs) /\ dir[s].first = FirstOf(cs) /\ dir[s].size = Len(cs) /\ Len(c) = Len(cs)
      /\ \A i \in 1 .. Len(cs) : data[cs[i]] = c[i]
  BY Zenon, <1>2, <1>5, <1>6, <1>7 DEF Placed
<1>9. ReadFile(s, Len(cs)) = c BY Zenon, <1>2, <1>8, ReadsBack
<1>10. node[k].size = Len(cs) BY Zenon, <1>8 DEF s, k
<1>11. CASE Len(cs) = 0
  <2>1. VfsRead(k) = <<>> BY ZenonT(60), <1>10, <1>11 DEF VfsRead
  <2>2. c = <<>> BY <1>8, <1>11
  <2> QED BY Zenon, <1>7, <2>1, <2>2 DEF s, k
<1>12. CASE Len(cs) # 0
  <2> DEFINE found == CHOOSE i \in RootSlots \cup {0} : FindRootEntry(dir[s].name, i)
  <2>1. found \in RootSlots \cup {0} /\ FindRootEntry(dir[s].name, found) BY Zenon, FindsSlot
  <2> HIDE DEF found
  <2>2. found \in RootSlots /\ Reached(found) /\ IsFile(found) /\ dir[found].name = dir[s].name
    BY Zenon, <1>2, <2>1 DEF FindRootEntry, IsFirst, IsFile
  <2>3. found = s BY ZenonT(60), <1>1, <1>2, <2>2 DEF NInv, NamesUnique, IsFile
  <2>4. s # 0 BY <1>2 DEF RootSlots
  <2>5. VfsRead(k) = ReadFile(s, node[k].size)
    BY ZenonT(60), <1>3, <1>10, <1>12, <2>3, <2>4 DEF VfsRead, found
  <2> QED BY Zenon, <1>7, <1>9, <1>10, <2>5 DEF s, k
<1> QED BY ZenonT(60), <1>11, <1>12

\* An open descriptor of /disk reads what was last written to the file it was
\* opened for, whatever is written under other names and however often
\* refresh_nodes makes the nodes over, as long as no deleted slot is given to a
\* new file (OpenReads): for every disk, set of names and cache size.
THEOREM DescriptorsReadTheirFile == DSpec => []OpenReads
<1>1. DSpec => []DInv BY DInvInit, DInvStep, PTL DEF DSpec
<1> QED BY <1>1, DInvOpenReads, PTL

\* What is proved of the driver holds when its files are written through nodes
\* too: fat16_vfs_write hands write_file a name of the disk and whole chunks.
THEOREM DriverUnderNodes == DSpec => [](FilesIntact /\ NamesUnique /\ NoLeak)
<1>1. DSpec => []DInv BY DInvInit, DInvStep, PTL DEF DSpec
<1>2. DInv => FilesIntact /\ NamesUnique /\ NoLeak
  <2>1. DInv => FilesIntact BY FInvFilesIntact DEF DInv, LInv
  <2>2. DInv => NamesUnique BY Zenon DEF DInv, NInv
  <2>3. DInv => NoLeak BY LInvNoLeak DEF DInv
  <2> QED BY Zenon, <2>1, <2>2, <2>3
<1> QED BY <1>1, <1>2, PTL
=============================================================================
