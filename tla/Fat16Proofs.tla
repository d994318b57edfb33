----------------------------- MODULE Fat16Proofs -----------------------------
(***************************************************************************)
(* FilesIntact, NamesUnique and NoLeak hold in every behaviour of the      *)
(* FAT16 driver, for disks of any size.                                    *)
(***************************************************************************)
EXTENDS Fat16, WellFoundedInduction, TLAPS

\* A leaf is given to the SMT solver and then to Zenon, a minute each.
USE SMTT(60), ZenonT(60)

\* The driver writes whatever it is given.
Step ==
  \/ \E n \in Names83, c \in Seq(Chunks) : WriteFile(n, c)
  \/ WriteCluster \/ WriteEntry \/ FlushSector \/ Crash \/ Mount

LEMMA NextSteps == [Next]_vars => [Step]_vars
BY DirAssumption DEF Next, Step

ClustersOf(cs) == {cs[i] : i \in 1 .. Len(cs)}

\* The links of f lead along the chain cs to its end.
Links(f, cs) ==
  \A i \in 1 .. Len(cs) : f[cs[i]] = IF i = Len(cs) THEN EOC ELSE cs[i + 1]

FirstOf(cs) == IF cs = <<>> THEN 0 ELSE cs[1]

Intact   == {s \in RootSlots : IsFile(s) /\ s \notin torn}
InFlight == IF pc = "data" THEN ClustersOf(op.clusters) ELSE {}

\* The write under way, and the states without one.
Progress ==
  /\ pc \in {"data", "flush"} => ready
  /\ ~ready => unsynced = {}
  /\ pc = "down" => ~ready
  /\ pc = "data" => /\ op.slot # 0 /\ op.entry.kind \in {"dir", "file"}
                    /\ Len(op.clusters) <= Len(op.content)
                    /\ op.copy = 1 /\ op.sector = 0

\* What has been flushed so far is what memory holds.
Flushed ==
  pc = "flush" =>
    \A e \in 0 .. FAT_ENTRIES - 1 :
      op.copy > 1 \/ e \div SectorEntries < op.sector => dfat[1][e] = fat[e]

\* The chain of an intact slot is in place, in memory and on the disk.
Placed(s) ==
  /\ Len(chain[s]) = Len(content[s]) /\ dir[s].first = FirstOf(chain[s])
  /\ dir[s].kind = "file" => dir[s].size = Len(chain[s])
  /\ \A i \in 1 .. Len(chain[s]) : data[chain[s][i]] = content[s][i]
  /\ ready => Links(fat, chain[s])
  /\ s \notin unsynced => Links(dfat[1], chain[s])

\* The clusters the write under way has allocated so far.
Allocated ==
  pc = "data" =>
    /\ Links(fat, op.clusters)
    /\ \A i \in 1 .. Len(op.clusters) : data[op.clusters[i]] = op.content[i]
    /\ op.clusters # <<>> => torn \ {op.slot} \subseteq stale

\* R is a region around the chain of g that no link leads into, that no other
\* entry points into unless it is stale, and that the disk agrees on.
Sealed(f, R) ==
  /\ \A z \in R : f[z] # 0
  /\ \A z \in Clusters \ R : f[z] \notin R

Wall(g, R) ==
  /\ ClustersOf(chain[g]) \subseteq R
  /\ ready => Sealed(fat, R) /\ InFlight \cap R = {}
  /\ g \notin unsynced => Sealed(dfat[1], R)
  /\ ready /\ g \notin unsynced => \A z \in R : fat[z] = dfat[1][z]
  /\ \A m \in RootSlots \ stale : IsFile(m) /\ m # g => dir[m].first \notin R

Core ==
  /\ Allocated
  /\ \A s \in Intact : Placed(s)
  /\ \A s \in Intact : \E R \in SUBSET Clusters : Wall(s, R)

\* The inductive invariant.
FInv == TypeOK /\ Progress /\ Flushed /\ (~tainted => Core)

-----------------------------------------------------------------------------
\* Cluster numbers are entries of the FAT, apart from the free and end marks.
LEMMA ClusterNumbers ==
  /\ FAT_ENTRIES \in Nat /\ Clusters \subseteq 0 .. FAT_ENTRIES - 1
  /\ Clusters \subseteq 0 .. EOC
  /\ 0 \notin Clusters /\ EOC \notin Clusters /\ EOC # 0 /\ 0 \in 0 .. EOC /\ EOC \in 0 .. EOC
<1>1. FAT_ENTRIES \in Nat /\ EOC \in Nat /\ FAT_ENTRIES <= EOC - 7 /\ EOC >= 10
  BY FatAssumption
<1>2. Clusters \subseteq 0 .. FAT_ENTRIES - 1 BY <1>1 DEF Clusters
<1>3. Clusters \subseteq 0 .. EOC BY <1>1 DEF Clusters
<1>4. 0 \notin Clusters /\ EOC \notin Clusters BY <1>1 DEF Clusters
<1> QED BY <1>1, <1>2, <1>3, <1>4

(* Walks.                                                                  *)

\* What a walk can visit: any closed set with its start bounds it.
LEMMA WalkInside ==
  ASSUME NEW f, NEW c, NEW S \in SUBSET Clusters, c \in S, Closed(f, S)
  PROVE  Walk(f, c) \subseteq S
BY DEF Walk

\* A walk that starts outside a sealed region stays outside.
LEMMA WalkOutside ==
  ASSUME NEW f, NEW c, NEW R \in SUBSET Clusters, Sealed(f, R), c \notin R
  PROVE  Walk(f, c) \cap R = {}
<1>1. CASE c \notin Clusters BY <1>1 DEF Walk
<1>2. CASE c \in Clusters
  <2>1. c \in Clusters \ R /\ Closed(f, Clusters \ R) BY <1>2 DEF Sealed, Closed
  <2> QED BY <2>1, WalkInside
<1> QED BY <1>1, <1>2

\* A walk along a chain's links stays on the chain.
LEMMA WalkOnChain ==
  ASSUME NEW f, NEW cs \in Seq(Clusters), Links(f, cs)
  PROVE  Walk(f, FirstOf(cs)) \subseteq ClustersOf(cs)
<1>1. CASE cs = <<>>
  <2>1. FirstOf(cs) \notin Clusters BY <1>1, ClusterNumbers DEF FirstOf
  <2> QED BY <2>1 DEF Walk
<1>2. CASE cs # <<>>
  <2>1. Len(cs) \in Nat /\ Len(cs) >= 1 /\ \A i \in 1 .. Len(cs) : cs[i] \in Clusters BY <1>2
  <2>2. ClustersOf(cs) \in SUBSET Clusters BY <2>1 DEF ClustersOf
  <2>3. FirstOf(cs) \in ClustersOf(cs) BY <1>2, <2>1 DEF FirstOf, ClustersOf
  <2>4. Closed(f, ClustersOf(cs))
    <3> SUFFICES ASSUME NEW i \in 1 .. Len(cs), f[cs[i]] \in Clusters
                 PROVE  f[cs[i]] \in ClustersOf(cs)
      BY DEF Closed, ClustersOf
    <3>1. i # Len(cs) BY ClusterNumbers DEF Links
    <3>2. f[cs[i]] = cs[i + 1] /\ i + 1 \in 1 .. Len(cs) BY <2>1, <3>1 DEF Links
    <3> QED BY <3>2 DEF ClustersOf
  <2> QED BY <2>2, <2>3, <2>4, WalkInside
<1> QED BY <1>1, <1>2

\* The clusters from which f leads into the chain cs.
Basin(f, cs) == {z \in Clusters : Walk(f, z) \cap ClustersOf(cs) # {}}

\* They are a sealed region around it.
LEMMA BasinSealed ==
  ASSUME NEW f, NEW cs \in Seq(Clusters), Links(f, cs)
  PROVE  /\ Basin(f, cs) \in SUBSET Clusters
         /\ ClustersOf(cs) \subseteq Basin(f, cs)
         /\ Sealed(f, Basin(f, cs))
<1>0. \A i \in 1 .. Len(cs) : cs[i] \in Clusters OBVIOUS
<1>1. ClustersOf(cs) \subseteq Basin(f, cs)
  <2> SUFFICES ASSUME NEW z \in ClustersOf(cs) PROVE z \in Basin(f, cs) OBVIOUS
  <2>1. z \in Clusters BY <1>0 DEF ClustersOf
  <2>2. z \in Walk(f, z) BY <2>1 DEF Walk
  <2> QED BY <2>1, <2>2 DEF Basin
<1>2. ASSUME NEW z \in Basin(f, cs) PROVE f[z] # 0
  <2> SUFFICES ASSUME f[z] = 0 PROVE FALSE OBVIOUS
  <2>1. z \in Clusters BY DEF Basin
  <2>2. Closed(f, {z}) BY ClusterNumbers DEF Closed
  <2>3. Walk(f, z) \subseteq {z} BY <2>1, <2>2, WalkInside
  <2>4. z \in ClustersOf(cs) BY <2>3 DEF Basin
  <2>5. PICK i \in 1 .. Len(cs) : z = cs[i] BY <2>4 DEF ClustersOf
  <2>6. f[cs[i]] = EOC \/ (f[cs[i]] = cs[i + 1] /\ i + 1 \in 1 .. Len(cs)) BY DEF Links
  <2>7. f[cs[i]] # 0 BY <1>0, <2>6, ClusterNumbers
  <2> QED BY <2>5, <2>7
<1>3. ASSUME NEW z \in Clusters \ Basin(f, cs) PROVE f[z] \notin Basin(f, cs)
  <2> SUFFICES ASSUME f[z] \in Basin(f, cs) PROVE FALSE OBVIOUS
  <2>1. f[z] \in Clusters /\ Walk(f, f[z]) \cap ClustersOf(cs) # {} BY DEF Basin
  <2>2. Walk(f, f[z]) \subseteq Walk(f, z) BY <2>1 DEF Walk, Closed
  <2> QED BY <2>1, <2>2 DEF Basin
<1> QED BY <1>1, <1>2, <1>3 DEF Sealed, Basin

-----------------------------------------------------------------------------
(* Types.                                                                  *)

\* Every entry of the FAT lies in one of its sectors.
LEMMA SectorOfEntry ==
  ASSUME NEW e \in 0 .. FAT_ENTRIES - 1
  PROVE  e \div SectorEntries \in Nat /\ e \div SectorEntries < FAT_SECTORS
<1>1. SectorEntries \in Nat \ {0} /\ FAT_SECTORS \in Nat /\ FAT_ENTRIES \in Nat BY FatAssumption
<1>2. e < FAT_SECTORS * SectorEntries BY <1>1 DEF FAT_ENTRIES
<1> QED BY <1>1, <1>2

LEMMA NoOpType ==
  NoOp \in [slot : RootSlots \cup {0}, entry : Entries, content : Seq(Chunks),
            clusters : Seq(Clusters), copy : Copies, sector : Nat]
<1>1. 1 \in Copies BY FatAssumption DEF Copies
<1>2. Blank("end") \in Entries BY DEF Blank, Entries, Kinds
<1> QED BY <1>1, <1>2 DEF NoOp

LEMMA TypeInit == Init => TypeOK
<1> SUFFICES ASSUME Init PROVE TypeOK OBVIOUS
<1>1. \A k \in {"end", "deleted", "label"} : Blank(k) \in Entries BY DEF Blank, Entries, Kinds
<1>2. 2 \in Clusters BY FatAssumption DEF Clusters
<1>3. Given \subseteq Entries BY <1>2, DirAssumption DEF Given, Entries, Kinds
<1>4. dir \in [RootSlots -> Entries] BY <1>1, <1>3 DEF Init
<1>5. fat \in Fats BY ClusterNumbers DEF Init, Fats
<1>6. dfat \in [Copies -> Fats] BY Zenon, <1>5 DEF Init
<1>7. content \in [RootSlots -> Seq(Chunks)] /\ chain \in [RootSlots -> Seq(Clusters)]
  <2>1. <<Zero>> \in Seq(Chunks) /\ <<2>> \in Seq(Clusters) BY <1>2, DirAssumption
  <2> QED BY <2>1 DEF Init
<1>8. data \in [Clusters -> Chunks] BY DirAssumption DEF Init
<1> QED BY Zenon, <1>4, <1>5, <1>6, <1>7, <1>8, NoOpType DEF Init, TypeOK

LEMMA TypeStep == TypeOK /\ Progress /\ [Step]_vars => TypeOK'
<1> SUFFICES ASSUME TypeOK, Progress, [Step]_vars PROVE TypeOK' OBVIOUS
<1> DEFINE Ops == [slot : RootSlots \cup {0}, entry : Entries, content : Seq(Chunks),
                   clusters : Seq(Clusters), copy : Copies, sector : Nat]
<1>1. ASSUME Fails PROVE pc' = "idle" /\ ret' = -1 /\ op' \in Ops /\ faults' \in Nat
  BY <1>1, NoOpType DEF Fails, TypeOK
<1>2. ASSUME NEW n \in Names83, NEW c \in Seq(Chunks), WriteFile(n, c) PROVE TypeOK'
  <2>1. ASSUME NEW s \in RootSlots, NEW e \in Entries, Begin(s, e, c)
        PROVE  op' \in Ops /\ pc' \in {"idle", "data"} /\ ret' \in {0, -1} /\ faults' \in Nat
    <3>1. c \in Seq(Chunks) BY DirAssumption
    <3>2. [NoOp EXCEPT !.slot = s, !.entry = e, !.content = c] \in Ops BY Zenon, <3>1, NoOpType
    <3> QED BY Zenon, <1>1, <2>1, <3>2 DEF Begin, TypeOK
  <2>2. PICK s \in RootSlots \cup {0} :
          \/ s # 0 /\ Overwrite(s) /\ Begin(s, dir[s], c)
          \/ /\ s = 0 /\ UNCHANGED <<fat, torn, tainted>>
             /\ \E free \in RootSlots \cup {0} :
                  \/ /\ free # 0 /\ FindFreeRootEntry(free)
                     /\ Begin(free, [Blank("file") EXCEPT !.name = n], c)
                  \/ free = 0 /\ Fails
    BY Zenon, <1>2 DEF WriteFile
  <2>3. misread' \in BOOLEAN BY <1>2 DEF WriteFile, TypeOK
  <2>4. UNCHANGED <<disk, ready, content, chain, unsynced, stale>> BY <1>2 DEF WriteFile
  <2>5. CASE s # 0 /\ Overwrite(s) /\ Begin(s, dir[s], c)
    <3>1. dir[s] \in Entries /\ s \in RootSlots BY <2>5 DEF TypeOK
    <3>2. fat' \in Fats BY <2>5, ClusterNumbers DEF Overwrite, FreeChain, Fats, TypeOK
    <3>3. torn' \subseteq RootSlots /\ stale \subseteq torn' /\ tainted' \in BOOLEAN
      BY <2>5, <3>1 DEF Overwrite, TypeOK
    <3>4. op' \in Ops /\ pc' \in {"idle", "data"} /\ ret' \in {0, -1} /\ faults' \in Nat
      BY <2>1, <2>5, <3>1
    <3> QED BY Zenon, <2>3, <2>4, <3>2, <3>3, <3>4 DEF TypeOK, disk
  <2>6. CASE s = 0 /\ UNCHANGED <<fat, torn, tainted>>
             /\ \E free \in RootSlots \cup {0} :
                  \/ /\ free # 0 /\ FindFreeRootEntry(free)
                     /\ Begin(free, [Blank("file") EXCEPT !.name = n], c)
                  \/ free = 0 /\ Fails
    <3>1. [Blank("file") EXCEPT !.name = n] \in Entries BY DEF Blank, Entries, Kinds
    <3>2. op' \in Ops /\ pc' \in {"idle", "data"} /\ ret' \in {0, -1} /\ faults' \in Nat
      BY <1>1, <2>1, <2>6, <3>1
    <3> QED BY Zenon, <2>3, <2>4, <2>6, <3>2 DEF TypeOK, disk
  <2> QED BY Zenon, <2>2, <2>5, <2>6
<1>3. ASSUME WriteCluster PROVE TypeOK'
  <2>1. PICK c \in Clusters \cup {0} :
          \/ c = 0 /\ Fails /\ UNCHANGED <<data, fat, stale>>
          \/ /\ c # 0
             /\ fat' = Link(fat, op.clusters, c)
             /\ stale' = stale \cup (torn \ {op.slot})
             /\ \E o \in IF c <= LastCluster THEN Outcomes ELSE {"failed"} :
                  /\ data' = IF OnDisk(o)
                             THEN [data EXCEPT ![c] = op.content[Len(op.clusters) + 1]]
                             ELSE data
                  /\ \/ o # "ok" /\ Fails
                     \/ /\ o = "ok" /\ op' = [op EXCEPT !.clusters = Append(@, c)]
                        /\ UNCHANGED <<pc, ret, faults>>
    BY <1>3 DEF WriteCluster
  <2>2. UNCHANGED <<dir, dfat, ready, content, chain, torn, unsynced, tainted, misread>>
    BY <1>3 DEF WriteCluster
  <2>3. CASE c = 0 BY <1>1, <2>1, <2>2, <2>3 DEF TypeOK
  <2>4. CASE c # 0
    <3>1. c \in Clusters BY <2>4
    <3>2. op.clusters \in Seq(Clusters) /\ op.content \in Seq(Chunks) BY DEF TypeOK
    <3>3. op.content[Len(op.clusters) + 1] \in Chunks BY <1>3, <3>2 DEF WriteCluster
    <3>4. data' \in [Clusters -> Chunks] BY <2>1, <2>4, <3>1, <3>3 DEF TypeOK
    <3>5. fat' \in Fats BY Zenon, <2>1, <2>4, <3>1, ClusterNumbers DEF Link, Fats, TypeOK
    <3>6. stale' \subseteq torn' BY <2>1, <2>2, <2>4 DEF TypeOK
    <3>7. [op EXCEPT !.clusters = Append(@, c)] \in Ops
      <4>1. Append(op.clusters, c) \in Seq(Clusters) BY <3>1, <3>2
      <4>2. op \in Ops BY DEF TypeOK
      <4> QED BY Zenon, <4>1, <4>2
    <3>8. op' \in Ops /\ pc' \in {"down", "idle", "data", "flush"} /\ ret' \in {0, -1}
          /\ faults' \in Nat
      BY Zenon, <1>1, <2>1, <2>4, <3>7 DEF TypeOK
    <3> QED BY Zenon, <2>2, <3>4, <3>5, <3>6, <3>8 DEF TypeOK
  <2> QED BY <2>3, <2>4
<1>4. ASSUME WriteEntry PROVE TypeOK'
  <2>1. NewEntry \in Entries
    <3>1. op.clusters \in Seq(Clusters) /\ op.content \in Seq(Chunks) /\ op.entry \in Entries
      BY DEF TypeOK
    <3>2. (IF op.clusters = <<>> THEN 0 ELSE op.clusters[1]) \in Clusters \cup {0} BY <3>1
    <3>3. Len(op.content) \in Nat BY <3>1
    <3> QED BY Zenon, <3>1, <3>2, <3>3 DEF NewEntry, Entries
  <2>2. UNCHANGED <<dfat, data, fat, ready, tainted, misread>> BY <1>4 DEF WriteEntry
  <2>3. op' \in Ops /\ pc' \in {"down", "idle", "data", "flush"} /\ ret' \in {0, -1}
        /\ faults' \in Nat
    BY <1>1, <1>4 DEF WriteEntry, TypeOK
  <2>4. ASSUME Committed
        PROVE  /\ dir' \in [RootSlots -> Entries]
               /\ content' \in [RootSlots -> Seq(Chunks)] /\ chain' \in [RootSlots -> Seq(Clusters)]
               /\ torn' \subseteq RootSlots /\ unsynced' \subseteq RootSlots /\ stale' \subseteq torn'
    <3>1. op.slot \in RootSlots \cup {0} /\ 0 \notin RootSlots BY DEF TypeOK, RootSlots
    <3>2. op.clusters \in Seq(Clusters) /\ op.content \in Seq(Chunks) BY DEF TypeOK
    <3>3. op.slot \in RootSlots BY ZenonT(60), <1>4, <3>1 DEF WriteEntry, Progress
    <3> QED BY <2>1, <2>4, <3>2, <3>3 DEF Committed, TypeOK
  <2> QED BY Zenon, <1>4, <2>2, <2>3, <2>4 DEF WriteEntry, TypeOK
<1>5. ASSUME FlushSector PROVE TypeOK'
  <2>1. UNCHANGED <<dir, data, fat, ready, content, chain, torn, stale, tainted, misread>>
    BY <1>5 DEF FlushSector
  <2>2. op.copy \in Copies /\ op.sector \in Nat /\ NUM_FATS \in Nat BY FatAssumption DEF TypeOK
  <2>3. FlushedSector(dfat[op.copy], fat, op.sector) \in Fats
    <3>1. dfat[op.copy] \in Fats /\ fat \in Fats BY <2>2 DEF TypeOK
    <3> QED BY Zenon, <3>1 DEF FlushedSector, Fats
  <2>4. dfat' \in [Copies -> Fats] BY <1>5, <2>2, <2>3 DEF FlushSector, TypeOK
  <2>5. unsynced' \subseteq RootSlots BY <1>5 DEF FlushSector, TypeOK
  <2>6. op' \in Ops /\ pc' \in {"down", "idle", "data", "flush"} /\ ret' \in {0, -1}
        /\ faults' \in Nat
    <3>0. op \in Ops BY DEF TypeOK
    <3>1. [op EXCEPT !.sector = @ + 1] \in Ops
      <4>1. op.sector + 1 \in Nat BY <2>2
      <4> QED BY <3>0, <4>1
    <3>2. ASSUME op.copy < NUM_FATS PROVE [op EXCEPT !.copy = @ + 1, !.sector = 0] \in Ops
      <4>1. op.copy + 1 \in Copies BY <2>2, <3>2 DEF Copies
      <4> QED BY Zenon, <3>0, <4>1
    <3> QED BY Zenon, <1>1, <1>5, <3>1, <3>2, NoOpType DEF FlushSector, TypeOK
  <2> QED BY Zenon, <2>1, <2>4, <2>5, <2>6 DEF TypeOK
<1>6. ASSUME Crash PROVE TypeOK'
  <2>1. torn' \subseteq RootSlots /\ unsynced' \subseteq RootSlots /\ stale' \subseteq torn'
    BY <1>6 DEF Crash, TypeOK
  <2>2. op' \in Ops BY <1>6, NoOpType DEF Crash
  <2>3. faults' \in Nat BY <1>6 DEF Crash, TypeOK
  <2>4. pc' = "down" /\ ready' = FALSE BY <1>6 DEF Crash
  <2> QED BY Zenon, <1>6, <2>1, <2>2, <2>3, <2>4 DEF Crash, TypeOK, disk
<1>7. ASSUME Mount PROVE TypeOK'
  <2>1. dfat[1] \in Fats BY FatAssumption DEF TypeOK, Copies
  <2> QED BY Zenon, <1>7, <2>1 DEF Mount, TypeOK, disk, history
<1>8. CASE UNCHANGED vars BY <1>8 DEF vars, disk, history, TypeOK
<1> QED BY <1>2, <1>3, <1>4, <1>5, <1>6, <1>7, <1>8 DEF Step

LEMMA ProgressStep == TypeOK /\ Progress /\ [Step]_vars => Progress'
<1> SUFFICES ASSUME TypeOK, Progress, [Step]_vars PROVE Progress' OBVIOUS
<1>1. ASSUME NEW n \in Names83, NEW c \in Seq(Chunks), WriteFile(n, c) PROVE Progress'
  <2> DEFINE Going == \/ pc' = "idle"
                      \/ /\ pc' = "data" /\ op'.slot # 0 /\ op'.entry.kind \in {"dir", "file"}
                         /\ Len(op'.clusters) <= Len(op'.content)
                         /\ op'.copy = 1 /\ op'.sector = 0
  <2>1. ready' = ready /\ ready /\ pc = "idle" BY <1>1 DEF WriteFile
  <2>2. ASSUME NEW s \in RootSlots, NEW e, e.kind \in {"dir", "file"}, Begin(s, e, c)
        PROVE  Going
    <3>1. 0 \notin RootSlots BY DEF RootSlots
    <3>2. c \in Seq(Chunks) BY DirAssumption
    <3>3. Len(c) \in Nat BY <3>2
    <3> DEFINE o == [NoOp EXCEPT !.slot = s, !.entry = e, !.content = c]
    <3>4. /\ o.slot = s /\ o.entry = e /\ o.content = c
          /\ o.clusters = <<>> /\ o.copy = 1 /\ o.sector = 0
      BY Zenon DEF NoOp
    <3>5. Len(<<>>) = 0 OBVIOUS
    <3>6. pc' = "idle" \/ (pc' = "data" /\ op' = o) BY <2>2 DEF Begin, Fails
    <3> HIDE DEF o
    <3> QED BY <2>2, <3>1, <3>3, <3>4, <3>5, <3>6
  <2>3. PICK s \in RootSlots \cup {0} :
          /\ FindRootEntry(n, s) \/ s = 0
          /\ \/ s # 0 /\ Begin(s, dir[s], c)
             \/ /\ s = 0
                /\ \E free \in RootSlots \cup {0} :
                     \/ free # 0 /\ Begin(free, [Blank("file") EXCEPT !.name = n], c)
                     \/ free = 0 /\ Fails
    BY Zenon, <1>1 DEF WriteFile
  <2>4. ASSUME s # 0 PROVE s \in RootSlots /\ dir[s].kind \in {"dir", "file"}
    BY <2>3, <2>4 DEF FindRootEntry, IsFirst
  <2>5. [Blank("file") EXCEPT !.name = n].kind \in {"dir", "file"} BY DEF Blank
  <2>6. Going
    <3>1. CASE s # 0 BY <2>2, <2>3, <2>4, <3>1
    <3>2. CASE s = 0
      <4>1. PICK free \in RootSlots \cup {0} :
              \/ free # 0 /\ Begin(free, [Blank("file") EXCEPT !.name = n], c)
              \/ free = 0 /\ Fails
        BY Zenon, <2>3, <3>2
      <4>2. CASE free = 0 BY <4>1, <4>2 DEF Fails
      <4>3. CASE free # 0
        <5> DEFINE e == [Blank("file") EXCEPT !.name = n]
        <5>1. free \in RootSlots /\ e.kind \in {"dir", "file"} /\ Begin(free, e, c)
          BY <2>5, <4>1, <4>3
        <5> HIDE DEF e
        <5> QED BY <2>2, <5>1
      <4> QED BY <4>2, <4>3
    <3> QED BY <3>1, <3>2
  <2> QED BY <2>1, <2>6 DEF Progress
<1>2. ASSUME WriteCluster PROVE Progress'
  <2>1. op.clusters \in Seq(Clusters) /\ op.content \in Seq(Chunks) BY DEF TypeOK
  <2>2. ready' = ready /\ unsynced' = unsynced /\ pc = "data"
        /\ Len(op.clusters) < Len(op.content)
    BY <1>2 DEF WriteCluster
  <2>3. \/ pc' = "idle"
        \/ /\ pc' = "data"
           /\ \E c \in Clusters : op' = [op EXCEPT !.clusters = Append(@, c)]
    BY <1>2 DEF WriteCluster, Fails
  <2>4. ASSUME NEW c \in Clusters, op' = [op EXCEPT !.clusters = Append(@, c)]
        PROVE  /\ op'.slot = op.slot /\ op'.entry = op.entry
               /\ op'.copy = op.copy /\ op'.sector = op.sector
               /\ Len(op'.clusters) <= Len(op'.content)
    <3>1. Len(Append(op.clusters, c)) = Len(op.clusters) + 1 BY <2>1
    <3>2. op'.clusters = Append(op.clusters, c) /\ op'.content = op.content
          /\ op'.slot = op.slot /\ op'.entry = op.entry
          /\ op'.copy = op.copy /\ op'.sector = op.sector
      BY <2>4 DEF TypeOK
    <3>3. Len(op.clusters) \in Nat /\ Len(op.content) \in Nat BY <2>1
    <3> QED BY <2>2, <3>1, <3>2, <3>3
  <2> QED BY <2>2, <2>3, <2>4 DEF Progress
<1>3. ASSUME WriteEntry PROVE Progress' BY <1>3 DEF WriteEntry, Fails, Progress
<1>4. ASSUME FlushSector PROVE Progress' BY <1>4 DEF FlushSector, Fails, Progress
<1>5. ASSUME Crash PROVE Progress' BY <1>5 DEF Crash, Progress
<1>6. ASSUME Mount PROVE Progress' BY <1>6 DEF Mount, Progress, history
<1>7. CASE UNCHANGED vars BY <1>7 DEF vars, history, Progress
<1> QED BY <1>1, <1>2, <1>3, <1>4, <1>5, <1>6, <1>7 DEF Step

LEMMA FlushedStep == TypeOK /\ Progress /\ Flushed /\ [Step]_vars => Flushed'
<1> SUFFICES ASSUME TypeOK, Progress, Flushed, [Step]_vars, pc' = "flush" PROVE Flushed'
  BY DEF Flushed
<1>1. ASSUME NEW n \in Names83, NEW c \in Seq(Chunks), WriteFile(n, c) PROVE FALSE
  BY <1>1 DEF WriteFile, Begin, Fails
<1>2. ASSUME WriteCluster PROVE FALSE BY <1>2 DEF WriteCluster, Fails
<1>3. ASSUME WriteEntry PROVE Flushed'
  <2>1. op' = op /\ op.copy = 1 /\ op.sector = 0 BY <1>3 DEF WriteEntry, Fails, Progress
  <2> QED BY <2>1, SectorOfEntry DEF Flushed
<1>4. ASSUME FlushSector PROVE Flushed'
  <2>1. PICK o \in Outcomes :
          /\ dfat' = IF OnDisk(o)
                     THEN [dfat EXCEPT ![op.copy] = FlushedSector(@, fat, op.sector)]
                     ELSE dfat
          /\ o = "ok"
          /\ \/ op.sector + 1 < FAT_SECTORS /\ op' = [op EXCEPT !.sector = @ + 1]
             \/ /\ op.sector + 1 >= FAT_SECTORS /\ op.copy < NUM_FATS
                /\ op' = [op EXCEPT !.copy = @ + 1, !.sector = 0]
    BY <1>4 DEF FlushSector, Fails
  <2>2. pc = "flush" /\ fat' = fat /\ op.copy \in Copies /\ op.sector \in Nat
        /\ FAT_SECTORS \in Nat /\ 1 \in Copies
    BY <1>4, FatAssumption DEF FlushSector, TypeOK, Copies
  <2>3. dfat' = [dfat EXCEPT ![op.copy] = FlushedSector(@, fat, op.sector)]
    BY <2>1 DEF OnDisk
  <2> SUFFICES ASSUME NEW e \in 0 .. FAT_ENTRIES - 1,
                      op'.copy > 1 \/ e \div SectorEntries < op'.sector
               PROVE  dfat'[1][e] = fat[e]
    BY <2>2 DEF Flushed
  <2>4. e \div SectorEntries \in Nat /\ e \div SectorEntries < FAT_SECTORS BY SectorOfEntry
  <2>5. e \in DOMAIN dfat[1] BY Zenon, <2>2 DEF TypeOK, Fats
  <2>6. CASE op.copy = 1
    <3>1. dfat'[1] = FlushedSector(dfat[1], fat, op.sector) BY <2>2, <2>3, <2>6 DEF TypeOK
    <3>2. dfat'[1][e] = IF e \div SectorEntries = op.sector THEN fat[e] ELSE dfat[1][e]
      BY <2>5, <3>1 DEF FlushedSector
    <3>3. e \div SectorEntries < op.sector => dfat[1][e] = fat[e] BY <2>2 DEF Flushed
    <3>4. e \div SectorEntries < op.sector + 1
      <4>1. CASE op.sector + 1 < FAT_SECTORS
        <5>1. op' = [op EXCEPT !.sector = @ + 1] BY <2>1, <2>2, <4>1
        <5>2. op'.copy = 1 /\ op'.sector = op.sector + 1 BY <2>6, <5>1 DEF TypeOK
        <5> QED BY <5>2
      <4>2. CASE op.sector + 1 >= FAT_SECTORS BY <2>2, <2>4, <4>2
      <4> QED BY <2>2, <4>1, <4>2
    <3> QED BY <2>2, <2>4, <3>2, <3>3, <3>4
  <2>7. CASE op.copy # 1
    <3>1. op.copy > 1 BY <2>2, <2>7 DEF Copies
    <3>2. dfat'[1] = dfat[1] BY <2>2, <2>3, <2>7 DEF TypeOK
    <3> QED BY <2>2, <3>1, <3>2 DEF Flushed
  <2> QED BY <2>6, <2>7
<1>5. ASSUME Crash PROVE FALSE BY <1>5 DEF Crash
<1>6. ASSUME Mount PROVE FALSE BY <1>6 DEF Mount
<1>7. CASE UNCHANGED vars BY <1>7 DEF vars, disk, Flushed
<1> QED BY <1>1, <1>2, <1>3, <1>4, <1>5, <1>6, <1>7 DEF Step


-----------------------------------------------------------------------------
(* Chains and walls.                                                       *)

LEMMA ChainClusters ==
  ASSUME NEW cs \in Seq(Clusters)
  PROVE  /\ Len(cs) \in Nat /\ \A i \in 1 .. Len(cs) : cs[i] \in Clusters
         /\ ClustersOf(cs) \in SUBSET Clusters
         /\ cs = <<>> => FirstOf(cs) = 0 /\ ClustersOf(cs) = {} /\ Len(cs) = 0
         /\ cs # <<>> => FirstOf(cs) \in ClustersOf(cs) /\ Len(cs) > 0
<1>1. Len(cs) \in Nat /\ \A i \in 1 .. Len(cs) : cs[i] \in Clusters OBVIOUS
<1>2. ClustersOf(cs) \in SUBSET Clusters BY <1>1 DEF ClustersOf
<1>3. cs = <<>> => FirstOf(cs) = 0 /\ ClustersOf(cs) = {} /\ Len(cs) = 0 BY DEF FirstOf, ClustersOf
<1>4. ASSUME cs # <<>> PROVE FirstOf(cs) \in ClustersOf(cs) /\ Len(cs) > 0
  <2>1. Len(cs) > 0 BY <1>4
  <2> QED BY <1>1, <1>4, <2>1 DEF FirstOf, ClustersOf
<1> QED BY <1>1, <1>2, <1>3, <1>4

\* A FAT that agrees with another one on a chain keeps its links.
LEMMA LinksKept ==
  ASSUME NEW f, NEW h, NEW cs, Links(f, cs), \A z \in ClustersOf(cs) : h[z] = f[z]
  PROVE  Links(h, cs)
BY DEF Links, ClustersOf

\* Outside a sealed region links may be cut or redirected, not led into it.
LEMMA SealKept ==
  ASSUME NEW f, NEW h, NEW R \in SUBSET Clusters, Sealed(f, R),
         \A z \in R : h[z] = f[z],
         \A z \in Clusters \ R : h[z] = f[z] \/ h[z] \notin R
  PROVE  Sealed(h, R)
BY DEF Sealed

-----------------------------------------------------------------------------
(* One step of the inductive invariant for each action.                    *)

LEMMA CoreInit == Init => Core
<1> SUFFICES ASSUME Init PROVE Core OBVIOUS
<1>0. TypeOK BY TypeInit
<1>1. Allocated BY DEF Init, Allocated
<1>2. 1 \in Copies /\ 2 \in Clusters BY FatAssumption DEF Copies, Clusters
<1>3. dfat[1] = fat /\ ~ready BY <1>2 DEF Init
<1>4. ASSUME NEW s \in Intact
      PROVE  /\ dir[s] \in Given /\ chain[s] = <<2>> /\ content[s] = <<Zero>>
             /\ fat = [c \in 0 .. FAT_ENTRIES - 1 |-> IF c \in 0 .. 2 THEN EOC ELSE 0]
  <2>1. s \in RootSlots /\ dir[s].kind \in {"dir", "file"} BY DEF Intact, IsFile
  <2>2. dir[s] \in Given BY <2>1 DEF Init, Blank
  <2> QED BY <2>1, <2>2 DEF Init
<1>5. ASSUME NEW s \in Intact PROVE Placed(s)
  <2>1. FirstOf(<<2>>) = 2 BY DEF FirstOf
  <2>2. Len(<<2>>) = 1 /\ Len(<<Zero>>) = 1 /\ <<2>>[1] = 2 /\ <<Zero>>[1] = Zero OBVIOUS
  <2>3. data[2] = Zero BY <1>2 DEF Init
  <2>4. fat[2] = EOC BY <1>2, <1>4, ClusterNumbers
  <2>5. Links(fat, <<2>>) BY <2>2, <2>4 DEF Links
  <2>6. dir[s].first = 2 /\ (dir[s].kind = "file" => dir[s].size = 1) BY <1>4 DEF Given
  <2>7. Len(chain[s]) = Len(content[s]) /\ FirstOf(chain[s]) = dir[s].first
        /\ Links(fat, chain[s]) /\ Links(dfat[1], chain[s]) /\ s \in Intact
    BY <1>3, <1>4, <2>1, <2>2, <2>5, <2>6
  <2>8. \A i \in 1 .. Len(chain[s]) : data[chain[s][i]] = content[s][i] BY <1>4, <2>2, <2>3
  <2> QED BY Zenon, <1>3, <1>4, <2>2, <2>6, <2>7, <2>8 DEF Placed
<1>6. ASSUME NEW s \in Intact PROVE Wall(s, {2})
  <2>1. ClustersOf(<<2>>) = {2} BY DEF ClustersOf
  <2>2. Sealed(fat, {2})
    <3>1. fat[2] = EOC /\ EOC # 0 /\ EOC # 2 BY <1>2, <1>4, ClusterNumbers
    <3>2. ASSUME NEW z \in Clusters PROVE fat[z] \in {0, EOC} BY <1>4, ClusterNumbers
    <3> QED BY <3>1, <3>2 DEF Sealed
  <2>3. ASSUME NEW m \in RootSlots, IsFile(m), m # s PROVE dir[m].first # 2
    <3>1. dir[m] \in Given BY <2>3 DEF Init, Blank, IsFile
    <3>2. dir[s] \in Given /\ s \in RootSlots BY <1>4 DEF Intact
    <3>3. s < m \/ m < s BY <2>3, <3>2 DEF RootSlots
    <3> QED BY <3>1, <3>2, <3>3 DEF Init
  <2> QED BY <1>3, <1>4, <2>1, <2>2, <2>3 DEF Wall
<1> QED BY <1>1, <1>2, <1>5, <1>6 DEF Core

\* What every action below starts from.
LEMMA WallOf ==
  ASSUME TypeOK, Core, NEW g \in Intact
  PROVE  /\ g \in RootSlots /\ chain[g] \in Seq(Clusters) /\ IsFile(g) /\ g \notin torn
         /\ g \notin stale /\ Placed(g)
         /\ \E R \in SUBSET Clusters : Wall(g, R)
BY DEF TypeOK, Core, Intact

\* The lookup: freeing the chain of a slot that is not stale touches no
\* intact slot's region.
LEMMA CoreWriteFile ==
  ASSUME TypeOK, TypeOK', Progress, Core, ~tainted',
         NEW n \in Names83, NEW c \in Seq(Chunks), WriteFile(n, c)
  PROVE  Core'
<1>1. pc = "idle" /\ ready /\ ready'
      /\ UNCHANGED <<dir, dfat, data, content, chain, unsynced, stale>>
  BY DEF WriteFile, disk
<1>2. PICK s \in RootSlots \cup {0} :
        /\ FindRootEntry(n, s) \/ s = 0
        /\ \/ s # 0 /\ Overwrite(s)
           \/ s = 0 /\ UNCHANGED <<fat, torn, tainted>>
  BY DEF WriteFile
<1>3. pc' # "data" \/ op'.clusters = <<>>
  <2>1. NoOp.clusters = <<>> BY DEF NoOp
  <2>2. ASSUME NEW t, NEW e, Begin(t, e, c) PROVE pc' # "data" \/ op'.clusters = <<>>
    <3>1. [NoOp EXCEPT !.slot = t, !.entry = e, !.content = c].clusters = <<>> BY Zenon DEF NoOp
    <3> QED BY Zenon, <2>2, <3>1 DEF Begin, Fails
  <2>3. (\E t, e : Begin(t, e, c)) \/ Fails BY Zenon DEF WriteFile
  <2> QED BY <2>2, <2>3 DEF Fails
<1>4. InFlight' = {}
  <2>1. ClustersOf(<<>>) = {} BY DEF ClustersOf
  <2> QED BY <1>3, <2>1 DEF InFlight
<1>5. Allocated'
  <2>1. Len(<<>>) = 0 OBVIOUS
  <2> QED BY <1>3, <2>1 DEF Allocated, Links
<1>6. CASE s = 0
  <2>1. Intact' = Intact BY <1>1, <1>2, <1>6 DEF Intact, IsFile, RootSlots, Overwrite
  <2>2. fat' = fat /\ stale' = stale BY Zenon, <1>1, <1>2, <1>6
  <2>3. ASSUME NEW g \in Intact PROVE Placed(g)' BY Zenon, <1>1, <2>2, WallOf DEF Placed
  <2>4. ASSUME NEW g \in Intact, NEW R, Wall(g, R) PROVE Wall(g, R)'
    BY Zenon, <1>1, <1>4, <2>2, <2>4 DEF Wall, Sealed, IsFile
  <2> QED BY <1>5, <2>1, <2>3, <2>4, WallOf DEF Core
<1>7. CASE s # 0
  <2>1. /\ s \in RootSlots /\ IsFile(s) /\ s \notin stale
        /\ fat' = FreeChain(fat, dir[s].first)
        /\ torn' = IF dir[s].first # 0 THEN torn \cup {s} ELSE torn
    BY ZenonT(60), <1>2, <1>7 DEF Overwrite, FindRootEntry, IsFirst, IsFile
  <2>2. ASSUME NEW g \in Intact' PROVE g \in Intact /\ (g = s => dir[s].first = 0)
    BY ZenonT(60), <1>1, <2>1, <2>2 DEF Intact, IsFile
  <2>3. ASSUME NEW g \in Intact', NEW R \in SUBSET Clusters, Wall(g, R)
        PROVE  (\A z \in R : fat'[z] = fat[z]) /\ Wall(g, R)'
    <3>1. dir[s].first \notin R
      <4>1. CASE g = s BY Zenon, <2>2, <4>1, ClusterNumbers
      <4>2. CASE g # s BY Zenon, <2>1, <2>3, <4>2 DEF Wall
      <4> QED BY <4>1, <4>2
    <3>2. Sealed(fat, R) BY ZenonT(60), <1>1, <2>3 DEF Wall
    <3>3. Walk(fat, dir[s].first) \cap R = {} BY <3>1, <3>2, WalkOutside
    <3>4. DOMAIN fat = 0 .. FAT_ENTRIES - 1 BY DEF TypeOK, Fats
    <3>5. \A z \in Clusters : fat'[z] = IF z \in Walk(fat, dir[s].first) THEN 0 ELSE fat[z]
      BY <2>1, <3>4, ClusterNumbers DEF FreeChain
    <3>6. (\A z \in R : fat'[z] = fat[z])
      BY <3>3, <3>5
    <3>7. Sealed(fat', R) BY <3>2, <3>5, <3>6, SealKept, ClusterNumbers
    <3> QED BY ZenonT(60), <1>1, <1>4, <2>3, <3>6, <3>7 DEF Wall, IsFile
  <2>4. ASSUME NEW g \in Intact' PROVE Placed(g)'
    <3>1. g \in Intact BY <2>2
    <3>2. PICK R \in SUBSET Clusters : Wall(g, R) BY Zenon, <3>1, WallOf
    <3>3. \A z \in ClustersOf(chain[g]) : fat'[z] = fat[z] BY Zenon, <2>3, <3>2 DEF Wall
    <3>4. Placed(g) BY <3>1, WallOf
    <3>5. Links(fat', chain[g]) BY <1>1, <3>3, <3>4, LinksKept DEF Placed
    <3> QED BY <1>1, <3>4, <3>5 DEF Placed
  <2> QED BY <1>5, <2>2, <2>3, <2>4, WallOf DEF Core
<1> QED BY <1>6, <1>7

\* A free cluster is in no region, and neither is the end of the new chain.
LEMMA CoreWriteCluster ==
  ASSUME TypeOK, TypeOK', Progress, Core, WriteCluster
  PROVE  Core'
<1>1. /\ pc = "data" /\ ready /\ ready' /\ Len(op.clusters) < Len(op.content)
      /\ UNCHANGED <<dir, dfat, content, chain, torn, unsynced>>
  BY DEF WriteCluster, Progress
<1>2. PICK c \in Clusters \cup {0} :
        /\ FatAlloc(fat, c)
        /\ \/ c = 0 /\ Fails /\ UNCHANGED <<data, fat, stale>>
           \/ /\ c # 0
              /\ fat' = Link(fat, op.clusters, c)
              /\ stale' = stale \cup (torn \ {op.slot})
              /\ \/ data' = data
                 \/ data' = [data EXCEPT ![c] = op.content[Len(op.clusters) + 1]]
              /\ \/ Fails
                 \/ /\ op' = [op EXCEPT !.clusters = Append(@, c)] /\ pc' = pc
                    /\ data' = [data EXCEPT ![c] = op.content[Len(op.clusters) + 1]]
  BY DEF WriteCluster, OnDisk
<1>3. Intact' = Intact BY <1>1 DEF Intact, IsFile
<1>4. CASE c = 0
  <2>1. pc' = "idle" /\ UNCHANGED <<data, fat, stale>> BY Zenon, <1>2, <1>4 DEF Fails
  <2>2. InFlight' = {} /\ Allocated' BY <2>1 DEF InFlight, Allocated
  <2>3. ASSUME NEW g \in Intact PROVE Placed(g)' BY ZenonT(60), <1>1, <2>1, WallOf DEF Placed
  <2>4. ASSUME NEW g \in Intact, NEW R, Wall(g, R) PROVE Wall(g, R)'
    BY ZenonT(60), <1>1, <2>1, <2>2, <2>4 DEF Wall, Sealed, IsFile
  <2> QED BY <1>3, <2>2, <2>3, <2>4, WallOf DEF Core
<1>5. CASE c # 0
  <2> DEFINE cs == op.clusters
             k  == Len(cs)
  <2>1. cs \in Seq(Clusters) /\ op.content \in Seq(Chunks) /\ c \in Clusters BY <1>2, <1>5 DEF TypeOK
  <2>2. k \in Nat /\ (\A i \in 1 .. k : cs[i] \in Clusters) /\ (cs # <<>> => k > 0)
        /\ ClustersOf(cs) \in SUBSET Clusters
    BY <2>1, ChainClusters
  <2>3. fat[c] = 0 BY <1>2, <1>5 DEF FatAlloc, IsFirst
  <2>4. DOMAIN fat = 0 .. FAT_ENTRIES - 1 BY DEF TypeOK, Fats
  <2>5. \A z \in Clusters : fat'[z] = IF z = c THEN EOC
                                      ELSE IF cs # <<>> /\ z = cs[k] THEN c ELSE fat[z]
    BY <1>2, <1>5, <2>4, ClusterNumbers DEF Link, Last
  <2>6. Allocated BY DEF Core
  <2>7. ASSUME NEW i \in 1 .. k PROVE cs[i] # c /\ (i < k => cs[i] # cs[k])
    <3>1. fat[cs[i]] = IF i = k THEN EOC ELSE cs[i + 1] BY <1>1, <2>6 DEF Allocated, Links
    <3>2. i < k => i + 1 \in 1 .. k BY <2>2
    <3>3. fat[cs[i]] # 0 /\ (i < k => fat[cs[i]] # EOC) BY <2>2, <3>1, <3>2, ClusterNumbers
    <3>4. i < k => fat[cs[k]] = EOC
      <4>1. k \in 1 .. k BY <2>2
      <4> QED BY Zenon, <1>1, <2>6, <4>1 DEF Allocated, Links
    <3> QED BY <2>3, <3>3, <3>4
  <2>8. ASSUME NEW g \in Intact, NEW R \in SUBSET Clusters, Wall(g, R)
        PROVE  c \notin R /\ (\A z \in R : fat'[z] = fat[z]) /\ Sealed(fat', R)
    <3>1. Sealed(fat, R) /\ ClustersOf(cs) \cap R = {} BY ZenonT(60), <1>1, <2>8 DEF Wall, InFlight
    <3>2. c \notin R BY <2>3, <3>1 DEF Sealed
    <3>3. cs # <<>> => cs[k] \notin R
      <4>1. cs # <<>> => k \in 1 .. k BY <2>2
      <4> QED BY <3>1, <4>1 DEF ClustersOf
    <3>4. \A z \in R : fat'[z] = fat[z] BY <2>5, <3>2, <3>3
    <3>5. \A z \in Clusters \ R : fat'[z] = fat[z] \/ fat'[z] \notin R
      BY Zenon, <2>5, <3>2, ClusterNumbers
    <3> QED BY Zenon, <3>1, <3>2, <3>4, <3>5, SealKept
  <2>9. InFlight' \subseteq ClustersOf(cs) \cup {c}
    <3>1. CASE Fails BY <3>1 DEF Fails, InFlight
    <3>2. CASE op' = [op EXCEPT !.clusters = Append(@, c)]
      <4>1. op'.clusters = Append(cs, c) BY <3>2 DEF TypeOK
      <4>2. Len(Append(cs, c)) = k + 1 /\ \A i \in 1 .. k + 1 :
              Append(cs, c)[i] = IF i = k + 1 THEN c ELSE cs[i]
        BY <2>1
      <4>3. \A i \in 1 .. k + 1 : i = k + 1 \/ i \in 1 .. k BY <2>2
      <4>4. ClustersOf(op'.clusters) \subseteq ClustersOf(cs) \cup {c}
        BY Zenon, <4>1, <4>2, <4>3 DEF ClustersOf
      <4> QED BY <4>4 DEF InFlight
    <3> QED BY <1>2, <1>5, <3>1, <3>2
  <2>10. ASSUME NEW g \in Intact, NEW R \in SUBSET Clusters, Wall(g, R) PROVE Wall(g, R)'
    <3>1. (ClustersOf(cs) \cup {c}) \cap R = {} BY <1>1, <2>8, <2>10 DEF Wall, InFlight
    <3>2. InFlight' \cap R = {} BY <2>9, <3>1
    <3>3. stale \subseteq stale' BY ZenonT(60), <1>2, <1>5
    <3> QED BY Zenon, <1>1, <2>8, <2>10, <3>2, <3>3 DEF Wall, IsFile
  <2>11. ASSUME NEW g \in Intact PROVE Placed(g)'
    <3>1. PICK R \in SUBSET Clusters : Wall(g, R) BY ZenonT(60), WallOf
    <3>2. \A z \in ClustersOf(chain[g]) : fat'[z] = fat[z] /\ z # c BY ZenonT(60), <2>8, <3>1 DEF Wall
    <3>3. Placed(g) BY Zenon, WallOf
    <3>4. Links(fat', chain[g])
      <4>1. Links(fat, chain[g]) BY Zenon, <1>1, <3>3 DEF Placed
      <4>2. \A z \in ClustersOf(chain[g]) : fat'[z] = fat[z] BY Zenon, <3>2
      <4> QED BY Zenon, <4>1, <4>2, LinksKept
    <3>5. \A z \in ClustersOf(chain[g]) : data'[z] = data[z]
      <4>1. data \in [Clusters -> Chunks] BY DEF TypeOK
      <4>2. ClustersOf(chain[g]) \subseteq Clusters BY WallOf, ChainClusters
      <4> QED BY Zenon, <1>2, <1>5, <3>2, <4>1, <4>2
    <3>6. \A i \in 1 .. Len(chain[g]) : data'[chain[g][i]] = data[chain[g][i]]
      BY <3>5 DEF ClustersOf
    <3> QED BY ZenonT(60), <1>1, <3>3, <3>4, <3>6 DEF Placed
  <2>12. Allocated'
    <3>1. CASE Fails BY <3>1 DEF Fails, Allocated
    <3>2. CASE /\ op' = [op EXCEPT !.clusters = Append(@, c)]
               /\ data' = [data EXCEPT ![c] = op.content[k + 1]]
      <4>1. op'.clusters = Append(cs, c) /\ op'.content = op.content /\ op'.slot = op.slot
        BY Zenon, <3>2 DEF TypeOK
      <4>2. Len(Append(cs, c)) = k + 1 /\ \A i \in 1 .. k + 1 :
              Append(cs, c)[i] = IF i = k + 1 THEN c ELSE cs[i]
        BY <2>1
      <4>3. \A i \in 1 .. k + 1 : i = k + 1 \/ i \in 1 .. k BY <2>2
      <4>4. ASSUME NEW i \in 1 .. k + 1
            PROVE  /\ fat'[Append(cs, c)[i]] = IF i = k + 1 THEN EOC ELSE Append(cs, c)[i + 1]
                   /\ data'[Append(cs, c)[i]] = op.content[i]
        <5>1. CASE i = k + 1
          <6>1. Append(cs, c)[i] = c BY <4>2, <5>1
          <6>2. fat'[c] = EOC BY <2>1, <2>5
          <6>3. data'[c] = op.content[k + 1] BY Zenon, <2>1, <3>2 DEF TypeOK
          <6> QED BY <5>1, <6>1, <6>2, <6>3
        <5>2. CASE i \in 1 .. k
          <6>1. Append(cs, c)[i] = cs[i] /\ cs[i] \in Clusters /\ i # k + 1 /\ i + 1 \in 1 .. k + 1
            BY <2>2, <4>2, <5>2
          <6>2. Append(cs, c)[i + 1] = IF i = k THEN c ELSE cs[i + 1] BY <2>2, <4>2, <5>2, <6>1
          <6>3. fat[cs[i]] = (IF i = k THEN EOC ELSE cs[i + 1]) /\ data[cs[i]] = op.content[i]
            BY Zenon, <1>1, <2>6, <5>2 DEF Allocated, Links
          <6>4. cs[i] # c /\ (i < k => cs[i] # cs[k]) BY <2>7, <5>2
          <6>5. cs # <<>> BY <5>2
          <6>6. fat'[cs[i]] = IF i = k THEN c ELSE fat[cs[i]] BY <2>2, <2>5, <5>2, <6>1, <6>4, <6>5
          <6>7. data'[cs[i]] = data[cs[i]] BY <3>2, <6>1, <6>4 DEF TypeOK
          <6> QED BY Zenon, <6>1, <6>2, <6>3, <6>6, <6>7
        <5> QED BY ZenonT(60), <4>3, <5>1, <5>2
      <4>5. torn' \ {op'.slot} \subseteq stale' BY <1>1, <1>2, <1>5, <4>1
      <4> QED BY <4>1, <4>2, <4>4, <4>5 DEF Allocated, Links
    <3> QED BY <1>2, <1>5, <3>1, <3>2
  <2> QED BY <1>3, <2>10, <2>11, <2>12, WallOf DEF Core
<1> QED BY <1>4, <1>5

\* The new entry: its region is whatever leads into the new chain.
LEMMA CoreWriteEntry ==
  ASSUME TypeOK, TypeOK', Progress, Core, WriteEntry
  PROVE  Core'
<1>1. /\ pc = "data" /\ ready /\ ready' /\ Len(op.clusters) = Len(op.content)
      /\ UNCHANGED <<dfat, data, fat>> /\ pc' # "data"
      /\ op.slot \in RootSlots /\ op.entry.kind \in {"dir", "file"}
  BY Zenon DEF WriteEntry, Progress, Fails, TypeOK
<1>2. InFlight' = {} /\ Allocated' BY <1>1 DEF InFlight, Allocated
<1>3. CASE UNCHANGED <<dir, content, chain, torn, stale, unsynced>>
  <2>1. Intact' = Intact BY ZenonT(60), <1>3 DEF Intact, IsFile
  <2>2. ASSUME NEW g \in Intact PROVE Placed(g)' BY Zenon, <1>1, <1>3, WallOf DEF Placed
  <2>3. ASSUME NEW g \in Intact, NEW R, Wall(g, R) PROVE Wall(g, R)'
    BY <1>1, <1>2, <1>3, <2>3, Zenon DEF Wall, Sealed, IsFile
  <2> QED BY <1>2, <2>1, <2>2, <2>3, WallOf DEF Core
<1>4. CASE Committed
  <2>0. PICK p \in RootSlots, cs \in Seq(Clusters) : p = op.slot /\ cs = op.clusters
    BY <1>1 DEF TypeOK
  <2>1. op.entry \in Entries BY DEF TypeOK
  <2>2. Len(cs) \in Nat /\ ClustersOf(cs) \in SUBSET Clusters
        /\ (cs = <<>> => FirstOf(cs) = 0 /\ ClustersOf(cs) = {})
        /\ (cs # <<>> => FirstOf(cs) \in ClustersOf(cs))
    BY ChainClusters
  <2>3. /\ dir'[p].first = FirstOf(cs) /\ dir'[p].kind = op.entry.kind
        /\ dir'[p].size = Len(op.content)
    BY <1>1, <1>4, <2>0, <2>1 DEF Committed, NewEntry, FirstOf, TypeOK, Entries
  <2>4. content'[p] = op.content /\ chain'[p] = cs BY <1>1, <1>4, <2>0 DEF Committed, TypeOK
  <2>5. /\ torn' = torn \ {p} /\ stale' = stale \ {p} /\ unsynced' = unsynced \cup {p}
        /\ \A g \in RootSlots \ {p} : dir'[g] = dir[g] /\ content'[g] = content[g]
                                      /\ chain'[g] = chain[g]
    BY Zenon, <1>4, <2>0 DEF Committed, TypeOK
  <2>6. Intact' = Intact \cup {p} BY ZenonT(60), <1>1, <2>0, <2>3, <2>5 DEF Intact, IsFile
  <2>7. Allocated BY Zenon DEF Core
  <2>8. Placed(p)'
    <3>1. Links(fat, cs) /\ \A i \in 1 .. Len(cs) : data[cs[i]] = op.content[i]
      BY ZenonT(60), <1>1, <2>0, <2>7 DEF Allocated
    <3> QED BY ZenonT(60), <1>1, <2>0, <2>3, <2>4, <2>5, <3>1 DEF Placed
  <2>9. ASSUME NEW g \in Intact, g # p PROVE Placed(g)'
    <3>1. g \in RootSlots \ {p} /\ Placed(g) BY <2>9, WallOf
    <3> QED BY Zenon, <1>1, <2>5, <3>1 DEF Placed
  <2>10. ASSUME NEW g \in Intact, g # p, NEW R \in SUBSET Clusters, Wall(g, R) PROVE Wall(g, R)'
    <3>1. g \in RootSlots \ {p} BY Zenon, <2>10, WallOf
    <3>2. ClustersOf(cs) \cap R = {} BY <1>1, <2>0, <2>10 DEF Wall, InFlight
    <3>3. FirstOf(cs) \notin R BY <2>2, <3>2, ClusterNumbers
    <3>4. ASSUME NEW m \in RootSlots \ stale', IsFile(m)', m # g PROVE dir'[m].first \notin R
      <4>1. CASE m = p BY Zenon, <2>3, <3>3, <4>1
      <4>2. CASE m # p BY <2>5, <2>10, <3>4, <4>2 DEF Wall, IsFile
      <4> QED BY <4>1, <4>2
    <3> QED BY <1>1, <1>2, <2>5, <2>10, <3>1, <3>4, Zenon DEF Wall
  <2>11. \E R \in SUBSET Clusters : Wall(p, R)'
    <3>1. PICK R \in SUBSET Clusters :
            R = Basin(fat, cs) /\ ClustersOf(cs) \subseteq R /\ Sealed(fat, R)
      BY ZenonT(60), <1>1, <2>0, <2>7, BasinSealed DEF Allocated
    <3>2. ASSUME NEW m \in RootSlots \ stale', IsFile(m)', m # p PROVE dir'[m].first \notin R
      <4>1. m \in RootSlots \ {p} /\ m \notin stale /\ IsFile(m) /\ dir'[m] = dir[m]
        BY Zenon, <2>5, <3>2 DEF IsFile
      <4>2. CASE cs = <<>> BY Zenon, <2>2, <3>1, <4>2 DEF Basin
      <4>3. CASE cs # <<>>
        <5>1. m \in Intact BY ZenonT(60), <1>1, <2>0, <2>7, <4>1, <4>3 DEF Allocated, Intact
        <5>2. PICK Q \in SUBSET Clusters : Wall(m, Q) BY Zenon, <5>1, WallOf
        <5>3. ClustersOf(chain[m]) \cap ClustersOf(cs) = {} BY Zenon, <1>1, <2>0, <5>2 DEF Wall, InFlight
        <5>4. chain[m] \in Seq(Clusters) /\ Links(fat, chain[m]) /\ dir[m].first = FirstOf(chain[m])
          BY Zenon, <1>1, <5>1, WallOf DEF Placed
        <5>5. Walk(fat, dir[m].first) \subseteq ClustersOf(chain[m]) BY ZenonT(60), <5>4, WalkOnChain
        <5> QED BY ZenonT(60), <3>1, <4>1, <5>3, <5>5 DEF Basin
      <4> QED BY Zenon, <4>2, <4>3
    <3>3. Wall(p, R)' BY Zenon, <1>1, <1>2, <2>4, <2>5, <3>1, <3>2 DEF Wall
    <3> QED BY Zenon, <3>3
  <2> QED BY Zenon, <1>2, <2>6, <2>8, <2>9, <2>10, <2>11, WallOf DEF Core
<1> QED BY Zenon, <1>3, <1>4 DEF WriteEntry

\* A flush writes entries that memory and disk agree on inside the regions;
\* once it is complete the disk has them all.
LEMMA CoreFlushSector ==
  ASSUME TypeOK, TypeOK', Progress, Flushed, Core, FlushSector
  PROVE  Core'
<1>1. /\ pc = "flush" /\ ready /\ ready' /\ pc' # "data"
      /\ UNCHANGED <<dir, data, fat, content, chain, torn, stale>>
  BY Zenon DEF FlushSector, Progress, Fails
<1>2. InFlight' = {} /\ Allocated' /\ Intact' = Intact
  BY <1>1 DEF InFlight, Allocated, Intact, IsFile
<1>3. PICK o \in Outcomes :
        /\ dfat' = IF OnDisk(o)
                   THEN [dfat EXCEPT ![op.copy] = FlushedSector(@, fat, op.sector)]
                   ELSE dfat
        /\ \/ unsynced' = unsynced
           \/ o = "ok" /\ op.sector + 1 >= FAT_SECTORS /\ op.copy = NUM_FATS
  BY DEF FlushSector
<1>4. /\ 1 \in Copies /\ op.copy \in Copies /\ op.sector \in Nat /\ NUM_FATS \in Nat
      /\ FAT_SECTORS \in Nat
      /\ DOMAIN dfat[1] = 0 .. FAT_ENTRIES - 1
  BY FatAssumption DEF TypeOK, Copies, Fats
<1>5. ASSUME NEW z \in 0 .. FAT_ENTRIES - 1
      PROVE  dfat'[1][z] = IF OnDisk(o) /\ op.copy = 1 /\ z \div SectorEntries = op.sector
                           THEN fat[z] ELSE dfat[1][z]
  <2>1. CASE OnDisk(o) /\ op.copy = 1
    <3>1. dfat'[1] = FlushedSector(dfat[1], fat, op.sector) BY <1>3, <1>4, <2>1, Zenon DEF TypeOK
    <3> QED BY ZenonT(60), <1>4, <2>1, <3>1 DEF FlushedSector
  <2>2. CASE ~(OnDisk(o) /\ op.copy = 1)
    <3>1. dfat'[1] = dfat[1] BY <1>3, <1>4, <2>2, Zenon DEF TypeOK
    <3> QED BY <2>2, <3>1
  <2> QED BY Zenon, <2>1, <2>2
<1>6. \A z \in Clusters : dfat'[1][z] = fat[z] \/ dfat'[1][z] = dfat[1][z]
  BY ZenonT(60), <1>5, ClusterNumbers
<1>7. ASSUME unsynced' # unsynced, NEW z \in Clusters PROVE dfat'[1][z] = fat[z]
  <2>1. o = "ok" /\ op.sector + 1 >= FAT_SECTORS /\ op.copy = NUM_FATS BY <1>3, <1>7
  <2>2. z \in 0 .. FAT_ENTRIES - 1 BY ClusterNumbers
  <2>3. z \div SectorEntries \in Nat /\ z \div SectorEntries < FAT_SECTORS BY <2>2, SectorOfEntry
  <2>4. op.copy > 1 \/ z \div SectorEntries < op.sector
        \/ (op.copy = 1 /\ z \div SectorEntries = op.sector)
    BY <1>4, <2>1, <2>3 DEF Copies
  <2>5. op.copy > 1 \/ z \div SectorEntries < op.sector => dfat[1][z] = fat[z]
    BY <1>1, <2>2 DEF Flushed
  <2>6. OnDisk(o) BY <2>1 DEF OnDisk
  <2> QED BY ZenonT(60), <1>5, <2>2, <2>4, <2>5, <2>6
<1>8. ASSUME NEW g \in Intact PROVE Placed(g)'
  <2>1. Placed(g) /\ chain[g] \in Seq(Clusters) BY WallOf
  <2>2. \A i \in 1 .. Len(chain[g]) : chain[g][i] \in Clusters BY Zenon, <2>1, ChainClusters
  <2>3. Links(fat, chain[g]) BY ZenonT(60), <1>1, <2>1 DEF Placed
  <2>4. g \notin unsynced' => Links(dfat'[1], chain[g])
    <3>1. CASE unsynced' # unsynced BY Zenon, <1>7, <2>2, <2>3, <3>1 DEF Links
    <3>2. CASE g \notin unsynced BY Zenon, <1>6, <2>1, <2>2, <2>3, <3>2 DEF Placed, Links
    <3> QED BY Zenon, <3>1, <3>2
  <2> QED BY <1>1, <2>1, <2>3, <2>4, Zenon DEF Placed
<1>9. ASSUME NEW g \in Intact, NEW R \in SUBSET Clusters, Wall(g, R) PROVE Wall(g, R)'
  <2>1. Sealed(fat, R) BY Zenon, <1>1, <1>9 DEF Wall
  <2>2. g \notin unsynced' => Sealed(dfat'[1], R) /\ \A z \in R : fat[z] = dfat'[1][z]
    <3>1. CASE unsynced' # unsynced BY ZenonT(60), <1>7, <2>1, <3>1 DEF Sealed
    <3>2. CASE g \notin unsynced BY ZenonT(60), <1>1, <1>6, <1>9, <2>1, <3>2 DEF Sealed, Wall
    <3> QED BY Zenon, <3>1, <3>2
  <2> QED BY Zenon, <1>1, <1>2, <1>9, <2>1, <2>2 DEF Wall, IsFile
<1> QED BY <1>2, <1>8, <1>9, WallOf DEF Core

\* A crash leaves the slots the disk knows of, and the empty files.
LEMMA CoreCrash ==
  ASSUME TypeOK, TypeOK', Core, Crash
  PROVE  Core'
<1>1. /\ pc' = "down" /\ ready' = FALSE /\ unsynced' = {}
      /\ torn' = torn \cup {s \in unsynced : dir[s].first # 0}
      /\ UNCHANGED <<dir, dfat, data, fat, content, chain, stale>>
  BY ZenonT(60) DEF Crash, disk
<1>2. Allocated' BY <1>1 DEF Allocated
<1>3. ASSUME NEW g \in Intact' PROVE g \in Intact /\ (g \in unsynced => dir[g].first = 0)
  BY <1>1, <1>3 DEF Intact, IsFile
<1>4. ASSUME NEW g \in Intact', g \in unsynced PROVE chain[g] = <<>>
  <2>1. Placed(g) /\ chain[g] \in Seq(Clusters) BY Zenon, <1>3, WallOf
  <2>2. FirstOf(chain[g]) = 0 BY Zenon, <1>3, <1>4, <2>1 DEF Placed
  <2> QED BY <2>1, <2>2, ChainClusters, ClusterNumbers
<1>5. ASSUME NEW g \in Intact' PROVE Placed(g)'
  <2>1. Placed(g) BY Zenon, <1>3, WallOf
  <2>2. Links(dfat[1], chain[g])
    <3>1. Len(<<>>) = 0 OBVIOUS
    <3> QED BY <1>4, <2>1, <3>1 DEF Placed, Links
  <2> QED BY Zenon, <1>1, <2>1, <2>2 DEF Placed
<1>6. ASSUME NEW g \in Intact' PROVE \E R \in SUBSET Clusters : Wall(g, R)'
  <2>1. CASE g \notin unsynced
    <3>1. PICK R \in SUBSET Clusters : Wall(g, R) BY Zenon, <1>3, WallOf
    <3>2. Wall(g, R)' BY ZenonT(60), <1>1, <2>1, <3>1 DEF Wall, IsFile
    <3> QED BY <3>2
  <2>2. CASE g \in unsynced
    <3>1. ClustersOf(<<>>) = {} BY DEF ClustersOf
    <3>2. Wall(g, {})' BY ZenonT(60), <1>1, <1>4, <2>2, <3>1 DEF Wall, Sealed
    <3> QED BY <3>2
  <2> QED BY <2>1, <2>2
<1> QED BY <1>2, <1>5, <1>6 DEF Core

LEMMA CoreMount ==
  ASSUME TypeOK, TypeOK', Progress, Core, Mount
  PROVE  Core'
<1>1. /\ pc' = "idle" /\ ~ready /\ unsynced = {}
      /\ (ready' /\ fat' = dfat[1]) \/ (~ready' /\ fat' = fat)
      /\ UNCHANGED <<dir, dfat, data, content, chain, torn, stale, unsynced>>
  BY Zenon DEF Mount, Progress, disk, history
<1>2. InFlight' = {} /\ Allocated' /\ Intact' = Intact
  <2>1. InFlight' = {} /\ Allocated' BY ZenonT(60), <1>1 DEF InFlight, Allocated
  <2>2. Intact' = Intact BY ZenonT(60), <1>1 DEF Intact, IsFile
  <2> QED BY ZenonT(60), <2>1, <2>2
<1>3. ASSUME NEW g \in Intact PROVE Placed(g)'
  <2>1. Placed(g) BY ZenonT(60), WallOf
  <2> QED BY ZenonT(60), <1>1, <2>1 DEF Placed
<1>4. ASSUME NEW g \in Intact, NEW R, Wall(g, R) PROVE Wall(g, R)'
  BY ZenonT(60), <1>1, <1>2, <1>4 DEF Wall, IsFile
<1> QED BY <1>2, <1>3, <1>4, WallOf DEF Core

LEMMA FInvInit == Init => FInv
BY Zenon, TypeInit, CoreInit DEF Init, FInv, Progress, Flushed

LEMMA FInvStep == FInv /\ [Step]_vars => FInv'
<1> SUFFICES ASSUME FInv, [Step]_vars PROVE FInv' OBVIOUS
<1>1. TypeOK /\ Progress /\ Flushed /\ TypeOK' /\ Progress' /\ Flushed'
  BY TypeStep, ProgressStep, FlushedStep DEF FInv
<1>2. ASSUME ~tainted' PROVE Core'
  <2>1. ASSUME NEW n \in Names83, NEW c \in Seq(Chunks), WriteFile(n, c) PROVE Core'
    <3>1. ~tainted BY Zenon, <1>2, <2>1 DEF WriteFile, Overwrite
    <3> QED BY <1>1, <1>2, <2>1, <3>1, CoreWriteFile DEF FInv
  <2>2. ASSUME WriteCluster PROVE Core'
    <3>1. Core BY <1>2, <2>2 DEF WriteCluster, FInv
    <3> QED BY <1>1, <2>2, <3>1, CoreWriteCluster
  <2>3. ASSUME WriteEntry PROVE Core'
    <3>1. Core BY <1>2, <2>3 DEF WriteEntry, FInv
    <3> QED BY <1>1, <2>3, <3>1, CoreWriteEntry
  <2>4. ASSUME FlushSector PROVE Core'
    <3>1. Core BY <1>2, <2>4 DEF FlushSector, FInv
    <3> QED BY <1>1, <2>4, <3>1, CoreFlushSector
  <2>5. ASSUME Crash PROVE Core'
    <3>1. Core BY <1>2, <2>5 DEF Crash, FInv
    <3> QED BY Zenon, <1>1, <2>5, <3>1, CoreCrash
  <2>6. ASSUME Mount PROVE Core'
    <3>1. Core BY <1>2, <2>6 DEF Mount, history, FInv
    <3> QED BY <1>1, <2>6, <3>1, CoreMount
  <2>7. CASE UNCHANGED vars
    <3>1. Core BY Zenon, <1>2, <2>7 DEF vars, history, FInv
    <3>2. Intact' = Intact /\ InFlight' = InFlight
      BY Zenon, <2>7 DEF vars, disk, history, Intact, IsFile, InFlight
    <3>3. Allocated' BY Zenon, <2>7, <3>1 DEF vars, disk, history, Core, Allocated
    <3>4. ASSUME NEW g \in Intact PROVE Placed(g)'
      BY Zenon, <2>7, <3>1 DEF vars, disk, history, Core, Placed
    <3>5. ASSUME NEW g, NEW R, Wall(g, R) PROVE Wall(g, R)'
      BY ZenonT(60), <2>7, <3>2, <3>5 DEF vars, disk, history, Wall, IsFile
    <3> QED BY Zenon, <3>1, <3>2, <3>3, <3>4, <3>5 DEF Core
  <2> QED BY <2>1, <2>2, <2>3, <2>4, <2>5, <2>6, <2>7 DEF Step
<1> QED BY <1>1, <1>2 DEF FInv

LEMMA FInvFilesIntact == FInv => FilesIntact
<1> SUFFICES ASSUME FInv, ready, ~tainted, NEW s \in RootSlots \ torn, IsFile(s)
             PROVE  Holds(s, content[s])
  BY DEF FilesIntact
<1>1. s \in Intact BY DEF Intact
<1>2. Placed(s) /\ chain[s] \in Seq(Clusters) BY <1>1, WallOf DEF FInv
<1>3. PICK cs \in Seq(Clusters) : cs = chain[s] BY ZenonT(60), <1>2
<1>4. PICK n \in Nat : n = Len(content[s]) /\ n = Len(cs)
  <2>1. Len(cs) \in Nat OBVIOUS
  <2>2. Len(content[s]) = Len(cs) BY Zenon, <1>2, <1>3 DEF Placed
  <2> QED BY Zenon, <2>1, <2>2
<1>5. cs \in [1 .. n -> Clusters] BY <1>3, <1>4
<1>6. n = 0 => dir[s].first = 0
  <2>0. cs # <<>> => Len(cs) > 0 BY ChainClusters
  <2>1. n = 0 => cs = <<>> BY <1>4, <2>0
  <2> QED BY ZenonT(60), <1>2, <1>3, <2>1 DEF Placed, FirstOf
<1>7. n > 0 => dir[s].first = cs[1] /\ fat[cs[n]] = EOC
  <2>1. n > 0 => cs # <<>> /\ n \in 1 .. n BY <1>3, <1>4
  <2> QED BY ZenonT(60), <1>2, <1>3, <1>4, <2>1 DEF Placed, FirstOf, Links
<1>8. \A i \in 1 .. n : data[cs[i]] = content[s][i] /\ (i < n => fat[cs[i]] = cs[i + 1])
  BY <1>2, <1>3, <1>4 DEF Placed, Links
<1>9. dir[s].kind = "file" => dir[s].size = n BY ZenonT(60), <1>2, <1>3, <1>4 DEF Placed
<1> QED BY <1>4, <1>5, <1>6, <1>7, <1>8, <1>9 DEF Holds

\* Every state of the driver is well typed.
THEOREM Typed == Spec => []TypeOK
<1>1. Init => TypeOK /\ Progress BY TypeInit, Zenon DEF Init, Progress
<1>2. TypeOK /\ Progress /\ [Step]_vars => (TypeOK /\ Progress)' BY TypeStep, ProgressStep
<1> QED BY <1>1, <1>2, NextSteps, PTL DEF Spec

\* Failed writes and crashes between any two sector writes leave every file
\* but the torn ones as write_file made it, on disks of any size and with any
\* number of FAT copies (FilesIntact).
THEOREM FilesStayIntact == Spec => []FilesIntact
<1>1. Spec => []FInv BY FInvInit, FInvStep, NextSteps, PTL DEF Spec
<1> QED BY <1>1, FInvFilesIntact, PTL

-----------------------------------------------------------------------------
(* Names.                                                                  *)

\* Slots past the end mark are unused.
EndsDirectory ==
  \A i, j \in RootSlots : i < j /\ dir[i].kind = "end" => dir[j].kind = "end"

\* The slot being written is an existing file or the first free slot, and no
\* other entry has the name.
NameChosen ==
  pc = "data" =>
    /\ op.slot \in RootSlots /\ op.entry.kind \in {"dir", "file"}
    /\ \A j \in RootSlots : j < op.slot => dir[j].kind # "end"
    /\ ~misread => \A t \in RootSlots \ {op.slot} :
                     Reached(t) /\ IsFile(t) => dir[t].name # op.entry.name

NInv == TypeOK /\ Progress /\ EndsDirectory /\ NameChosen /\ NamesUnique

LEMMA NInvInit == Init => NInv
<1> SUFFICES ASSUME Init PROVE NInv OBVIOUS
<1>1. TypeOK /\ Progress
  <2>1. TypeOK BY TypeInit
  <2>2. Progress BY ZenonT(60) DEF Init, Progress
  <2> QED BY <2>1, <2>2
<1>2. EndsDirectory /\ NameChosen BY Zenon DEF Init, EndsDirectory, NameChosen
<1>3. NamesUnique
  <2> SUFFICES ASSUME NEW s \in RootSlots, NEW t \in RootSlots, IsFile(s), IsFile(t), s # t
               PROVE  FALSE
    BY Zenon DEF NamesUnique
  <2>1. dir[s] \in Given /\ dir[t] \in Given BY DEF Init, Blank, IsFile
  <2>2. s < t \/ t < s BY DEF RootSlots
  <2> QED BY <2>1, <2>2 DEF Init
<1> QED BY <1>1, <1>2, <1>3 DEF NInv

LEMMA NInvStep == NInv /\ [Step]_vars => NInv'
<1> SUFFICES ASSUME NInv, [Step]_vars PROVE NInv' OBVIOUS
<1>0. TypeOK /\ Progress /\ TypeOK' /\ Progress' BY TypeStep, ProgressStep DEF NInv
<1>1. ASSUME NEW n \in Names83, NEW c \in Seq(Chunks), WriteFile(n, c) PROVE NInv'
  <2>1. dir' = dir /\ (misread => misread') BY ZenonT(60), <1>1 DEF WriteFile, disk
  <2>2. EndsDirectory' /\ NamesUnique'
    BY <2>1 DEF NInv, EndsDirectory, NamesUnique, Reached, IsFile
  <2>3. ASSUME NEW p \in RootSlots, NEW e, e.kind \in {"dir", "file"}, Begin(p, e, c),
               \A j \in RootSlots : j < p => dir[j].kind # "end",
               ~misread' => \A t \in RootSlots \ {p} :
                              Reached(t) /\ IsFile(t) => dir[t].name # e.name
        PROVE  NameChosen'
    <3> DEFINE o == [NoOp EXCEPT !.slot = p, !.entry = e, !.content = c]
    <3>1. o.slot = p /\ o.entry = e BY Zenon DEF NoOp
    <3>2. pc' = "idle" \/ (pc' = "data" /\ op' = o) BY <2>3 DEF Begin, Fails
    <3> HIDE DEF o
    <3> QED BY ZenonT(60), <2>1, <2>3, <3>1, <3>2 DEF NameChosen, Reached, IsFile
  <2>4. PICK s \in RootSlots \cup {0} :
          /\ FindRootEntry(n, s) \/ s = 0
          /\ misread' = (misread \/ ~FindRootEntry(n, s))
          /\ \/ s # 0 /\ Begin(s, dir[s], c)
             \/ /\ s = 0
                /\ \E free \in RootSlots \cup {0} :
                     \/ /\ free # 0 /\ FindFreeRootEntry(free)
                        /\ Begin(free, [Blank("file") EXCEPT !.name = n], c)
                     \/ free = 0 /\ Fails
    BY Zenon, <1>1 DEF WriteFile
  <2>5. CASE s # 0
    <3>1. /\ s \in RootSlots /\ Reached(s) /\ IsFile(s) /\ dir[s].name = n
      BY Zenon, <2>4, <2>5 DEF FindRootEntry, IsFirst, IsFile
    <3>2. \A j \in RootSlots : j < s => dir[j].kind # "end" BY <3>1 DEF Reached, RootSlots
    <3>3. ~misread' => \A t \in RootSlots \ {s} : Reached(t) /\ IsFile(t) => dir[t].name # dir[s].name
      BY Zenon, <2>1, <3>1 DEF NInv, NamesUnique
    <3>4. NameChosen'
      <4> DEFINE e == dir[s]
      <4>1. e.kind \in {"dir", "file"} /\ Begin(s, e, c)
            /\ (~misread' => \A t \in RootSlots \ {s} : Reached(t) /\ IsFile(t) => dir[t].name # e.name)
        BY <2>4, <2>5, <3>1, <3>3 DEF IsFile
      <4> HIDE DEF e
      <4> QED BY <2>3, <3>1, <3>2, <4>1
    <3> QED BY <1>0, <2>2, <3>4 DEF NInv
  <2>6. CASE s = 0
    <3>1. PICK free \in RootSlots \cup {0} :
            \/ /\ free # 0 /\ FindFreeRootEntry(free)
               /\ Begin(free, [Blank("file") EXCEPT !.name = n], c)
            \/ free = 0 /\ Fails
      BY Zenon, <2>4, <2>6
    <3>2. CASE free = 0 BY <1>0, <2>2, <3>1, <3>2 DEF Fails, NameChosen, NInv
    <3>3. CASE free # 0
      <4> DEFINE e == [Blank("file") EXCEPT !.name = n]
      <4>1. e.kind \in {"dir", "file"} /\ e.name = n BY DEF Blank
      <4>2. free \in RootSlots /\ Begin(free, e, c) BY <3>1, <3>3
      <4> HIDE DEF e
      <4>3. \A j \in RootSlots : j < free => dir[j].kind # "end"
        BY <3>1, <3>3 DEF FindFreeRootEntry, IsFirst, RootSlots
      <4>4. ~misread' => \A t \in RootSlots : Reached(t) /\ IsFile(t) => dir[t].name # n
        <5> SUFFICES ASSUME ~misread', NEW t \in RootSlots, Reached(t), IsFile(t), dir[t].name = n
                     PROVE  FALSE
          OBVIOUS
        <5>1. FindRootEntry(n, 0) BY Zenon, <2>4, <2>6
        <5>2. 0 \notin RootSlots BY DEF RootSlots
        <5> QED BY <5>1, <5>2 DEF FindRootEntry, IsFirst, IsFile
      <4>5. NameChosen' BY <2>3, <4>1, <4>2, <4>3, <4>4
      <4> QED BY <1>0, <2>2, <4>5 DEF NInv
    <3> QED BY <3>2, <3>3
  <2> QED BY <2>5, <2>6
<1>2. ASSUME WriteCluster PROVE NInv'
  <2>1. UNCHANGED <<dir, misread>> /\ pc = "data" BY <1>2 DEF WriteCluster
  <2>2. pc' = "data" => op'.slot = op.slot /\ op'.entry = op.entry
    BY Zenon, <1>0, <1>2 DEF WriteCluster, Fails, TypeOK
  <2>3. EndsDirectory' /\ NamesUnique'
    BY ZenonT(60), <2>1 DEF NInv, EndsDirectory, NamesUnique, Reached, IsFile
  <2>4. NameChosen' BY ZenonT(60), <2>1, <2>2 DEF NInv, NameChosen, Reached, IsFile
  <2> QED BY <1>0, <2>3, <2>4 DEF NInv
<1>3. ASSUME WriteEntry PROVE NInv'
  <2>1. pc = "data" /\ pc' # "data" /\ misread' = misread BY <1>3 DEF WriteEntry, Fails
  <2>2. NameChosen' BY <2>1 DEF NameChosen
  <2>3. CASE dir' = dir
    <3>1. EndsDirectory' /\ NamesUnique'
      BY <2>1, <2>3 DEF NInv, EndsDirectory, NamesUnique, Reached, IsFile
    <3> QED BY Zenon, <1>0, <2>2, <3>1 DEF NInv
  <2>4. CASE Committed
    <3>1. PICK p \in RootSlots : p = op.slot BY Zenon, <2>1 DEF NInv, NameChosen
    <3>2. op.entry \in Entries BY <1>0 DEF TypeOK
    <3>3. dir'[p].kind = op.entry.kind /\ dir'[p].name = op.entry.name
      BY Zenon, <1>0, <2>4, <3>1, <3>2 DEF Committed, NewEntry, TypeOK, Entries
    <3>4. \A t \in RootSlots \ {p} : dir'[t] = dir[t] BY Zenon, <1>0, <2>4, <3>1 DEF Committed, TypeOK
    <3>5. dir'[p].kind \in {"dir", "file"} BY ZenonT(60), <2>1, <3>3 DEF NInv, NameChosen
    <3>6. EndsDirectory' BY ZenonT(60), <2>1, <3>1, <3>4, <3>5 DEF NInv, EndsDirectory, NameChosen
    <3>7. ASSUME NEW t \in RootSlots \ {p}, Reached(t)' PROVE Reached(t)
      <4> SUFFICES ASSUME NEW j \in RootSlots, j <= t PROVE dir[j].kind # "end" BY DEF Reached
      <4>1. CASE j # p BY ZenonT(60), <3>4, <3>7, <4>1 DEF Reached
      <4>2. CASE j = p
        <5>1. p < t BY <4>2 DEF RootSlots
        <5>2. dir'[t].kind # "end" BY <3>7 DEF Reached, RootSlots
        <5> QED BY ZenonT(60), <3>4, <4>2, <5>1, <5>2 DEF NInv, EndsDirectory
      <4> QED BY <4>1, <4>2
    <3>8. ASSUME ~misread, NEW t \in RootSlots \ {p}, Reached(t)', IsFile(t)'
          PROVE  dir'[t].name # dir'[p].name
      <4>1. Reached(t) /\ IsFile(t) BY Zenon, <3>4, <3>7, <3>8 DEF IsFile
      <4> QED BY Zenon, <2>1, <3>1, <3>3, <3>4, <3>8, <4>1 DEF NInv, NameChosen
    <3>9. NamesUnique'
      <4> SUFFICES ASSUME ~misread, NEW s \in RootSlots, NEW t \in RootSlots, Reached(s)',
                          Reached(t)', IsFile(s)', IsFile(t)', dir'[s].name = dir'[t].name
                   PROVE  s = t
        BY <2>1 DEF NamesUnique
      <4>1. CASE s = p \/ t = p BY Zenon, <3>8, <4>1
      <4>2. CASE s # p /\ t # p
        <5>1. Reached(s) /\ Reached(t) /\ IsFile(s) /\ IsFile(t) /\ dir[s].name = dir[t].name
          BY Zenon, <3>4, <3>7, <4>2 DEF IsFile
        <5> QED BY Zenon, <5>1 DEF NInv, NamesUnique
      <4> QED BY Zenon, <4>1, <4>2
    <3> QED BY Zenon, <1>0, <2>2, <3>6, <3>9 DEF NInv
  <2> QED BY <1>3, <2>3, <2>4 DEF WriteEntry
<1>4. ASSUME FlushSector \/ Crash \/ Mount PROVE NInv'
  <2>1. UNCHANGED <<dir, misread>> /\ pc' # "data"
    BY <1>4 DEF FlushSector, Fails, Crash, Mount, disk, history
  <2>2. EndsDirectory' BY Zenon, <2>1 DEF NInv, EndsDirectory
  <2>3. NameChosen' BY Zenon, <2>1 DEF NameChosen
  <2>4. NamesUnique'
    <3>1. \A s : (Reached(s)' <=> Reached(s)) /\ (IsFile(s)' <=> IsFile(s))
      BY Zenon, <2>1 DEF Reached, IsFile
    <3> QED BY Zenon, <2>1, <3>1 DEF NInv, NamesUnique
  <2> QED BY Zenon, <1>0, <2>2, <2>3, <2>4 DEF NInv
<1>5. CASE UNCHANGED vars
  <2>1. UNCHANGED <<dir, misread, pc, op>> BY Zenon, <1>5 DEF vars, disk, history
  <2>2. EndsDirectory' BY Zenon, <2>1 DEF NInv, EndsDirectory
  <2>3. \A s \in RootSlots : Reached(s)' = Reached(s) /\ IsFile(s)' = IsFile(s)
    BY Zenon, <2>1 DEF Reached, IsFile
  <2>4. NameChosen' BY ZenonT(60), <2>1, <2>3 DEF NInv, NameChosen
  <2>5. NamesUnique' BY ZenonT(60), <2>1, <2>3 DEF NInv, NamesUnique
  <2> QED BY Zenon, <1>0, <2>2, <2>4, <2>5 DEF NInv
<1> QED BY <1>1, <1>2, <1>3, <1>4, <1>5 DEF Step

\* write_file never makes a second entry of a name, as long as its lookups
\* could read the directory (NamesUnique).
THEOREM NamesStayUnique == Spec => []NamesUnique
<1>1. NInv => NamesUnique BY DEF NInv
<1> QED BY <1>1, NInvInit, NInvStep, NextSteps, PTL DEF Spec

-----------------------------------------------------------------------------
(* Leaks.                                                                  *)

\* Each cluster in use in f is part of a file or of the write under way.
Owned(f) ==
  \A c \in Clusters : f[c] # 0 =>
    (\E s \in Intact : c \in ClustersOf(chain[s])) \/ c \in InFlight

\* While nothing has failed: only the file being overwritten is torn, and the
\* slot it is written to has no clusters of its own any more.
Unfailed ==
  /\ ~tainted /\ stale = {}
  /\ torn \subseteq IF pc = "data" THEN {op.slot} ELSE {}
  /\ pc = "data" /\ op.slot \in Intact => chain[op.slot] = <<>>
  /\ ready => Owned(fat)
  /\ pc = "down" => Owned(dfat[1])

LInv == FInv /\ (faults = 0 => Unfailed)

LEMMA LeastOf ==
  ASSUME NEW S \in SUBSET Nat, S # {}
  PROVE  \E n \in S : \A m \in S : n <= m
<1>1. PICK n \in S : \A m \in S : <<m, n>> \notin OpToRel(<, Nat)
  BY NatLessThanWellFounded, WFMin, Zenon
<1>2. \A m \in S : ~(m < n)
  BY <1>1, Zenon DEF OpToRel
<1> QED
  BY <1>2

\* A walk along a chain's links visits all of the chain.
LEMMA ChainWalked ==
  ASSUME NEW f, NEW cs \in Seq(Clusters), Links(f, cs)
  PROVE  ClustersOf(cs) \subseteq Walk(f, FirstOf(cs))
<1> SUFFICES ASSUME NEW i \in 1 .. Len(cs),
                    NEW S \in SUBSET Clusters, FirstOf(cs) \in S, Closed(f, S), cs[i] \notin S
             PROVE  FALSE
  <2>1. \A i \in 1 .. Len(cs) : cs[i] \in Clusters /\ cs # <<>> OBVIOUS
  <2>2. \A i \in 1 .. Len(cs) : FirstOf(cs) \in Clusters BY <2>1 DEF FirstOf
  <2> QED BY <2>1, <2>2 DEF ClustersOf, Walk
<1> DEFINE Missed == {k \in 1 .. Len(cs) : cs[k] \notin S}
<1>1. PICK n \in Missed : \A m \in Missed : n <= m
  <2>1. Missed \in SUBSET Nat /\ Missed # {} OBVIOUS
  <2> QED BY <2>1, LeastOf, Zenon
<1>2. n \in 1 .. Len(cs) /\ cs[n] \notin S /\ cs[n] \in Clusters /\ cs # <<>> OBVIOUS
<1>3. n # 1 BY <1>2 DEF FirstOf
<1>4. n - 1 \in 1 .. Len(cs) /\ n - 1 # Len(cs) /\ (n - 1) + 1 = n /\ ~(n <= n - 1)
  BY <1>2, <1>3
<1>5. cs[n - 1] \in S BY Zenon, <1>1, <1>4
<1>6. f[cs[n - 1]] = cs[n] BY <1>4 DEF Links
<1> QED BY <1>2, <1>5, <1>6 DEF Closed

LEMMA LInvInit == Init => LInv
<1> SUFFICES ASSUME Init PROVE LInv OBVIOUS
<1>1. pc = "down" /\ ~ready /\ ~tainted /\ stale = {} /\ torn = {} BY DEF Init
<1>2. 1 \in Copies BY FatAssumption DEF Copies
<1>3. dfat[1] = fat BY <1>2 DEF Init
<1>4. ASSUME NEW c \in Clusters, fat[c] # 0
      PROVE  \E s \in Intact : c \in ClustersOf(chain[s])
  <2>1. c \in 0 .. FAT_ENTRIES - 1 /\ c \notin 0 .. 1 BY ClusterNumbers DEF Clusters
  <2>2. PICK s \in RootSlots : dir[s] \in Given BY Zenon, <1>4, <2>1 DEF Init
  <2>3. c = 2 BY <1>4, <2>1, <2>2 DEF Init
  <2>4. chain[s] = <<2>> BY <2>2 DEF Init
  <2>5. s \in Intact
    <3>1. \A g \in Given : g.kind \in {"dir", "file"} BY DEF Given
    <3>2. IsFile(s) BY <2>2, <3>1 DEF IsFile
    <3> QED BY <1>1, <2>2, <3>2 DEF Intact
  <2>6. ClustersOf(<<2>>) = {2} BY DEF ClustersOf
  <2> QED BY Zenon, <2>3, <2>4, <2>5, <2>6
<1>5. Unfailed BY Zenon, <1>1, <1>3, <1>4 DEF Unfailed, Owned
<1> QED BY Zenon, <1>5, FInvInit DEF LInv

\* Where nothing fails.
LEMMA Unfailing ==
  ASSUME faults \in Nat, faults' = 0
  PROVE  ~Fails
BY DEF Fails

LEMMA LeakWriteFile ==
  ASSUME FInv, Unfailed, faults = 0, faults' = 0, NEW n \in Names83, NEW c \in Seq(Chunks),
         WriteFile(n, c)
  PROVE  Unfailed'
<1>1. /\ pc = "idle" /\ ready /\ ready' /\ torn = {}
      /\ UNCHANGED <<dir, dfat, data, content, chain, unsynced, stale>>
  BY DEF WriteFile, disk, Unfailed
<1>2. PICK s \in RootSlots \cup {0} :
        /\ FindRootEntry(n, s) \/ s = 0
        /\ \/ s # 0 /\ Overwrite(s) /\ Begin(s, dir[s], c)
           \/ /\ s = 0 /\ UNCHANGED <<fat, torn, tainted>>
              /\ \E free \in RootSlots \cup {0} :
                   \/ /\ free # 0 /\ FindFreeRootEntry(free)
                      /\ Begin(free, [Blank("file") EXCEPT !.name = n], c)
                   \/ free = 0 /\ Fails
  BY Zenon DEF WriteFile
<1>3. faults \in Nat /\ ~Fails BY Zenon, Unfailing DEF FInv, TypeOK
<1>4. ASSUME NEW r, NEW e, Begin(r, e, c)
      PROVE  pc' = "data" /\ op'.slot = r /\ op'.clusters = <<>> /\ InFlight' = {}
  <2> DEFINE o == [NoOp EXCEPT !.slot = r, !.entry = e, !.content = c]
  <2>1. o.slot = r /\ o.clusters = <<>> BY Zenon DEF NoOp
  <2>2. pc' = "data" /\ op' = o BY <1>3, <1>4 DEF Begin
  <2> HIDE DEF o
  <2>3. ClustersOf(<<>>) = {} BY DEF ClustersOf
  <2> QED BY <2>1, <2>2, <2>3 DEF InFlight
<1>5. InFlight = {} BY Zenon, <1>1 DEF InFlight
<1>6. TypeOK /\ Core BY Zenon DEF FInv, Unfailed
<1>7. CASE s = 0
  <2>1. PICK r \in RootSlots : FindFreeRootEntry(r) /\ pc' = "data" /\ op'.slot = r /\ InFlight' = {}
    BY Zenon, <1>2, <1>3, <1>4, <1>7
  <2>2. ~IsFile(r) BY <2>1 DEF FindFreeRootEntry, IsFirst, IsFile, RootSlots
  <2>3. UNCHANGED <<fat, torn, tainted>> BY Zenon, <1>2, <1>7
  <2>4. Intact' = Intact /\ r \notin Intact BY ZenonT(60), <1>1, <2>2, <2>3 DEF Intact, IsFile
  <2>5. Owned(fat)' BY Zenon, <1>1, <1>5, <2>1, <2>3, <2>4 DEF Unfailed, Owned
  <2> QED BY ZenonT(60), <1>1, <2>1, <2>3, <2>4, <2>5 DEF Unfailed
<1>8. CASE s # 0
  <2>1. /\ s \in RootSlots /\ IsFile(s) /\ fat' = FreeChain(fat, dir[s].first)
        /\ torn' = IF dir[s].first # 0 THEN torn \cup {s} ELSE torn
        /\ tainted' = (tainted \/ s \in stale)
    BY ZenonT(60), <1>2, <1>8 DEF Overwrite, FindRootEntry, IsFirst, IsFile
  <2>2. pc' = "data" /\ op'.slot = s /\ InFlight' = {} BY Zenon, <1>2, <1>4, <1>8
  <2>3. s \in Intact BY <1>1, <2>1 DEF Intact
  <2>4. Placed(s) /\ chain[s] \in Seq(Clusters) BY Zenon, <1>6, <2>3, WallOf
  <2>5. dir[s].first = FirstOf(chain[s]) /\ Links(fat, chain[s]) BY Zenon, <1>1, <2>4 DEF Placed
  <2>6. dir[s].first = 0 => chain[s] = <<>>
    <3>1. chain[s] # <<>> => FirstOf(chain[s]) \in ClustersOf(chain[s])
                             /\ ClustersOf(chain[s]) \in SUBSET Clusters
      BY Zenon, <2>4, ChainClusters
    <3> QED BY Zenon, <2>5, <3>1, ClusterNumbers
  <2>7. \A g \in Intact : g # s => g \in Intact' BY Zenon, <1>1, <2>1 DEF Intact, IsFile
  <2>8. dir[s].first = 0 => s \in Intact' BY ZenonT(60), <1>1, <2>1, <2>3 DEF Intact, IsFile
  <2>9. Owned(fat)'
    <3> SUFFICES ASSUME NEW z \in Clusters, fat'[z] # 0
                 PROVE  \E g \in Intact' : z \in ClustersOf(chain[g])
      BY ZenonT(60), <1>1 DEF Owned
    <3>1. DOMAIN fat = 0 .. FAT_ENTRIES - 1 BY Zenon, <1>6 DEF TypeOK, Fats
    <3>2. z \notin Walk(fat, dir[s].first) /\ fat[z] # 0
      BY <2>1, <3>1, ClusterNumbers DEF FreeChain
    <3>3. z \notin ClustersOf(chain[s]) BY ZenonT(60), <2>4, <2>5, <3>2, ChainWalked
    <3>4. PICK g \in Intact : z \in ClustersOf(chain[g])
      BY ZenonT(60), <1>1, <1>5, <3>2 DEF Unfailed, Owned
    <3> QED BY <2>7, <3>3, <3>4
  <2>10. torn' \subseteq {s} /\ ~tainted' /\ stale' = {} BY ZenonT(60), <1>1, <2>1 DEF Unfailed
  <2>11. s \in Intact' => chain'[s] = <<>>
    <3>1. s \in Intact' => dir[s].first = 0 BY <2>1 DEF Intact
    <3> QED BY Zenon, <1>1, <2>6, <3>1
  <2> QED BY Zenon, <1>1, <2>2, <2>9, <2>10, <2>11 DEF Unfailed
<1> QED BY <1>7, <1>8

LEMMA LeakWriteCluster ==
  ASSUME FInv, Unfailed, faults = 0, faults' = 0, WriteCluster
  PROVE  Unfailed'
<1>1. /\ pc = "data" /\ ready /\ ready' /\ TypeOK
      /\ UNCHANGED <<dir, dfat, content, chain, torn, unsynced, tainted>>
  BY DEF WriteCluster, FInv, Progress
<1>2. ~Fails BY <1>1, Unfailing DEF TypeOK
<1>3. PICK c \in Clusters :
        /\ fat' = Link(fat, op.clusters, c) /\ stale' = stale \cup (torn \ {op.slot})
        /\ op' = [op EXCEPT !.clusters = Append(@, c)] /\ pc' = pc
  BY <1>2 DEF WriteCluster
<1> DEFINE cs == op.clusters
<1>4. cs \in Seq(Clusters) /\ op'.clusters = Append(cs, c) /\ op'.slot = op.slot
  BY <1>1, <1>3 DEF TypeOK
<1>5. Intact' = Intact BY <1>1 DEF Intact, IsFile
<1>6. InFlight' = ClustersOf(cs) \cup {c} /\ InFlight = ClustersOf(cs)
  <2> HIDE DEF cs
  <2>1. ClustersOf(Append(cs, c)) = ClustersOf(cs) \cup {c}
    <3>1. /\ Len(Append(cs, c)) = Len(cs) + 1 /\ Len(cs) \in Nat /\ Append(cs, c)[Len(cs) + 1] = c
          /\ \A i \in 1 .. Len(cs) : Append(cs, c)[i] = cs[i]
      BY <1>4
    <3>2. 1 .. Len(cs) + 1 = (1 .. Len(cs)) \cup {Len(cs) + 1} BY <3>1
    <3> QED BY ZenonT(60), <3>1, <3>2 DEF ClustersOf
  <2> QED BY <1>1, <1>3, <1>4, <2>1 DEF InFlight, cs
<1>7. Owned(fat)'
  <2> SUFFICES ASSUME NEW z \in Clusters, fat'[z] # 0, z # c, z \notin ClustersOf(cs)
               PROVE  \E g \in Intact : z \in ClustersOf(chain[g])
    BY ZenonT(60), <1>1, <1>5, <1>6 DEF Owned
  <2>1. DOMAIN fat = 0 .. FAT_ENTRIES - 1 BY <1>1 DEF TypeOK, Fats
  <2>2. cs # <<>> => Last(cs) \in ClustersOf(cs) BY <1>4 DEF Last, ClustersOf
  <2> HIDE DEF cs
  <2>3. fat'[z] = fat[z] BY <1>3, <2>1, <2>2, ClusterNumbers DEF Link, cs
  <2> QED BY Zenon, <1>1, <1>6, <2>3 DEF Unfailed, Owned
<1>8. stale' = {}
  <2>1. torn \subseteq {op.slot} /\ stale = {} BY Zenon, <1>1 DEF Unfailed
  <2> QED BY Zenon, <1>3, <2>1
<1>9. ~tainted' /\ torn' \subseteq {op'.slot}
      /\ (op'.slot \in Intact' => chain'[op'.slot] = <<>>)
  BY Zenon, <1>1, <1>4, <1>5 DEF Unfailed
<1>10. pc' = "data" /\ pc' # "down" BY <1>1, <1>3
<1> QED BY Zenon, <1>7, <1>8, <1>9, <1>10 DEF Unfailed

LEMMA LeakWriteEntry ==
  ASSUME FInv, Unfailed, faults = 0, faults' = 0, WriteEntry
  PROVE  Unfailed'
<1>1. pc = "data" /\ ready /\ ready' /\ TypeOK /\ op.slot # 0 /\ op.entry.kind \in {"dir", "file"}
      /\ UNCHANGED <<dfat, data, fat, tainted>>
  BY Zenon DEF WriteEntry, FInv, Progress
<1>2. ~Fails BY <1>1, Unfailing DEF TypeOK
<1>3. Committed /\ pc' = "flush" /\ op' = op BY <1>2 DEF WriteEntry, OnDisk
<1>4. PICK p \in RootSlots : p = op.slot BY Zenon, <1>1 DEF TypeOK
<1>5. torn' = {} /\ stale' = {} BY Zenon, <1>1, <1>3 DEF Committed, Unfailed
<1>6. /\ chain'[p] = op.clusters
      /\ \A t \in RootSlots \ {p} : chain'[t] = chain[t] /\ dir'[t] = dir[t]
  BY Zenon, <1>1, <1>3, <1>4 DEF Committed, TypeOK
<1>7. p \in Intact'
  <2>1. dir'[p].kind = op.entry.kind BY Zenon, <1>1, <1>3, <1>4 DEF Committed, NewEntry, TypeOK, Entries
  <2> QED BY <1>1, <1>5, <2>1 DEF Intact, IsFile
<1>8. \A t \in Intact : t # p => t \in Intact' BY <1>5, <1>6 DEF Intact, IsFile
<1>9. Owned(fat)'
  <2> SUFFICES ASSUME NEW z \in Clusters, fat[z] # 0
               PROVE  \E g \in Intact' : z \in ClustersOf(chain'[g])
    BY ZenonT(60), <1>1 DEF Owned, ClustersOf
  <2>1. CASE z \in InFlight BY <1>1, <1>6, <1>7, <2>1 DEF InFlight
  <2>2. CASE z \notin InFlight
    <3>1. PICK g \in Intact : z \in ClustersOf(chain[g])
      BY Zenon, <1>1, <2>2 DEF Unfailed, Owned
    <3>2. CASE g = p
      <4>1. chain[g] = <<>> BY Zenon, <1>1, <1>4, <3>1, <3>2 DEF Unfailed
      <4> QED BY <3>1, <4>1 DEF ClustersOf
    <3>3. CASE g # p
      <4>1. g \in RootSlots BY DEF Intact
      <4> QED BY <1>6, <1>8, <3>1, <3>3, <4>1
    <3> QED BY <3>2, <3>3
  <2> QED BY <2>1, <2>2
<1> QED BY ZenonT(60), <1>1, <1>3, <1>5, <1>9 DEF Unfailed

LEMMA LInvStep == LInv /\ [Step]_vars => LInv'
<1> SUFFICES ASSUME LInv, [Step]_vars, faults' = 0 PROVE Unfailed'
  BY FInvStep DEF LInv
<1>1. FInv /\ TypeOK /\ faults \in Nat BY Zenon DEF LInv, FInv, TypeOK
<1>2. ASSUME NEW n \in Names83, NEW c \in Seq(Chunks), WriteFile(n, c) PROVE faults = 0
  <2>1. faults' = faults \/ faults' = faults + 1 BY Zenon, <1>2 DEF WriteFile, Begin, Fails
  <2> QED BY <1>1, <2>1
<1>3. WriteCluster \/ WriteEntry \/ FlushSector => faults = 0
  BY <1>1 DEF WriteCluster, WriteEntry, FlushSector, Fails
<1>4. ~Crash BY <1>1 DEF Crash
<1>5. Mount \/ UNCHANGED vars => faults = 0 BY DEF Mount, vars, history
<1>6. faults = 0 /\ Unfailed BY <1>2, <1>3, <1>4, <1>5 DEF Step, LInv
<1>7. CASE \E n \in Names83, c \in Seq(Chunks) : WriteFile(n, c)
  BY <1>1, <1>6, <1>7, LeakWriteFile
<1>8. CASE WriteCluster BY <1>1, <1>6, <1>8, LeakWriteCluster
<1>9. CASE WriteEntry BY <1>1, <1>6, <1>9, LeakWriteEntry
<1>10. CASE FlushSector
  <2>1. /\ pc = "flush" /\ pc' \in {"flush", "idle"}
        /\ UNCHANGED <<dir, fat, ready, chain, torn, stale, tainted>>
    BY Zenon, <1>10 DEF FlushSector, Fails
  <2>2. Intact' = Intact /\ InFlight' = {} /\ InFlight = {}
    BY ZenonT(60), <2>1 DEF Intact, IsFile, InFlight
  <2>3. Owned(fat) => Owned(fat)' BY Zenon, <2>1, <2>2 DEF Owned
  <2>4. pc # "data" /\ pc' # "data" /\ pc' # "down" BY <2>1
  <2> QED BY Zenon, <1>6, <2>1, <2>3, <2>4 DEF Unfailed
<1>11. CASE Mount
  <2>1. /\ pc = "down" /\ pc' = "idle" /\ (ready' => fat' = dfat[1])
        /\ UNCHANGED <<dir, dfat, chain, torn, stale, tainted>>
    BY Zenon, <1>11 DEF Mount, disk, history
  <2>2. Intact' = Intact /\ InFlight' = {} /\ InFlight = {}
    BY <2>1 DEF Intact, IsFile, InFlight
  <2>3. ready' => Owned(fat)' BY Zenon, <1>6, <2>1, <2>2 DEF Unfailed, Owned
  <2>4. pc # "data" /\ pc' # "data" /\ pc' # "down" BY <2>1
  <2> QED BY ZenonT(60), <1>6, <2>1, <2>3, <2>4 DEF Unfailed
<1>12. CASE UNCHANGED vars
  <2>1. UNCHANGED <<dir, dfat, fat, ready, pc, op, chain, torn, stale, tainted>>
    BY <1>12 DEF vars, disk, history
  <2>2. Intact' = Intact /\ InFlight' = InFlight BY Zenon, <2>1 DEF Intact, IsFile, InFlight
  <2> QED BY ZenonT(60), <1>6, <2>1, <2>2 DEF Unfailed, Owned
<1> QED BY <1>4, <1>7, <1>8, <1>9, <1>10, <1>11, <1>12 DEF Step

LEMMA LInvNoLeak == LInv => NoLeak
<1> SUFFICES ASSUME LInv, ready, faults = 0, NEW c \in Clusters, fat[c] # 0,
                    c \notin ClustersOf(op.clusters)
             PROVE  \E s \in RootSlots : IsFile(s) /\ c \in Walk(fat, dir[s].first)
  BY ZenonT(60) DEF NoLeak, ClustersOf
<1>1. Unfailed /\ TypeOK /\ Core BY Zenon DEF LInv, FInv, Unfailed
<1>2. c \notin InFlight BY DEF InFlight, ClustersOf
<1>3. PICK s \in Intact : c \in ClustersOf(chain[s]) BY ZenonT(60), <1>1, <1>2 DEF Unfailed, Owned
<1>4. /\ s \in RootSlots /\ IsFile(s) /\ chain[s] \in Seq(Clusters)
      /\ dir[s].first = FirstOf(chain[s]) /\ Links(fat, chain[s])
  BY <1>1, <1>3, WallOf, Zenon DEF Placed
<1> QED BY <1>3, <1>4, ChainWalked, Zenon

\* Overwriting gives every cluster of the old chain back: as long as no write
\* fails, write_file loses none, on disks of any size (NoLeak).
THEOREM NothingLeaks == Spec => []NoLeak
<1>1. Spec => []LInv BY LInvInit, LInvStep, NextSteps, PTL DEF Spec
<1> QED BY <1>1, LInvNoLeak, PTL

=============================================================================
