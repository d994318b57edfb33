-------------------------------- MODULE Fat16 --------------------------------
(***************************************************************************)
(* The FAT16 driver (src/fat16.rs) on the ATA disk (src/ata.rs).           *)
(*                                                                         *)
(* The disk is the root directory, the FAT copies and the data clusters;   *)
(* the driver keeps one FAT in memory and writes files straight to the     *)
(* disk.  A step is what happens between two sector writes: each sector    *)
(* operation may fail, and the machine may stop between any two of them.   *)
(* Sizes are counted in clusters: a chunk is what one cluster holds.       *)
(***************************************************************************)
EXTENDS Integers, Sequences, FiniteSets

CONSTANTS
  FAT_SECTORS,    \* fat_size_16: sectors of the FAT
  LastCluster,    \* the last cluster that lies on the disk
  SectorEntries,  \* FAT entries in a sector (256 in the code)
  EOC,            \* the end-of-chain mark, the largest u16 (0xFFFF)
  NUM_FATS,       \* copies of the FAT
  RootEntries,    \* slots of the root directory
  Chunks,         \* what a cluster can be made to hold
  Zero,           \* the chunk of zero bytes
  Names83,        \* the names directory entries can have
  GivenName,      \* the name of the file or subdirectory a disk may come with
  Contents,       \* what files are written with: sequences of chunks
  Nothing         \* no name, no data

FAT_ENTRIES == FAT_SECTORS * SectorEntries

ASSUME FatAssumption ==
  /\ SectorEntries \in Nat \ {0} /\ NUM_FATS \in Nat \ {0} /\ FAT_SECTORS \in Nat
  /\ EOC \in Nat /\ FAT_ENTRIES \in 3 .. EOC - 7
  /\ LastCluster \in 2 .. FAT_ENTRIES - 1
ASSUME DirAssumption ==
  /\ RootEntries \in Nat \ {0} /\ Contents \subseteq Seq(Chunks) /\ Zero \in Chunks
  /\ GivenName \in Names83 /\ Nothing \notin Names83 \cup Chunks

Clusters  == 2 .. FAT_ENTRIES - 1
Copies    == 1 .. NUM_FATS
RootSlots == 1 .. RootEntries
Fats      == [0 .. FAT_ENTRIES - 1 -> 0 .. EOC]
Kinds     == {"end", "deleted", "label", "dir", "file"}
Entries   == [kind : Kinds, name : Names83 \cup {Nothing},
              first : Clusters \cup {0}, size : Nat]

VARIABLES
  dir,       \* disk: the root directory
  dfat,      \* disk: the copies of the FAT
  data,      \* disk: the data clusters
  fat,       \* FAT_TABLE
  ready,     \* FAT16_READY
  pc,        \* where write_file is
  op,        \* its locals
  ret,       \* what the last write_file returned
  content,   \* history: what each slot's file was last made to hold
  chain,     \* history: the clusters that write allocated
  torn,      \* history: slots whose old chain is gone, the new one not in place
  unsynced,  \* history: slots rewritten since the last complete FAT flush
  stale,     \* history: torn slots whose old clusters were up for grabs
  tainted,   \* history: a stale slot's chain was freed
  misread,   \* history: a directory read failed during a lookup
  faults     \* history: how many writes failed or were cut off

disk    == <<dir, dfat, data>>
history == <<content, chain, torn, unsynced, stale, tainted, misread, faults>>
vars    == <<disk, fat, ready, pc, op, ret, history>>

Blank(k) == [kind |-> k, name |-> Nothing, first |-> 0, size |-> 0]
Given    == {[kind |-> "dir", name |-> GivenName, first |-> 2, size |-> 0],
             [kind |-> "file", name |-> GivenName, first |-> 2, size |-> 1]}
NoOp     == [slot |-> 0, entry |-> Blank("end"), content |-> <<>>,
             clusters |-> <<>>, copy |-> 1, sector |-> 0]

\* A zero-filled image, formatted, perhaps with a volume label,
\* a slot another system deleted, and a file or a subdirectory of one cluster.
Init ==
  /\ dir \in [RootSlots -> {Blank("end"), Blank("deleted"), Blank("label")} \cup Given]
  /\ \A i, j \in RootSlots :
       i < j => (dir[i].kind = "end" => dir[j].kind = "end") /\ ~(dir[i] \in Given /\ dir[j] \in Given)
  /\ LET used == IF \E i \in RootSlots : dir[i] \in Given THEN 0 .. 2 ELSE 0 .. 1
     IN fat = [c \in 0 .. FAT_ENTRIES - 1 |-> IF c \in used THEN EOC ELSE 0]
  /\ dfat = [k \in Copies |-> fat]
  /\ data = [c \in Clusters |-> Zero]
  /\ ready = FALSE /\ pc = "down" /\ op = NoOp /\ ret = 0
  /\ content = [s \in RootSlots |-> IF dir[s] \in Given THEN <<Zero>> ELSE <<>>]
  /\ chain = [s \in RootSlots |-> IF dir[s] \in Given THEN <<2>> ELSE <<>>]
  /\ torn = {} /\ unsynced = {} /\ stale = {}
  /\ tainted = FALSE /\ misread = FALSE /\ faults = 0

-----------------------------------------------------------------------------
(* ata.rs.  A sector write that reports an error has not been done, or has *)
(* been done and only the cache flush timed out.                           *)
Outcomes == {"ok", "failed", "unflushed"}
OnDisk(o) == o # "failed"

-----------------------------------------------------------------------------
(* The root directory and the FAT.                                         *)

\* Mutant: a deleted entry ends the scan.
ReachedUndeleted(i) == \A j \in RootSlots : j <= i => dir[j].kind \notin {"end", "deleted"}

\* Entries a scan gets to: it stops at the first name byte 0x00.
Reached(i) == \A j \in RootSlots : j <= i => dir[j].kind # "end"

\* i is the least element of S, or 0 if there is none.
IsFirst(S, i) == IF S = {} THEN i = 0 ELSE i \in S /\ \A j \in S : i <= j

\* find_root_entry when every read succeeds; slot 0 stands for -1.
FindRootEntry(n, i) ==
  IsFirst({j \in RootSlots : Reached(j) /\ dir[j].kind \in {"dir", "file"} /\ dir[j].name = n}, i)

\* find_free_root_entry.
FindFreeRootEntry(i) == IsFirst({j \in RootSlots : dir[j].kind \in {"end", "deleted"}}, i)

\* The clusters a walk along f from c visits: the least set that holds c and
\* is closed under f.
Closed(f, S) == \A y \in S : f[y] \in Clusters => f[y] \in S

Walk(f, c) ==
  {x \in Clusters : c \in Clusters /\
     \A S \in SUBSET Clusters : c \in S /\ Closed(f, S) => x \in S}

\* Mutant: only the first cluster of the chain is freed.
FreeFirst(f, c) == [x \in DOMAIN f |-> IF x = c /\ c \in Clusters THEN 0 ELSE f[x]]

\* write_file: every entry of the existing chain becomes 0.
FreeChain(f, c) == [x \in DOMAIN f |-> IF x \in Walk(f, c) THEN 0 ELSE f[x]]

\* Mutant: the search does not look whether the cluster is free.
FatAllocAny(f, c) == IsFirst(2 .. (FAT_ENTRIES % (EOC + 1)) - 1, c)

\* fat_alloc: the first free cluster of 2..FAT_ENTRIES as u16, 0 if none.
FatAlloc(f, c) == IsFirst({d \in 2 .. (FAT_ENTRIES % (EOC + 1)) - 1 : f[d] = 0}, c)

Last(cs) == cs[Len(cs)]

\* The new cluster ends the chain, and the cluster before it leads to it.
Link(f, cs, c) ==
  [x \in DOMAIN f |-> IF x = c THEN EOC
                      ELSE IF cs # <<>> /\ x = Last(cs) THEN c ELSE f[x]]

-----------------------------------------------------------------------------
(* write_file.                                                             *)

Fails == pc' = "idle" /\ ret' = -1 /\ op' = NoOp /\ faults' = faults + 1

\* kmalloc of the cluster buffer may fail, with the old chain already freed.
Begin(s, e, c) ==
  \/ Fails
  \/ /\ pc' = "data"
     /\ op' = [NoOp EXCEPT !.slot = s, !.entry = e, !.content = c]
     /\ UNCHANGED <<ret, faults>>

\* The file exists: free its chain, in memory.
Overwrite(s) ==
  /\ fat' = FreeChain(fat, dir[s].first)
  /\ torn' = IF dir[s].first # 0 THEN torn \cup {s} ELSE torn
  /\ tainted' = (tainted \/ s \in stale)

\* The lookup, up to the allocation of the buffer.  A directory read that
\* fails makes find_root_entry report "not found".
WriteFile(n, c) ==
  /\ pc = "idle" /\ ready
  /\ \E s \in RootSlots \cup {0} :
       /\ FindRootEntry(n, s) \/ s = 0
       /\ misread' = (misread \/ ~FindRootEntry(n, s))
       /\ \/ s # 0 /\ Overwrite(s) /\ Begin(s, dir[s], c)
          \/ /\ s = 0 /\ UNCHANGED <<fat, torn, tainted>>
             /\ \E free \in RootSlots \cup {0} :
                  \/ /\ free # 0 /\ FindFreeRootEntry(free)
                     /\ Begin(free, [Blank("file") EXCEPT !.name = n], c)
                  \/ free = 0 /\ Fails   \* directory full, or a read failed
  /\ UNCHANGED <<disk, ready, content, chain, unsynced, stale>>

\* One round of the loop: a cluster is allocated, linked and written.
WriteCluster ==
  /\ pc = "data" /\ Len(op.clusters) < Len(op.content)
  /\ \E c \in Clusters \cup {0} :
       /\ FatAlloc(fat, c)
       /\ \/ c = 0 /\ Fails /\ UNCHANGED <<data, fat, stale>>   \* disk full
          \/ /\ c # 0
             /\ fat' = Link(fat, op.clusters, c)
             /\ stale' = stale \cup (torn \ {op.slot})
             /\ \E o \in IF c <= LastCluster THEN Outcomes ELSE {"failed"} :
                  /\ data' = IF OnDisk(o)
                             THEN [data EXCEPT ![c] = op.content[Len(op.clusters) + 1]]
                             ELSE data
                  /\ \/ o # "ok" /\ Fails
                     \/ /\ o = "ok" /\ op' = [op EXCEPT !.clusters = Append(@, c)]
                        /\ UNCHANGED <<pc, ret, faults>>
  /\ UNCHANGED <<dir, dfat, ready, content, chain, torn, unsynced, tainted, misread>>

\* write_root_entry: from here on the directory names the new chain.
NewEntry == [op.entry EXCEPT !.first = IF op.clusters = <<>> THEN 0 ELSE op.clusters[1],
                             !.size = Len(op.content)]

Committed ==
  /\ dir' = [dir EXCEPT ![op.slot] = NewEntry]
  /\ content' = [content EXCEPT ![op.slot] = op.content]
  /\ chain' = [chain EXCEPT ![op.slot] = op.clusters]
  /\ torn' = torn \ {op.slot} /\ stale' = stale \ {op.slot}
  /\ unsynced' = unsynced \cup {op.slot}

WriteEntry ==
  /\ pc = "data" /\ Len(op.clusters) = Len(op.content)
  /\ \E o \in Outcomes :
       /\ \/ OnDisk(o) /\ Committed
          \/ ~OnDisk(o) /\ UNCHANGED <<dir, content, chain, torn, stale, unsynced>>
       /\ \/ o # "ok" /\ Fails
          \/ o = "ok" /\ pc' = "flush" /\ UNCHANGED <<op, ret, faults>>
  /\ UNCHANGED <<dfat, data, fat, ready, tainted, misread>>

\* fat_flush, one sector of one copy at a time.
FlushedSector(old, new, n) ==
  [x \in DOMAIN old |-> IF x \div SectorEntries = n THEN new[x] ELSE old[x]]

FlushSector ==
  /\ pc = "flush"
  /\ \E o \in Outcomes :
       /\ dfat' = IF OnDisk(o)
                  THEN [dfat EXCEPT ![op.copy] = FlushedSector(@, fat, op.sector)]
                  ELSE dfat
       /\ \/ o # "ok" /\ Fails /\ UNCHANGED unsynced
          \/ /\ o = "ok" /\ op.sector + 1 < FAT_SECTORS
             /\ op' = [op EXCEPT !.sector = @ + 1]
             /\ UNCHANGED <<pc, ret, faults, unsynced>>
          \/ /\ o = "ok" /\ op.sector + 1 >= FAT_SECTORS /\ op.copy < NUM_FATS
             /\ op' = [op EXCEPT !.copy = @ + 1, !.sector = 0]
             /\ UNCHANGED <<pc, ret, faults, unsynced>>
          \/ /\ o = "ok" /\ op.sector + 1 >= FAT_SECTORS /\ op.copy = NUM_FATS
             /\ pc' = "idle" /\ ret' = 0 /\ op' = NoOp /\ unsynced' = {}
             /\ UNCHANGED faults
  /\ UNCHANGED <<dir, data, fat, ready, content, chain, torn, stale, tainted, misread>>

-----------------------------------------------------------------------------
\* The machine stops.  Slots the FAT on disk does not know yet are torn.
Crash ==
  /\ pc # "down"
  /\ pc' = "down" /\ ready' = FALSE /\ op' = NoOp
  /\ torn' = torn \cup {s \in unsynced : dir[s].first # 0} /\ unsynced' = {}
  /\ faults' = faults + 1
  /\ UNCHANGED <<disk, fat, ret, content, chain, stale, tainted, misread>>

\* ata::init and init at boot: the first FAT copy is read into memory.  If the
\* drive is missing, a read fails or kmalloc does, nothing is mounted.
Mount ==
  /\ pc = "down"
  /\ pc' = "idle"
  /\ \/ ready' = TRUE /\ fat' = dfat[1]
     \/ ready' = FALSE /\ UNCHANGED fat
  /\ UNCHANGED <<disk, op, ret, history>>

Next ==
  \/ \E n \in Names83, c \in Contents : WriteFile(n, c)
  \/ WriteCluster \/ WriteEntry \/ FlushSector \/ Crash \/ Mount

Spec == Init /\ [][Next]_vars

-----------------------------------------------------------------------------
(* Reading.                                                                *)

\* Mutant: clusters are read one after the other.
NthConsecutive(c, i) == c + i - 1

\* The i-th cluster of the chain that starts at c, EOC past its end.
NthCluster(c, i) ==
  LET nth[k \in 1 .. i] == IF k = 1 THEN c
                           ELSE IF nth[k - 1] \in Clusters THEN fat[nth[k - 1]] ELSE EOC
  IN nth[i]

\* read_file of the entry in slot s into a buffer of max clusters, when every
\* read succeeds.
ReadFile(s, max) ==
  LET want == IF dir[s].size > max THEN max ELSE dir[s].size
      have == {i \in 1 .. want : \A j \in 1 .. i : NthCluster(dir[s].first, j) \in Clusters}
  IN [i \in have |-> data[NthCluster(dir[s].first, i)]]

\* The chain of slot s holds c, and the entry says so.
Holds(s, c) ==
  LET n == Len(c)
  IN \E cs \in [1 .. n -> Clusters] :
       /\ n = 0 => dir[s].first = 0
       /\ n > 0 => dir[s].first = cs[1] /\ fat[cs[n]] = EOC
       /\ \A i \in 1 .. n : data[cs[i]] = c[i] /\ (i < n => fat[cs[i]] = cs[i + 1])
       /\ dir[s].kind = "file" => dir[s].size = n

IsFile(s) == dir[s].kind \in {"dir", "file"}

TypeOK ==
  /\ dir \in [RootSlots -> Entries] /\ dfat \in [Copies -> Fats]
  /\ data \in [Clusters -> Chunks] /\ fat \in Fats
  /\ ready \in BOOLEAN /\ pc \in {"down", "idle", "data", "flush"}
  /\ op \in [slot : RootSlots \cup {0}, entry : Entries, content : Seq(Chunks),
             clusters : Seq(Clusters), copy : Copies, sector : Nat]
  /\ ret \in {0, -1}
  /\ content \in [RootSlots -> Seq(Chunks)] /\ chain \in [RootSlots -> Seq(Clusters)]
  /\ torn \subseteq RootSlots /\ unsynced \subseteq RootSlots /\ stale \subseteq torn
  /\ tainted \in BOOLEAN /\ misread \in BOOLEAN /\ faults \in Nat

\* A file holds what write_file was last asked to put there, through failed
\* writes of any file and through a crash at any point, from the moment its
\* directory entry is written, and durably once write_file has returned 0.
\* The exception is a file whose overwrite failed or was cut off by a crash.
\* The others are safe from it until it is written again after another
\* file's write has used its old clusters.
FilesIntact ==
  ready /\ ~tainted => \A s \in RootSlots \ torn : IsFile(s) => Holds(s, content[s])

\* Two entries never have one name, unless a directory read failed while
\* write_file looked the name up.
NamesUnique ==
  ~misread => \A s, t \in RootSlots :
    Reached(s) /\ Reached(t) /\ IsFile(s) /\ IsFile(t) /\ dir[s].name = dir[t].name => s = t

\* As long as no write has failed or been cut off by a crash, every cluster that is not
\* free belongs to a file or to the write under way: overwriting gives the
\* old chain back.
NoLeak ==
  ready /\ faults = 0 =>
    \A c \in Clusters : fat[c] # 0 =>
      \/ \E s \in RootSlots : IsFile(s) /\ c \in Walk(fat, dir[s].first)
      \/ c \in {op.clusters[i] : i \in 1 .. Len(op.clusters)}

=============================================================================
