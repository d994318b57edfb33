------------------------------- MODULE DiskVfs -------------------------------
(***************************************************************************)
(* /disk, the FAT16 files as VFS nodes (src/fat16_vfs.rs), with the 8.3    *)
(* name conversion and the directory listing of src/fat16.rs.  The shell   *)
(* writes files by name; a program holds one descriptor on a node.         *)
(***************************************************************************)
EXTENDS Fat16

CONSTANTS
  Names,     \* names as they are typed: sequences of characters
  Upper,     \* the upper case of each character
  BaseLen,   \* 8 in the code
  ExtLen,    \* 3 in the code
  MaxFiles,  \* FAT16_VFS_MAX_FILES
  MaxNodes,  \* bound: nodes kmalloc can hand out
  MaxCalls   \* bound: opens and writes

ASSUME DiskVfsAssumption ==
  /\ BaseLen \in Nat /\ ExtLen \in Nat /\ MaxFiles \in Nat /\ MaxNodes \in Nat /\ MaxCalls \in Nat
  /\ Names \subseteq Seq(DOMAIN Upper)

\* The characters of a name, without the space that pads 8.3 names.  Conversion
\* to upper case leaves upper case and the dot alone, and makes no dot.
ASSUME UpperAssumption ==
  \A c \in DOMAIN Upper :
    /\ Upper[c] \in DOMAIN Upper /\ Upper[Upper[c]] = Upper[c]
    /\ Upper[c] = "." <=> c = "."

VARIABLES
  node,        \* the allocated nodes: name and size of each
  file_nodes,  \* FILE_NODES
  node_count,  \* NODE_COUNT
  open,        \* the descriptor: its node, and the slot it was opened for
  offset,      \* VFS write under way: where it began, 0 if none
  calls,       \* opens and writes so far
  filled       \* history: a deleted slot was given to a new file

cache == <<node, file_nodes, node_count>>
dvars == <<vars, cache, open, offset, calls, filled>>

Call == calls < MaxCalls /\ calls' = calls + 1

NoFd == [node |-> 0, slot |-> 0]

-----------------------------------------------------------------------------
(* 8.3 names: a base and an extension, upper case, without the padding.    *)

Prefix(q, n) == SubSeq(q, 1, IF Len(q) < n THEN Len(q) ELSE n)

\* name_to_83.
To83(name) ==
  LET dot == CHOOSE d \in 1 .. Len(name) + 1 :
               /\ d <= Len(name) => name[d] = "."
               /\ \A k \in 1 .. d - 1 : name[k] # "."
      up  == [k \in 1 .. Len(name) |-> Upper[name[k]]]
  IN <<Prefix(SubSeq(up, 1, dot - 1), BaseLen), Prefix(SubSeq(up, dot + 1, Len(name)), ExtLen)>>

\* name_from_83.
From83(n) == IF n[2] = <<>> THEN n[1] ELSE n[1] \o <<".">> \o n[2]

\* Names on the disk are upper case, as the driver writes them.
ASSUME NamesAssumption ==
  {To83(n) : n \in Names} \subseteq Names83 /\ To83(From83(GivenName)) = GivenName

-----------------------------------------------------------------------------
(* The listing and the node cache.                                         *)

\* The files get_file_count, get_file_name and get_file_size count, and the
\* slot of the one at each position.
Files == {s \in RootSlots : Reached(s) /\ dir[s].kind = "file"}
Position(s) == Cardinality({t \in Files : t <= s})
Listed == [i \in 1 .. Cardinality(Files) |-> CHOOSE s \in Files : Position(s) = i]

\* refresh_nodes: node i is made over, or made, for the i-th file.  A read
\* error in the count, in a name or in kmalloc ends the list early; one in a
\* size makes that size 0.
RefreshNodes(mounted) ==
  \E n \in 0 .. Len(Listed), lost \in SUBSET (1 .. Len(Listed)) :
    LET most  == IF mounted THEN n ELSE 0
        fresh == {i \in 1 .. most : i > node_count}
        id(i) == IF i \in fresh THEN Len(node) + i - node_count ELSE file_nodes[i]
        made(i) == [name |-> From83(dir[Listed[i]].name),
                    size |-> IF i \in lost THEN 0 ELSE dir[Listed[i]].size]
    IN /\ most <= MaxFiles /\ lost \subseteq 1 .. most
       /\ Len(node) + Cardinality(fresh) <= MaxNodes
       /\ node_count' = most
       /\ file_nodes' = [i \in 1 .. MaxFiles |-> IF i <= most THEN id(i) ELSE file_nodes[i]]
       /\ node' = [k \in 1 .. Len(node) + Cardinality(fresh) |->
                     IF \E i \in 1 .. most : id(i) = k
                     THEN made(CHOOSE i \in 1 .. most : id(i) = k) ELSE node[k]]

\* fat16_vfs_finddir for an open by name: refresh, then the first node with
\* this very name.
Open(name) ==
  /\ pc = "idle" /\ offset = 0 /\ Call
  /\ RefreshNodes(ready)
  /\ \E i \in 0 .. node_count' :
       /\ i = 0 <=> \A k \in 1 .. node_count' : node'[file_nodes'[k]].name # name
       /\ i > 0 => /\ node'[file_nodes'[i]].name = name
                   /\ \A k \in 1 .. i - 1 : node'[file_nodes'[k]].name # name
       /\ open' = IF i = 0 THEN NoFd ELSE [node |-> file_nodes'[i], slot |-> Listed[i]]
  /\ UNCHANGED <<vars, offset, filled>>

\* The same for another program, and fat16_vfs_readdir: the descriptor stays open
\* while the nodes are made over.
Lookup ==
  /\ pc = "idle" /\ offset = 0 /\ Call
  /\ RefreshNodes(ready)
  /\ UNCHANGED <<vars, open, offset, filled>>

-----------------------------------------------------------------------------
(* Reading and writing through a node.                                     *)

\* fat16_vfs_read of the whole node, when every read succeeds.
VfsRead(k) ==
  IF node[k].size = 0 THEN <<>>
  ELSE LET s == CHOOSE i \in RootSlots \cup {0} : FindRootEntry(To83(node[k].name), i)
       IN IF s = 0 THEN <<>> ELSE ReadFile(s, node[k].size)

\* What fat16_vfs_write at offset > 0 writes: the old content as far as it
\* could be read, zeros, and the new chunk over it.
Overlaid(old, read, off, size, chunk) ==
  [i \in 1 .. size |-> IF i = off + 1 THEN chunk
                       ELSE IF i <= read /\ i <= Len(old) THEN old[i] ELSE Zero]

\* fat16_vfs_write of one chunk up to its call of write_file.  Read errors of
\* the old content are ignored.
VfsWrite(off, chunk) ==
  /\ open # NoFd /\ offset = 0 /\ Call
  /\ \E read \in 0 .. node[open.node].size :
       LET size == IF off = 0 \/ off + 1 > node[open.node].size THEN off + 1
                   ELSE node[open.node].size
       IN /\ off = 0 => read = 0
          /\ size <= Cardinality(Clusters)
          /\ WriteFile(To83(node[open.node].name),
                       Overlaid(VfsRead(open.node), read, off, size, chunk))
          /\ offset' = size
  /\ UNCHANGED <<cache, open, filled>>

\* write_file returned: on success the node gets the new size.
VfsWritten ==
  /\ pc = "idle" /\ offset # 0
  /\ node' = IF ret = 0 THEN [node EXCEPT ![open.node].size = offset] ELSE node
  /\ offset' = 0
  /\ UNCHANGED <<vars, file_nodes, node_count, open, calls, filled>>

\* The shell's write command.
ShellWrite(name, c) ==
  /\ offset = 0 /\ Call /\ WriteFile(To83(name), c)
  /\ UNCHANGED <<cache, open, offset, filled>>

WriteGoesOn ==
  /\ WriteCluster \/ WriteEntry \/ FlushSector
  /\ filled' = (filled \/ \E s \in RootSlots : dir[s].kind = "deleted" /\ dir'[s].kind = "file")
  /\ UNCHANGED <<cache, open, offset, calls>>

Reboot ==
  /\ Crash
  /\ node' = <<>> /\ node_count' = 0 /\ open' = NoFd /\ offset' = 0 /\ filled' = FALSE
  /\ file_nodes' = [i \in 1 .. MaxFiles |-> 0] /\ UNCHANGED calls

\* fat16::init, then fat16_vfs::init populates the cache.
Boot == Mount /\ RefreshNodes(ready') /\ UNCHANGED <<open, offset, calls, filled>>

DInit ==
  /\ Init
  /\ node = <<>> /\ file_nodes = [i \in 1 .. MaxFiles |-> 0] /\ node_count = 0
  /\ open = NoFd /\ offset = 0 /\ calls = 0 /\ filled = FALSE

DNext ==
  \/ \E n \in Names : Open(n) \/ \E c \in Contents : ShellWrite(n, c)
  \/ \E off \in 0 .. 1, chunk \in Chunks : VfsWrite(off, chunk)
  \/ Lookup \/ VfsWritten \/ WriteGoesOn \/ Reboot \/ Boot

DSpec == DInit /\ [][DNext]_dvars

-----------------------------------------------------------------------------
\* An open descriptor keeps reading the file it was opened for, whatever is
\* written meanwhile and however often the node cache is refreshed: its node's
\* name still leads to that file's entry and the entry to its content.  Not so
\* if a deleted slot before it was filled (the cache goes by position), or if
\* the file changed size behind the node's back.
OpenReads ==
  /\ ready /\ open # NoFd /\ ~filled /\ ~misread /\ ~tainted /\ open.slot \notin torn
  /\ node[open.node].size = dir[open.slot].size
  => VfsRead(open.node) = content[open.slot]

=============================================================================
