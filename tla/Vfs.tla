-------------------------------- MODULE Vfs --------------------------------
(***************************************************************************)
(* The virtual file system: the tree of nodes (src/src/vfs.rs), the        *)
(* descriptor table, the RAM files that are its leaves (Ramfs), and the    *)
(* system calls that change them (src/src/syscall.rs).                     *)
(*                                                                         *)
(* Nodes are heap blocks, named by their addresses; a freed address may be *)
(* handed out again.  A path is a sequence of names and a call that takes  *)
(* one walks it a component at a time, so that every intermediate state of *)
(* mkdir_p, which creates directories on the way, is a state here.         *)
(*                                                                         *)
(* The file system is entered by one thread at a time: the shell waits     *)
(* while a program runs, and programs run with interrupts off.             *)
(***************************************************************************)
EXTENDS Ramfs, Sequences, FiniteSets

CONSTANTS
    Addr,                \* the heap blocks a node can be in
    Root,                \* VFS_ROOT
    InitrdNode,          \* the node of the one file of the initial RAM disk
    Null,                \* the null pointer
    Name,                \* file names
    InitrdName,          \* the name of that file
    InitrdSize,          \* and its length
    NoName,              \* the name of memory that holds no node
    Path,                \* the paths that calls are made with
    VFS_MAX_CHILDREN,
    MAX_OPEN_FILES,
    Workloads,           \* sets of the calls a behaviour makes: "dirs", "data"
    SeekTo,              \* the offsets lseek is called with
    Sizes                \* the sizes read and write are called with

ASSUME VfsAssumption == /\ IsFiniteSet(Addr)
                        /\ Root \in Addr
                        /\ InitrdNode \in Addr \ {Root}
                        /\ Null \notin Addr
                        /\ InitrdName \in Name
                        /\ InitrdSize \in 0 .. U32-1
                        /\ NoName \notin Name
                        /\ Path \subseteq Seq(Name) \ {<< >>}
                        /\ VFS_MAX_CHILDREN \in 1 .. U32-1
                        /\ MAX_OPEN_FILES \in Nat \ {0}
                        /\ Workloads \subseteq SUBSET {"dirs", "data"}
                        /\ SeekTo \subseteq Int
                        /\ Sizes \subseteq 0 .. (U32 \div 2) - 1

VARIABLES
    kind,       \* flags and function pointers of each node; "free": no node
    name,       \* VfsNode.name
    kids,       \* VfsNode.children, the first num_children of them
    parent,     \* VfsNode.parent
    file,       \* VfsNode.private_data of a RAM file
    fds,        \* FD_TABLE
    blocks,     \* how many heap blocks the file system holds
    call,       \* the call in progress
    content,    \* what has been written to each RAM file (history)
    stale,      \* descriptors whose node was unlinked while open (history)
    hungAt,     \* the end of the write whose doubling never ends, or 0
    wild,       \* freed or foreign memory has been used
    workload    \* which calls are made besides create, open, unlink and close

tree == <<kind, name, kids, parent>>
vars == <<kind, name, kids, parent, file, fds, blocks, call, content, stale, hungAt, wild,
          workload>>

FD == 0 .. MAX_OPEN_FILES-1
Kind == {"free", "dir", "ram", "initrd"}
Op == {"none", "open", "mkdir", "unlink", "rename_from", "rename_to"}

\* cur, rest: the walk (resolve_path); node, to: what rename moves and where
\* to; name: the last component of a path whose parent is being resolved.
NoCall == [op |-> "none", cur |-> Null, rest |-> << >>,
           node |-> Null, to |-> << >>, name |-> NoName]
NoFd == [in_use |-> FALSE, node |-> Null, offset |-> 0]

\* vfs::init: the root, with the initial RAM disk's file below it.
Init ==
    /\ kind = [a \in Addr |-> CASE a = Root -> "dir"
                                [] a = InitrdNode -> "initrd"
                                [] OTHER -> "free"]
    /\ name = [a \in Addr |-> IF a = InitrdNode THEN InitrdName ELSE NoName]
    /\ kids = [a \in Addr |-> IF a = Root THEN <<InitrdNode>> ELSE << >>]
    /\ parent = [a \in Addr |-> IF a = InitrdNode THEN Root ELSE Null]
    /\ file = [a \in Addr |-> EmptyFile]
    /\ fds = [d \in FD |-> NoFd]
    /\ blocks = 2
    /\ call = NoCall
    /\ content = [a \in Addr |-> NoContent]
    /\ stale = {}
    /\ hungAt = 0
    /\ wild = FALSE
    /\ workload \in Workloads

Running == ~wild /\ hungAt = 0
Idle == Running /\ call.op = "none"
At(op) == Running /\ call.op = op

-----------------------------------------------------------------------------
(* Directories.                                                            *)

\* The positions of d's children with name n.
Matches(d, n) == {i \in DOMAIN kids[d] : name[kids[d][i]] = n}

LastMatch(d, n) == CHOOSE i \in Matches(d, n) : \A j \in Matches(d, n) : j <= i
FirstMatch(d, n) == CHOOSE i \in Matches(d, n) : \A j \in Matches(d, n) : i <= j

\* vfs::finddir with default_finddir; a file has no finddir_fn.
finddir(d, n) ==
    IF kind[d] = "dir" /\ Matches(d, n) # {}
    THEN kids[d][CHOOSE i \in Matches(d, n) : \A j \in Matches(d, n) : i <= j]
    ELSE Null

\* The early returns of vfs::add_child.
CanAdd(d) == kind[d] = "dir" /\ Len(kids[d]) < VFS_MAX_CHILDREN

\* "Shift remaining children down": the list without child i.
DropLast(s, i) == SubSeq(s, 1, Len(s) - 1)
Without(s, i) == [j \in 1 .. Len(s) - 1 |-> IF j < i THEN s[j] ELSE s[j + 1]]

\* The lists once child i of d is taken out.
Unhooked(d, i) == [kids EXCEPT ![d] = Without(@, i)]

FreeNodes == {a \in Addr : kind[a] = "free"}

\* A zeroed node a of kind k and name n, added last to d.
Attach(d, a, k, n) ==
    /\ kind' = [kind EXCEPT ![a] = k]
    /\ name' = [name EXCEPT ![a] = n]
    /\ parent' = [parent EXCEPT ![a] = d]
    /\ kids' = [kids EXCEPT ![d] = Append(@, a)]

\* How many of the k blocks obtained so far a failing creation gives back.
RollbackPart(k) == IF k = 2 THEN 1 ELSE k
Rollback(k) == k

-----------------------------------------------------------------------------
(* Calls that take a path.                                                 *)

Walked == call.rest = << >> \/ call.cur = Null
ParentOf(p) == SubSeq(p, 1, Len(p) - 1)
LastOf(p) == p[Len(p)]

Start(op, path, last, to) ==
    /\ Idle
    /\ call' = [op |-> op, cur |-> Root, rest |-> path,
                node |-> Null, to |-> to, name |-> last]
    /\ UNCHANGED <<tree, file, fds, blocks, content, stale, hungAt, wild>>

SysOpen(p) == Start("open", p, NoName, << >>)
SysMkdir(p) == "dirs" \in workload /\ Start("mkdir", p, NoName, << >>)
SysUnlink(p) == Start("unlink", ParentOf(p), LastOf(p), << >>)
SysRename(p, q) == "dirs" \in workload /\ Start("rename_from", p, NoName, q)

Advance(a) == call' = [call EXCEPT !.cur = a, !.rest = Tail(@)]
Return == call' = NoCall

\* One turn of resolve_path's loop.
Walk ==
    /\ Running
    /\ call.op \in {"open", "unlink", "rename_from", "rename_to"}
    /\ ~Walked
    /\ Advance(finddir(call.cur, Head(call.rest)))
    /\ UNCHANGED <<tree, file, fds, blocks, content, stale, hungAt, wild>>

\* One turn of mkdir_p's loop: the child if there is one, else mkdir.  A
\* creation fails below a file, when kmalloc does, and, after the block has
\* been obtained, when the directory is full.
MkdirTurn ==
    /\ At("mkdir")
    /\ ~Walked
    /\ LET d == call.cur
           n == Head(call.rest)
           child == finddir(d, n)
       IN  \/ /\ child # Null
              /\ Advance(child)
              /\ UNCHANGED <<tree, blocks>>
           \/ /\ child = Null
              /\ CanAdd(d)
              /\ \E a \in FreeNodes : Attach(d, a, "dir", n) /\ Advance(a)
              /\ blocks' = blocks + 1
           \/ /\ child = Null
              /\ Advance(Null)
              /\ \E k \in 0 .. 1 : /\ k = 1 => kind[d] = "dir" /\ ~CanAdd(d)
                                   /\ blocks' = blocks + k - Rollback(k)
              /\ UNCHANGED tree
    /\ UNCHANGED <<file, fds, content, stale, hungAt, wild>>

MkdirDone ==
    /\ At("mkdir")
    /\ Walked
    /\ Return
    /\ UNCHANGED <<tree, file, fds, blocks, content, stale, hungAt, wild>>

\* The end of vfs_open: the first descriptor that is not in use.
OpenDone ==
    /\ At("open")
    /\ Walked
    /\ \/ /\ call.cur # Null
          /\ \E d \in FD : /\ ~fds[d].in_use
                           /\ \A e \in FD : e < d => fds[e].in_use
                           /\ fds' = [fds EXCEPT ![d] = [in_use |-> TRUE,
                                                         node |-> call.cur,
                                                         offset |-> 0]]
       \/ /\ call.cur = Null \/ \A d \in FD : fds[d].in_use
          /\ UNCHANGED fds
    /\ Return
    /\ UNCHANGED <<tree, file, blocks, content, stale, hungAt, wild>>

\* The blocks unlink frees: the node and, when private_data is set, what it
\* points to and the buffer whose address is the first word there.
Freed(k) == IF k = "ram" THEN 3 ELSE 1

\* The end of unlink_path.  A node from the initial RAM disk has a
\* private_data that is no heap block, and its first word is a file name:
\* both are passed to kfree.
UnlinkDone ==
    /\ At("unlink")
    /\ Walked
    /\ LET d == call.cur
           i == FirstMatch(d, call.name)
           a == kids[d][i]
       IN  \/ /\ d # Null /\ kind[d] = "dir" /\ Matches(d, call.name) # {}
              /\ kind' = [kind EXCEPT ![a] = "free"]
              /\ name' = [name EXCEPT ![a] = NoName]
              /\ parent' = [parent EXCEPT ![a] = Null]
              /\ kids' = [kids EXCEPT ![d] = Without(@, i), ![a] = << >>]
              /\ file' = [file EXCEPT ![a] = EmptyFile]
              /\ content' = [content EXCEPT ![a] = NoContent]
              /\ blocks' = blocks - Freed(kind[a])
              /\ stale' = stale \union {e \in FD : fds[e].in_use /\
                                                   fds[e].node = finddir(d, call.name)}
              /\ wild' = (kind[a] = "initrd")
           \/ /\ d # Null => kind[d] # "dir" \/ Matches(d, call.name) = {}
              /\ UNCHANGED <<tree, file, content, blocks, stale, wild>>
    /\ Return
    /\ UNCHANGED <<fds, hungAt>>

\* sys_rename after it has resolved the old path; the root has no parent.
RenameFound ==
    /\ At("rename_from")
    /\ Walked
    /\ \/ /\ call.cur # Null /\ parent[call.cur] # Null
          /\ call' = [op |-> "rename_to", cur |-> Root, rest |-> ParentOf(call.to),
                      node |-> call.cur, to |-> << >>, name |-> LastOf(call.to)]
       \/ /\ call.cur # Null => parent[call.cur] = Null
          /\ Return
    /\ UNCHANGED <<tree, file, fds, blocks, content, stale, hungAt, wild>>

\* Where the moved node ends up: in the directory asked for, or back where
\* it was when that one is full or no directory.  ks is the tree without it.
NoFallback(ks, to, from) ==
    IF kind[to] = "dir" /\ Len(ks[to]) < VFS_MAX_CHILDREN THEN {to} ELSE {}
Home(ks, to, from) ==
    IF kind[to] = "dir" /\ Len(ks[to]) < VFS_MAX_CHILDREN THEN {to} ELSE {from}

\* The rest of sys_rename.  The node has its new name even when the new
\* parent refuses it.
RenameDone ==
    /\ At("rename_to")
    /\ Walked
    /\ LET a == call.node
           from == parent[a]
           Gap == {j \in DOMAIN kids[from] : kids[from][j] = a}
       IN  \/ /\ call.cur # Null
              /\ \E i \in Gap :
                    LET ks == Unhooked(from, i)
                        home == Home(ks, call.cur, from)
                    IN  /\ \A j \in Gap : i <= j
                        /\ kids' = [d \in Addr |-> IF d \in home THEN Append(ks[d], a)
                                                   ELSE ks[d]]
                        /\ parent' = [parent EXCEPT ![a] = IF home = {} THEN @
                                                           ELSE CHOOSE d \in home : TRUE]
              /\ name' = [name EXCEPT ![a] = call.name]
           \/ /\ call.cur # Null => Gap = {}
              /\ UNCHANGED <<name, kids, parent>>
    /\ Return
    /\ UNCHANGED <<kind, file, fds, blocks, content, stale, hungAt, wild>>

-----------------------------------------------------------------------------
(* Creating a RAM file, and the calls on descriptors.                      *)

\* create_file(n): in the root, with the node, the RamfsFileData and its
\* buffer; a failure after k of the three allocations gives k back.
CreateFile(n) ==
    /\ Idle
    /\ finddir(Root, n) = Null
    /\ \/ /\ CanAdd(Root)
          /\ \E a \in FreeNodes : Attach(Root, a, "ram", n)
          /\ blocks' = blocks + 3
       \/ /\ \E k \in 0 .. 3 : /\ k = 3 => ~CanAdd(Root)
                               /\ blocks' = blocks + k - Rollback(k)
          /\ UNCHANGED tree
    /\ UNCHANGED <<file, fds, call, content, stale, hungAt, wild>>

Open(d) == Idle /\ fds[d].in_use

\* VfsNode.size.
SizeOf(a) == CASE kind[a] = "ram" -> file[a].size
               [] kind[a] = "initrd" -> InitrdSize
               [] OTHER -> 0

\* What a call through a descriptor whose node has been freed does is not
\* described any further.
UseFreed(d) ==
    /\ Open(d)
    /\ d \in stale
    /\ wild' = TRUE
    /\ UNCHANGED <<tree, file, fds, blocks, call, content, stale, hungAt>>

\* vfs_fd_read, which the shell's cat and compiled programs call directly.
FdRead(d, n) ==
    /\ "data" \in workload
    /\ Open(d)
    /\ d \notin stale
    /\ kind[fds[d].node] \in {"ram", "initrd"}
    /\ LET got == RamfsRead(SizeOf(fds[d].node), fds[d].offset, n)
       IN  fds' = [fds EXCEPT ![d].offset = @ + got]
    /\ UNCHANGED <<tree, file, blocks, call, content, stale, hungAt, wild>>

\* vfs_fd_write of n bytes b to a RAM file: refused when the end does not
\* fit in a u32 or the larger buffer cannot be had.
FdWrite(d, n, b) ==
    LET a == fds[d].node
        offset == fds[d].offset
        bytes == [i \in 0 .. n-1 |-> b]
    IN  /\ "data" \in workload
        /\ Open(d)
        /\ d \notin stale
        /\ kind[a] = "ram"
        /\ n <= U32-1 - offset
        /\ \/ /\ GrowEnds(file[a], offset + n)
              /\ file' = [file EXCEPT ![a] = RamfsWrite(@, offset, bytes, n)]
              /\ content' = [content EXCEPT ![a] = Overwritten(@, offset, bytes, n)]
              /\ fds' = [fds EXCEPT ![d].offset = @ + n]
              /\ UNCHANGED hungAt
           \/ /\ ~GrowEnds(file[a], offset + n)
              /\ hungAt' = offset + n
              /\ UNCHANGED <<file, content, fds>>
        /\ UNCHANGED <<tree, blocks, call, stale, wild>>

\* vfs_lseek relative to one of its three bases; the i64 is cut to a u32.
Lseek(d, to) ==
    /\ "data" \in workload
    /\ Open(d)
    /\ d \notin stale
    /\ \E base \in {0, fds[d].offset, SizeOf(fds[d].node)} :
          /\ base + to >= 0
          /\ fds' = [fds EXCEPT ![d].offset = (base + to) % U32]
    /\ UNCHANGED <<tree, file, blocks, call, content, stale, hungAt, wild>>

\* sys_getdents64: the offset counts the children already returned, of
\* which k more fit in the buffer.
Getdents(d) ==
    /\ Open(d)
    /\ d \notin stale
    /\ kind[fds[d].node] = "dir"
    /\ \E k \in 1 .. VFS_MAX_CHILDREN :
          /\ fds[d].offset + k <= Len(kids[fds[d].node])
          /\ fds' = [fds EXCEPT ![d].offset = @ + k]
    /\ UNCHANGED <<tree, file, blocks, call, content, stale, hungAt, wild>>

Close(d) ==
    /\ Open(d)
    /\ fds' = [fds EXCEPT ![d] = NoFd]
    /\ stale' = stale \ {d}
    /\ UNCHANGED <<tree, file, blocks, call, content, hungAt, wild>>

PathCall ==
    \/ \E p \in Path \union {<< >>} : SysOpen(p)
    \/ \E p \in Path : SysMkdir(p) \/ SysUnlink(p)
    \/ \E p \in Path \union {<< >>}, q \in Path : SysRename(p, q)
    \/ Walk
    \/ MkdirTurn
    \/ MkdirDone
    \/ OpenDone
    \/ UnlinkDone
    \/ RenameFound
    \/ RenameDone

FdCall ==
    \/ \E n \in Name : CreateFile(n)
    \/ \E d \in FD :
          \/ UseFreed(d)
          \/ \E n \in Sizes : FdRead(d, n)
          \/ \E n \in Sizes, b \in Byte : FdWrite(d, n, b)
          \/ \E to \in SeekTo : Lseek(d, to)
          \/ Getdents(d)
          \/ Close(d)

Next == (PathCall \/ FdCall) /\ UNCHANGED workload

Spec == Init /\ [][Next]_vars
-----------------------------------------------------------------------------
TypeOK ==
    /\ kind \in [Addr -> Kind]
    /\ name \in [Addr -> Name \union {NoName}]
    /\ kids \in [Addr -> Seq(Addr)]
    /\ \A a \in Addr : Len(kids[a]) <= VFS_MAX_CHILDREN
    /\ parent \in [Addr -> Addr \union {Null}]
    /\ DOMAIN file = Addr /\ \A a \in Addr : IsFile(file[a])
    /\ fds \in [FD -> [in_use: BOOLEAN, node: Addr \union {Null}, offset: 0 .. U32-1]]
    /\ blocks \in Int
    /\ call \in [op: Op, cur: Addr \union {Null}, rest: Seq(Name),
                 node: Addr \union {Null}, to: Seq(Name), name: Name \union {NoName}]
    /\ DOMAIN content = Addr /\ \A a \in Addr : IsContent(content[a])
    /\ stale \in SUBSET FD
    /\ hungAt \in 0 .. U32-1
    /\ wild \in BOOLEAN
    /\ workload \in Workloads

\* The tree is sound after any sequence of mkdir, create, rename and unlink:
\* a directory lists only nodes that exist, none of them twice, and every
\* one of them names it as its parent; so no node is in two places, whatever
\* path leads to freed memory, and the root is nobody's child.
TreeSound ==
    /\ kind[Root] = "dir"
    /\ parent[Root] = Null
    /\ \A d \in Addr : \A i \in DOMAIN kids[d] :
          /\ kind[d] = "dir"
          /\ kind[kids[d][i]] # "free"
          /\ parent[kids[d][i]] = d
          /\ \A j \in DOMAIN kids[d] : kids[d][i] = kids[d][j] => i = j

\* A RAM file holds what was written to it, with zeros in the gaps, however
\* often its buffer has been replaced by a larger one.
DataKept == \A a \in Addr : kind[a] = "ram" => Holds(file[a], content[a])

\* A descriptor whose node has not been unlinked refers to a node that
\* exists: unlink frees the node its path names and no other one, and rename
\* moves nodes without freeing them.
FdSound == \A d \in FD : fds[d].in_use /\ d \notin stale =>
              fds[d].node # Null /\ kind[fds[d].node] # "free"

\* Every heap block the file system has obtained belongs to a node: a
\* creation that fails half-way gives back all it had.
BlocksOwned ==
    blocks = Cardinality({a \in Addr : kind[a] # "free"})
             + 2 * Cardinality({a \in Addr : kind[a] = "ram"})

\* The nodes at or below a in the tree ks: the least set of nodes that holds
\* a and the children of its members.
Children(ks, d) == {ks[d][i] : i \in DOMAIN ks[d]}
Closed(ks, S) == \A d \in S : Children(ks, d) \subseteq S
Descendants(ks, a) ==
    {x \in Addr : \A S \in SUBSET Addr : a \in S /\ Closed(ks, S) => x \in S}

Lost(ks, k) == {a \in Addr : k[a] # "free" /\ a \notin Descendants(ks, Root)}

\* No call takes a node that exists out of reach of every path, a rename
\* that the new directory refuses included.  Two do: unlinking a directory
\* that is not empty, and moving a directory to below itself.
NothingLost ==
    [][\/ Lost(kids', kind') \subseteq Lost(kids, kind)
       \/ \E a \in Addr : kids[a] # << >> /\ kind'[a] = "free"
       \/ call.op = "rename_to" /\ call.cur \in Descendants(kids, call.node)]_vars

=============================================================================
