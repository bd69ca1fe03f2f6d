-------------------------------- MODULE Vfs --------------------------------
(***************************************************************************)
(* The virtual file system of kernel/kernel/filesystem/vfs.c over the RAM  *)
(* file system: the mount table, the tree of nodes that caches the names   *)
(* created through it, and the open file descriptors.                      *)
(*                                                                         *)
(* An absolute path is the sequence of the parts after its leading slash,  *)
(* "/" being <<>>.  Every mount is of the one ramfs, whose table is        *)
(* static.  vfs_create is several steps, one for each turn of its loop,    *)
(* because what strtok returns on the next turn depends on the calls made  *)
(* in this one; every other call is one step.                              *)
(***************************************************************************)
EXTENDS Ramfs

CONSTANTS
  VFS_MAX_OPEN,   (* slots of vfs_files[]                                    *)
  VFS_MAX_FS,     (* slots of vfs_mounts[]                                   *)
  Node,           (* the nodes the heap has room for                         *)
  Garbage,        (* what the fs_fd of a directory's node, never set, can hold *)
  NullName,       (* what the bytes at address 0 read as                     *)
  InMount,        (* the paths mounted                                       *)
  InUnmount,      (* the paths unmounted                                     *)
  InRemove,       (* the paths removed                                       *)
  MaxOffset       (* bound: no call moves an offset past it                  *)

ASSUME VfsAssumption ==
  /\ VFS_MAX_OPEN \in Nat \ {0} /\ VFS_MAX_FS \in Nat \ {0}
  /\ NULL \notin Node /\ NULL \notin [type : {FILE, DIR}, size : Nat]
  /\ Garbage \subseteq Int /\ NullName \in Name
  /\ InMount \cup InUnmount \subseteq Seq(Name \ {Empty})
  /\ InRemove \subseteq Seq(Name)
  /\ MaxOffset \in Nat

VARIABLES
  vfs_mounts,  (* the mounts in use, in the order of the array             *)
  nodes,       (* the contents of every node                               *)
  live,        (* the nodes that are allocated                             *)
  vfs_files,   (* per descriptor its node and offset, NULL when not used   *)
  call         (* the locals of a vfs_create in progress, NULL when none   *)

vfs_vars == <<inodes, bufs, overrun, vfs_mounts, nodes, live, vfs_files, call>>

Fd    == 0 .. VFS_MAX_OPEN - 1
Mount == [mount_path : Seq(Name), node : Node]
VNode == [name : Name, type : {FILE, DIR}, fs_fd : Int, children : Seq(Node)]
File  == [node : Node, offset : Nat]

(* Slip: the fs_fd of a new node is not set.                               *)
NewNodeNoFd(name, type, fs_fd) ==
  [name |-> name, type |-> type, fs_fd |-> 0, children |-> <<>>]

NewNode(name, type, fs_fd) ==
  [name |-> name, type |-> type, fs_fd |-> fs_fd, children |-> <<>>]

(* vfs_init, and main memory before any node is made.                      *)
vfs_init ==
  /\ vfs_mounts = <<>>
  /\ nodes = [x \in Node |-> NewNode(Empty, DIR, 0)]
  /\ live = {}
  /\ vfs_files = [fd \in Fd |-> NULL]
  /\ call = NULL

-----------------------------------------------------------------------------
(* Looking paths up.                                                       *)

(* The parts strtok(.., "/") returns one after the other.                  *)
Tokens(p) ==
  LET kept[k \in 0 .. Len(p)] ==
        IF k = 0 THEN <<>>
        ELSE IF p[k] = Empty THEN kept[k - 1] ELSE Append(kept[k - 1], p[k])
  IN kept[Len(p)]

(* Slip: the loop ends one child early.                                    *)
MissLastChild(x, n) ==
  LET same == {k \in DOMAIN nodes[x].children :
                 k < Len(nodes[x].children) /\ nodes[nodes[x].children[k]].name = n}
  IN IF same = {} THEN NULL
     ELSE nodes[x].children[CHOOSE k \in same : \A j \in same : k <= j]

find_child(x, n) ==
  LET same == {k \in DOMAIN nodes[x].children : nodes[nodes[x].children[k]].name = n}
  IN IF same = {} THEN NULL
     ELSE nodes[x].children[CHOOSE k \in same : \A j \in same : k <= j]

MountsOf(p) == {m \in DOMAIN vfs_mounts : IsPrefix(vfs_mounts[m].mount_path, p)}

(* The mount with the longest prefix of p, the first one of that length.   *)
find_mount(p) ==
  CHOOSE m \in MountsOf(p) : \A o \in MountsOf(p) :
    LET len(i) == Len(vfs_mounts[i].mount_path)
    IN len(o) < len(m) \/ (len(o) = len(m) /\ m <= o)

(* rel_path.  The slash the code skips would be an Empty part in front,    *)
(* which no lookup minds.                                                  *)
RelPath(p) == SubSeq(p, Len(vfs_mounts[find_mount(p)].mount_path) + 1, Len(p))

(* Where a walk over find_child from node x along the tokens ts ends.      *)
Walk(x, ts) ==
  LET node[k \in 0 .. Len(ts)] ==
        IF k = 0 THEN x
        ELSE IF node[k - 1] = NULL THEN NULL ELSE find_child(node[k - 1], ts[k])
  IN node[Len(ts)]

vfs_resolve(p) ==
  IF MountsOf(p) = {} THEN NULL
  ELSE Walk(vfs_mounts[find_mount(p)].node, Tokens(RelPath(p)))

-----------------------------------------------------------------------------
(* Descriptors and nodes.                                                  *)

FreeFds == {fd \in Fd : vfs_files[fd] = NULL}

(* alloc_fd, and the assignment of the node that follows it.  r is -1 when *)
(* all slots are used.                                                     *)
OpenFd(x, r) ==
  \/ /\ FreeFds # {}
     /\ r = CHOOSE fd \in FreeFds : \A o \in FreeFds : fd <= o
     /\ vfs_files' = [vfs_files EXCEPT ![r] = [node |-> x, offset |-> 0]]
  \/ /\ FreeFds = {}
     /\ r = -1
     /\ UNCHANGED vfs_files

(* Slip: the list of children is started anew.                             *)
AddOnlyNode(x, parent, node) ==
  /\ x \in Node \ live
  /\ live' = live \cup {x}
  /\ nodes' = [nodes EXCEPT ![x] = node, ![parent].children = <<x>>]

(* malloc of a node x that becomes the last child of parent.               *)
AddNode(x, parent, node) ==
  /\ x \in Node \ live
  /\ live' = live \cup {x}
  /\ nodes' = [nodes EXCEPT ![x] = node, ![parent].children = Append(@, x)]

-----------------------------------------------------------------------------
(* vfs_create.                                                             *)

(* What strtok(NULL, "/") has left to return once ramfs_find_inode(p) has  *)
(* run: strtok keeps its position in one static pointer, which then points *)
(* after the token the lookup stopped at, in a copy of p the frames of the *)
(* calls that follow are too shallow to reach.                             *)
Leftover(p) ==
  LET found == {k \in 0 .. Len(p) : ramfs_find_inode(SubSeq(p, 1, k)) # NoInode}
  IN SubSeq(p, Cardinality(found) + 1, Len(p))

(* Up to the first strtok: the mount is looked up and the walk begins.     *)
CreateEnter(p) ==
  /\ call = NULL
  /\ MountsOf(p) # {}
  /\ LET ts == Tokens(RelPath(p)) IN
     call' = [mount |-> find_mount(p), rel |-> RelPath(p),
              token |-> IF ts = <<>> THEN NullName ELSE ts[1],
              rest |-> IF ts = <<>> THEN <<>> ELSE Tail(ts),
              current |-> vfs_mounts[find_mount(p)].node, current_path |-> <<>>]
  /\ UNCHANGED <<inodes, bufs, overrun, vfs_mounts, nodes, live, vfs_files>>

(* Slip: current_path is not extended.                                     *)
NextTokenOnly(child, rest) ==
  call' = [call EXCEPT !.token = Head(call.rest), !.rest = rest, !.current = child]

(* The end of a turn: child is the node of token, rest what strtok returns *)
(* after the token already read.                                           *)
NextToken(child, rest) ==
  call' = [call EXCEPT !.token = Head(call.rest), !.rest = rest, !.current = child,
                       !.current_path = Append(@, call.token)]

InLoop == call # NULL /\ call.rest # <<>>

(* Slip: a turn that finds its directory takes the next one as it began.   *)
DescendNowhere ==
  /\ InLoop
  /\ find_child(call.current, call.token) # NULL
  /\ UNCHANGED vfs_vars

CreateDescend ==
  /\ InLoop
  /\ find_child(call.current, call.token) # NULL
  /\ NextToken(find_child(call.current, call.token), Tail(call.rest))
  /\ UNCHANGED <<inodes, bufs, overrun, vfs_mounts, nodes, live, vfs_files>>

(* The turn that makes a directory.  The result r of mkdir is ignored, and *)
(* its lookup of current_path, which a path "" does without, has moved     *)
(* strtok's pointer.                                                       *)
CreateDir ==
  /\ InLoop
  /\ find_child(call.current, call.token) = NULL
  /\ \E r \in {0, -1} : ramfs_mkdir(Append(call.current_path, call.token), r)
  /\ \/ /\ \E x \in Node, g \in Garbage :
             /\ AddNode(x, call.current, NewNode(Trunc[call.token], DIR, g))
             /\ NextToken(x, IF call.current_path = <<>> THEN Tail(call.rest)
                                                         ELSE Leftover(call.current_path))
     \/ /\ call' = NULL
        /\ UNCHANGED <<nodes, live>>
  /\ UNCHANGED <<vfs_mounts, vfs_files>>

(* After the loop: token is taken for the name of the file.  r is the      *)
(* result.  A file that ramfs has made stays when malloc fails, and so     *)
(* does its node when no descriptor is left.                               *)
CreateFile(r) ==
  /\ call # NULL /\ call.rest = <<>>
  /\ call' = NULL
  /\ \/ /\ find_child(call.current, call.token) # NULL
        /\ r = -1
        /\ UNCHANGED <<inodes, bufs, overrun, nodes, live, vfs_files>>
     \/ /\ find_child(call.current, call.token) = NULL
        /\ \E fs_fd \in Inode \cup {-1} :
             /\ ramfs_create(call.rel, fs_fd)
             /\ \/ /\ fs_fd # -1
                   /\ \E x \in Node :
                        /\ AddNode(x, call.current, NewNode(Trunc[call.token], FILE, fs_fd))
                        /\ OpenFd(x, r)
                \/ /\ r = -1
                   /\ UNCHANGED <<nodes, live, vfs_files>>
  /\ UNCHANGED vfs_mounts

-----------------------------------------------------------------------------
(* The other calls.  None runs while a vfs_create does.                    *)

vfs_open(p, r) ==
  /\ call = NULL
  /\ \/ vfs_resolve(p) # NULL /\ OpenFd(vfs_resolve(p), r)
     \/ vfs_resolve(p) = NULL /\ r = -1 /\ UNCHANGED vfs_files
  /\ UNCHANGED <<inodes, bufs, overrun, vfs_mounts, nodes, live, call>>

IsOpen(fd)   == fd \in Fd /\ vfs_files[fd] # NULL
FsFd(fd)     == nodes[vfs_files[fd].node].fs_fd
OffsetOf(fd) == vfs_files[fd].offset

vfs_read(fd, size) ==
  /\ call = NULL
  /\ IsOpen(fd)
  /\ vfs_files' = [vfs_files EXCEPT
                    ![fd].offset = @ + Len(ramfs_read(FsFd(fd), @, size))]
  /\ UNCHANGED <<inodes, bufs, overrun, vfs_mounts, nodes, live, call>>

vfs_write(fd, data, n) ==
  /\ call = NULL
  /\ IsOpen(fd)
  /\ OffsetOf(fd) + Len(data) <= MaxOffset
  /\ \E off2 \in {OffsetOf(fd), Needed(OffsetOf(fd), data)} :
       /\ ramfs_write(FsFd(fd), data, OffsetOf(fd), off2, n)
       /\ vfs_files' = [vfs_files EXCEPT ![fd].offset = off2]
  /\ UNCHANGED <<vfs_mounts, nodes, live, call>>

vfs_lseek(fd, off) ==
  /\ call = NULL
  /\ IsOpen(fd)
  /\ vfs_files' = [vfs_files EXCEPT ![fd].offset = off]
  /\ UNCHANGED <<inodes, bufs, overrun, vfs_mounts, nodes, live, call>>

vfs_close(fd, res) ==
  /\ call = NULL
  /\ IsOpen(fd)
  /\ res = ramfs_close(FsFd(fd))
  /\ vfs_files' = [vfs_files EXCEPT ![fd] = NULL]
  /\ UNCHANGED <<inodes, bufs, overrun, vfs_mounts, nodes, live, call>>

(* The file goes from ramfs, its node stays in the tree.                   *)
vfs_unlink(p, r) ==
  /\ call = NULL
  /\ \/ vfs_resolve(p) # NULL /\ ramfs_unlink(RelPath(p), r)
     \/ vfs_resolve(p) = NULL /\ r = -1 /\ UNCHANGED ramfs_vars
  /\ UNCHANGED <<vfs_mounts, nodes, live, vfs_files, call>>

(* vfs_mkdir and vfs_rmdir leave the tree of nodes alone.                  *)
vfs_mkdir(p, r) ==
  /\ call = NULL
  /\ MountsOf(p) # {} /\ ramfs_mkdir(RelPath(p), r)
  /\ UNCHANGED <<vfs_mounts, nodes, live, vfs_files, call>>

vfs_rmdir(p, r) ==
  /\ call = NULL
  /\ MountsOf(p) # {} /\ ramfs_rmdir(RelPath(p), r)
  /\ UNCHANGED <<vfs_mounts, nodes, live, vfs_files, call>>

vfs_stat(p) == IF MountsOf(p) = {} THEN NULL ELSE ramfs_stat(RelPath(p))

(* Slip: a full mount table is not noticed.                                *)
MountAnyway(p) ==
  /\ call = NULL
  /\ \E x \in Node \ live :
       /\ live' = live \cup {x}
       /\ nodes' = [nodes EXCEPT ![x] = NewNode(Empty, DIR, 0)]
       /\ vfs_mounts' = Append(vfs_mounts, [mount_path |-> p, node |-> x])
  /\ UNCHANGED <<inodes, bufs, overrun, vfs_files, call>>

vfs_mount(p) ==
  /\ call = NULL
  /\ Len(vfs_mounts) < VFS_MAX_FS
  /\ \E x \in Node \ live, g \in Garbage :
       /\ live' = live \cup {x}
       /\ nodes' = [nodes EXCEPT ![x] = NewNode(Empty, DIR, g)]
       /\ vfs_mounts' = Append(vfs_mounts, [mount_path |-> p, node |-> x])
  /\ UNCHANGED <<inodes, bufs, overrun, vfs_files, call>>

(* Slip: the mounts after it are not shifted.                              *)
UnmountLast(p) ==
  /\ call = NULL
  /\ MountsOf(p) # {}
  /\ vfs_mounts[find_mount(p)].mount_path = p
  /\ live' = live \ {vfs_mounts[find_mount(p)].node}
  /\ vfs_mounts' = Front(vfs_mounts)
  /\ UNCHANGED <<inodes, bufs, overrun, nodes, vfs_files, call>>

(* Only the root node is freed.                                            *)
vfs_unmount(p) ==
  /\ call = NULL
  /\ MountsOf(p) # {}
  /\ LET m == find_mount(p) IN
     /\ vfs_mounts[m].mount_path = p
     /\ live' = live \ {vfs_mounts[m].node}
     /\ vfs_mounts' = RemoveAt(vfs_mounts, m)
  /\ UNCHANGED <<inodes, bufs, overrun, nodes, vfs_files, call>>

-----------------------------------------------------------------------------
(* Any caller, any order of calls, from the state vfs_init leaves.         *)

VfsInit == ramfs_init /\ vfs_init

VfsCreate == CreateDescend \/ CreateDir \/ \E r \in Fd \cup {-1} : CreateFile(r)
Names     == \E p \in InPath :
               \/ CreateEnter(p)
               \/ \E r \in Fd \cup {-1} : vfs_open(p, r)
               \/ \E r \in {0, -1} : vfs_mkdir(p, r)
Removals  == \E p \in InRemove, r \in {0, -1} : vfs_unlink(p, r) \/ vfs_rmdir(p, r)
Mounting  == \/ \E p \in InMount : vfs_mount(p)
             \/ \E p \in InUnmount : vfs_unmount(p)
Bytes     == \E fd \in Fd :
               \/ \E data \in InData : \E n \in {0, Len(data)} : vfs_write(fd, data, n)
               \/ \E data \in InData : vfs_read(fd, Len(data))
               \/ \E off \in InOffset : vfs_lseek(fd, off)
               \/ \E res \in {0, -1} : vfs_close(fd, res)

VfsNext == ~overrun /\ (VfsCreate \/ Names \/ Removals \/ Mounting \/ Bytes)

VfsSpec == VfsInit /\ [][VfsNext]_vfs_vars

(* The processor goes on with a call it has begun.                         *)
FairVfsSpec == VfsSpec /\ WF_vfs_vars(~overrun /\ VfsCreate)

-----------------------------------------------------------------------------
(* Properties.                                                             *)

(* Mounts, nodes, descriptors and the call in progress keep their shapes.  *)
VfsTypeOK ==
  /\ TypeOK
  /\ vfs_mounts \in Seq(Mount) /\ Len(vfs_mounts) <= VFS_MAX_FS
  /\ nodes \in [Node -> VNode]
  /\ live \in SUBSET Node
  /\ vfs_files \in [Fd -> File \cup {NULL}]
  /\ \/ call = NULL
     \/ call \in [mount : 1 .. VFS_MAX_FS, rel : Seq(Name), token : Name, rest : Seq(Name),
                  current : Node, current_path : Seq(Name)]

(* While vfs_create walks, the parts behind it, the token in hand and the  *)
(* parts strtok is still to return are the path it was called with: the    *)
(* last token is the file's name and none before it is.                    *)
WalkKeepsPath ==
  call # NULL /\ Tokens(call.rel) # <<>> =>
    Append(call.current_path, call.token) \o call.rest = Tokens(call.rel)

(* A descriptor that vfs_create returns is of the path it was given: both  *)
(* the tree of nodes and ramfs lead from that path to the file.            *)
CreateOpensPath ==
  [][\A fd \in Fd, p \in InPath :
       /\ call # NULL /\ MountsOf(p) # {}
       /\ call.mount = find_mount(p) /\ call.rel = RelPath(p)
       /\ ~IsOpen(fd) /\ IsOpen(fd)'
       =>
         /\ vfs_resolve(p)' = vfs_files'[fd].node
         /\ ramfs_find_inode(RelPath(p))' = FsFd(fd)'
         /\ IsFile(FsFd(fd))']_vfs_vars

(* The nodes allocated are the roots of the mounts and the children of     *)
(* allocated nodes, each once: none is lost, shared or freed in use.       *)
NodesOwned ==
  /\ live = {vfs_mounts[m].node : m \in DOMAIN vfs_mounts} \cup
            UNION {Range(nodes[x].children) : x \in live}
  /\ \A x, y \in live : \A j \in DOMAIN nodes[x].children, k \in DOMAIN nodes[y].children :
       nodes[x].children[j] = nodes[y].children[k] => x = y /\ j = k

(* Every mount has a root of its own, and it is allocated: vfs_unmount     *)
(* frees the root of the mount it takes out of the array and no other.     *)
MountsLive ==
  /\ \A m \in DOMAIN vfs_mounts : vfs_mounts[m].node \in live
  /\ \A m, o \in DOMAIN vfs_mounts : vfs_mounts[m].node = vfs_mounts[o].node => m = o

(* Two children of a node have different names, so find_child never hides  *)
(* one behind another.                                                     *)
SiblingNames ==
  \A x \in live : \A j, k \in DOMAIN nodes[x].children :
    nodes[nodes[x].children[j]].name = nodes[nodes[x].children[k]].name => j = k

(* What the tree of nodes takes for a file, ramfs has at the same path     *)
(* under the inode the node holds, and vfs_stat says so.                   *)
FilesBacked ==
  \A p \in InPath :
    LET x == vfs_resolve(p)
    IN x # NULL /\ nodes[x].type = FILE =>
         /\ nodes[x].fs_fd = ramfs_find_inode(RelPath(p))
         /\ vfs_stat(p) # NULL /\ vfs_stat(p).type = FILE

(* A vfs_create that has begun returns.                                    *)
CreateReturns == call # NULL ~> (call = NULL \/ overrun)
=============================================================================
