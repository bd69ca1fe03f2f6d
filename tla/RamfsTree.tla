----------------------------- MODULE RamfsTree -----------------------------
(***************************************************************************)
(* The inode table implements the tree of FsTree: the refinement maps a    *)
(* path to the inode ramfs_find_inode leads to.                            *)
(***************************************************************************)
EXTENDS Ramfs

(* With every inode on one path, a path has RAMFS_MAX_FILES - 1 parts.     *)
TreePaths ==
  {p \in SeqOf(Name \ {Empty}, RAMFS_MAX_FILES - 1) : ramfs_find_inode(p) # NoInode}

FoundTree ==
  [p \in TreePaths |-> LET i == inodes[ramfs_find_inode(p)]
                       IN [type |-> i.type, bytes |-> i.bytes]]

Tree == INSTANCE FsTree
  WITH Names <- Name \ {Empty}, Offsets <- InOffset, Datas <- InData, tree <- FoundTree

(* Every call of ramfs.c changes the tree as one operation on one path of a*)
(* file system would, or not at all: which operation and which path is left*)
(* open.  (First-fit reuse of inodes, removal by shifting, names looked up *)
(* twice by ramfs_rmdir, buffers that move when they grow.)                *)
ImplementsTree == Tree!Spec
=============================================================================
