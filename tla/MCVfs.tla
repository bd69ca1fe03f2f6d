------------------------------- MODULE MCVfs -------------------------------
(* Small instances of Vfs for TLC.                                         *)
EXTENDS Vfs

CONSTANTS a, b, c, f, e, zero, B1, B2

MCName == {a, b, c, f, e, zero}

MCTrunc == [n \in Name |-> n]

NoPath == {}

MCRoot == {<<>>}

(* Up to three parts: a name that is a file here and a directory there,    *)
(* and two files in one directory.                                         *)
MCPaths == {<<a>>, <<a, b>>, <<a, f>>, <<a, b, f>>}

MCTwoPaths == {<<a>>, <<a, b>>, <<b>>}

(* Four parts: the loop of vfs_create makes a directory in a directory and *)
(* has tokens left.                                                        *)
MCDeepPaths == {<<a>>, <<a, b>>, <<a, b, c>>, <<a, b, c, f>>}

MCMounts == {<<>>, <<a>>}

(* Paths below both mounts, one of them the second mount itself, which has *)
(* no token left; below the first mount, files at three depths.            *)
MCMountPaths == {<<a>>, <<a, f>>, <<a, b, f>>}

MCData == {<<>>, <<1>>}

MCSymmetry == Permutations(Node) \cup Permutations(Buffers)
=============================================================================
