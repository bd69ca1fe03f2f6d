------------------------------ MODULE MCRamfs ------------------------------
(* Small instances of Ramfs for TLC.                                       *)
EXTENDS RamfsTree, TLC

CONSTANTS a, b, long, longer, e, B1, B2

MCName == {a, b, long, longer, e}

MCTreeName == {a, b, e}

(* Up to three levels, and a trailing slash.                               *)
MCTreePaths == {<<a>>, <<b>>, <<a, b>>, <<a, b, a>>, <<a, e>>}

(* More names in one directory than there are inodes, two of which agree   *)
(* in the RAMFS_NAME_MAX - 1 characters kept; doubled slashes.             *)
MCWidePaths == {<<a>>, <<e>>, <<long>>, <<longer>>, <<a, e>>, <<a, longer>>,
                <<e, b>>, <<a, long, b>>}

MCTrunc == [n \in Name |-> IF n = longer THEN long ELSE n]

MCByte == {<<1>>}

MCSymmetry == Permutations(Buffers)
=============================================================================
