------------------------------- MODULE FsTree -------------------------------
(***************************************************************************)
(* What a file system promises its callers: a tree of named directories    *)
(* and files with their bytes.  tree maps the path of everything that      *)
(* exists to what it is; each operation is a relation between the tree t   *)
(* before it and the tree u after it.  A call that fails is a stutter.     *)
(***************************************************************************)
EXTENDS Integers, Sequences, SequencesExt

CONSTANTS Names, Offsets, Datas, Zero

VARIABLE tree

Node(type) == [type |-> type, bytes |-> <<>>]

Init == tree = [p \in {<<>>} |-> Node("dir")]

(* A file or a directory appears, empty, in a directory that exists.       *)
Create(t, u) ==
  \E p \in DOMAIN t, n \in Names, type \in {"file", "dir"} :
    /\ t[p].type = "dir" /\ Append(p, n) \notin DOMAIN t
    /\ u = [q \in DOMAIN t \cup {Append(p, n)} |->
              IF q \in DOMAIN t THEN t[q] ELSE Node(type)]

Below(t, p) == {q \in DOMAIN t : IsPrefix(p, q)}

Without(t, p) == [q \in DOMAIN t \ Below(t, p) |-> t[q]]

(* p and everything below it disappears.                                   *)
Unlink(t, u) == \E p \in DOMAIN t \ {<<>>} : u = Without(t, p)

(* An empty directory disappears.                                          *)
Rmdir(t, u) ==
  \E p \in DOMAIN t \ {<<>>} :
    t[p].type = "dir" /\ Below(t, p) = {p} /\ u = Without(t, p)

(* data lands at off; the file is extended to hold it, zeroes between.     *)
Write(t, u) ==
  \E p \in DOMAIN t, off \in Offsets, data \in Datas :
    LET old  == t[p].bytes
        size == IF off + Len(data) > Len(old) THEN off + Len(data) ELSE Len(old)
        new  == [k \in 1 .. size |-> IF k - off \in DOMAIN data THEN data[k - off]
                                     ELSE IF k \in DOMAIN old THEN old[k] ELSE Zero]
    IN t[p].type = "file" /\ u = [t EXCEPT ![p].bytes = new]

Next == \E t \in {tree}, u \in {tree'} :
          Create(t, u) \/ Unlink(t, u) \/ Rmdir(t, u) \/ Write(t, u)

Spec == Init /\ [][Next]_tree
=============================================================================
