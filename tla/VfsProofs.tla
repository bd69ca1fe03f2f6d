----------------------------- MODULE VfsProofs -----------------------------
(***************************************************************************)
(* Proofs about Vfs, for any mounts, paths, nodes, descriptors and calls,  *)
(* over the invariant of the inode table that RamfsProofs proves: what is  *)
(* allocated, what a vfs_create has walked and what it opens, and what the *)
(* tree of nodes says of the files of ramfs.                               *)
(***************************************************************************)
EXTENDS Vfs, RamfsProofs

MountsShape == vfs_mounts \in Seq(Mount) /\ Len(vfs_mounts) <= VFS_MAX_FS

TreeShape == nodes \in [Node -> VNode] /\ live \in SUBSET Node

FilesShape == vfs_files \in [Fd -> File \cup {NULL}]

CallShape ==
  \/ call = NULL
  \/ call \in [mount : 1 .. VFS_MAX_FS, rel : Seq(Name), token : Name, rest : Seq(Name),
               current : Node, current_path : Seq(Name)]

Shapes == MountsShape /\ TreeShape /\ FilesShape /\ CallShape

-----------------------------------------------------------------------------
(* Tokens and Walk are recursive functions.  As with the lookup of ramfs,  *)
(* the inductions go by the least counterexample.                          *)

KeptAt(f, p, k) ==
  IF k = 0 THEN <<>> ELSE IF p[k] = Empty THEN f[k - 1] ELSE Append(f[k - 1], p[k])

IsKept(f, p, n) == f = [k \in 0 .. n |-> KeptAt(f, p, k)]

(* The definition of Tokens defines a function.                            *)
LEMMA KeptExists ==
  ASSUME NEW p
  PROVE  \A n \in Nat : \E f : IsKept(f, p, n)
<1> DEFINE Bad == {n \in Nat : ~\E f : IsKept(f, p, n)}
<1>1. SUFFICES ASSUME Bad # {} PROVE FALSE
  OBVIOUS
<1>2. PICK n \in Bad : \A j \in Bad : n <= j
  BY <1>1, LeastNatural
<1>3. CASE n = 0
  <2>1. IsKept([k \in 0 .. 0 |-> <<>>], p, 0)
    BY DEF IsKept, KeptAt
  <2> QED BY <1>2, <1>3, <2>1
<1>4. CASE n # 0
  <2>1. n - 1 \in Nat /\ n - 1 \notin Bad
    BY <1>2, <1>4
  <2>2. PICK f : IsKept(f, p, n - 1)
    BY <2>1
  <2> DEFINE g == [k \in 0 .. n |-> IF k = n THEN KeptAt(f, p, n) ELSE f[k]]
  <2>3. \A k \in 0 .. n : g[k] = KeptAt(g, p, k)
    <3>1. \A k \in 0 .. n - 1 : f[k] = KeptAt(f, p, k)
      BY <2>2 DEF IsKept
    <3> QED BY <3>1, <2>1, <1>4 DEF KeptAt
  <2>4. IsKept(g, p, n)
    <3> HIDE DEF g
    <3>1. g = [k \in 0 .. n |-> g[k]]
      BY DEF g
    <3> QED BY <2>3, <3>1 DEF IsKept
  <2> QED BY <1>2, <2>4
<1> QED BY <1>3, <1>4

(* The value of Tokens is where the walk along the path ends.              *)
LEMMA KeptOfPath ==
  ASSUME NEW p \in Seq(Name)
  PROVE  \E f : IsKept(f, p, Len(p)) /\ Tokens(p) = f[Len(p)]
<1>1. \E f : IsKept(f, p, Len(p))
  BY LenProperties, KeptExists
<1>2. Tokens(p) = (CHOOSE f : f = [k \in 0 .. Len(p) |->
                     IF k = 0 THEN <<>>
                     ELSE IF p[k] = Empty THEN f[k - 1] ELSE Append(f[k - 1], p[k])])[Len(p)]
  BY DEF Tokens
<1> QED BY <1>1, <1>2 DEF IsKept, KeptAt

(* What strtok returns of a path with one part more.                       *)
LEMMA TokensAppend ==
  /\ Tokens(<<>>) = <<>>
  /\ \A p \in Seq(Name), n \in Name :
       Tokens(Append(p, n)) = IF n = Empty THEN Tokens(p) ELSE Append(Tokens(p), n)
<1>1. Tokens(<<>>) = <<>>
  <2>1. <<>> \in Seq(Name) /\ Len(<<>>) = 0
    BY EmptySeq
  <2>2. PICK f : IsKept(f, <<>>, Len(<<>>)) /\ Tokens(<<>>) = f[Len(<<>>)]
    BY <2>1, KeptOfPath
  <2> QED BY <2>1, <2>2 DEF IsKept, KeptAt
<1>2. ASSUME NEW p \in Seq(Name), NEW n \in Name
      PROVE  Tokens(Append(p, n)) = IF n = Empty THEN Tokens(p) ELSE Append(Tokens(p), n)
  <2> DEFINE q == Append(p, n)
  <2>1. /\ Len(p) \in Nat /\ q \in Seq(Name) /\ Len(q) = Len(p) + 1
        /\ \A k \in 1 .. Len(p) : q[k] = p[k]
        /\ q[Len(p) + 1] = n
    BY LenProperties, AppendProperties
  <2> HIDE DEF q
  <2>2. PICK f : IsKept(f, p, Len(p)) /\ Tokens(p) = f[Len(p)]
    BY KeptOfPath
  <2>3. PICK g : IsKept(g, q, Len(p) + 1) /\ Tokens(q) = g[Len(p) + 1]
    BY <2>1, KeptOfPath
  <2>4. /\ \A k \in 0 .. Len(p) : f[k] = KeptAt(f, p, k)
        /\ \A k \in 0 .. Len(p) + 1 : g[k] = KeptAt(g, q, k)
    BY <2>2, <2>3 DEF IsKept
  <2>5. f[Len(p)] = g[Len(p)]
    <3> DEFINE Bad == {k \in 0 .. Len(p) : f[k] # g[k]}
    <3>1. SUFFICES ASSUME Bad # {} PROVE FALSE
      BY <2>1
    <3>2. PICK k \in Bad : \A j \in Bad : k <= j
      <4>1. Bad \in SUBSET Nat
        BY <2>1
      <4> HIDE DEF Bad
      <4> QED BY <3>1, <4>1, LeastNatural
    <3>3. k \in 0 .. Len(p) /\ f[k] = KeptAt(f, p, k) /\ g[k] = KeptAt(g, q, k)
      <4>1. k \in 0 .. Len(p) /\ k \in 0 .. Len(p) + 1
        BY <2>1, <3>2
      <4> QED BY <2>4, <4>1
    <3>4. k # 0
      BY <3>2, <3>3 DEF KeptAt
    <3>5. f[k - 1] = g[k - 1] /\ p[k] = q[k]
      BY <2>1, <3>2, <3>4
    <3> QED BY <3>2, <3>3, <3>4, <3>5 DEF KeptAt
  <2>6. g[Len(p) + 1] = KeptAt(g, q, Len(p) + 1)
    BY <2>1, <2>4
  <2>7. g[Len(p) + 1] = IF n = Empty THEN g[Len(p)] ELSE Append(g[Len(p)], n)
    BY <2>1, <2>6 DEF KeptAt
  <2> QED BY <2>2, <2>3, <2>5, <2>7 DEF q
<1> QED BY <1>1, <1>2

(* What strtok returns are the parts of the path that are not empty: they  *)
(* are at most as many, and all of them if none is empty.                  *)
LEMMA TokensAre ==
  /\ \A p \in Seq(Name) : Tokens(p) \in Seq(Part) /\ Len(Tokens(p)) <= Len(p)
  /\ \A p \in Seq(Part) : Tokens(p) = p
<1> DEFINE S == {p \in Seq(Name) : Tokens(p) \in Seq(Part) /\ Len(Tokens(p)) <= Len(p)}
           T == {p \in Seq(Part) : Tokens(p) = p}
<1>1. <<>> \in S /\ <<>> \in T
  <2>1. <<>> \in Seq(Name) /\ <<>> \in Seq(Part) /\ Len(<<>>) = 0 /\ Tokens(<<>>) = <<>>
    BY EmptySeq, TokensAppend
  <2>2. Tokens(<<>>) \in Seq(Part) /\ Len(Tokens(<<>>)) <= Len(<<>>)
    <3>1. \A k : k = 0 => k <= k
      OBVIOUS
    <3> QED BY <2>1, <3>1
  <2>3. <<>> \in S
    BY <2>1, <2>2
  <2>4. <<>> \in T
    BY <2>1
  <2> QED BY <2>3, <2>4
<1>2. ASSUME NEW p \in Seq(Name), NEW n \in Name, p \in S
      PROVE  Append(p, n) \in S
  <2>1. /\ Append(p, n) \in Seq(Name) /\ Len(p) \in Nat /\ Len(Append(p, n)) = Len(p) + 1
        /\ Tokens(p) \in Seq(Part) /\ Len(Tokens(p)) \in Nat /\ Len(Tokens(p)) <= Len(p)
    BY <1>2, LenProperties, AppendProperties
  <2>2. CASE n = Empty
    <3>1. Tokens(Append(p, n)) = Tokens(p)
      BY <2>2, TokensAppend
    <3> QED BY <2>1, <3>1
  <2>3. CASE n \in Part
    <3>1. Tokens(Append(p, n)) = Append(Tokens(p), n)
      BY <2>3, TokensAppend DEF Part
    <3>2. /\ Append(Tokens(p), n) \in Seq(Part)
          /\ Len(Append(Tokens(p), n)) = Len(Tokens(p)) + 1
      BY <2>1, <2>3, AppendProperties
    <3> QED BY <2>1, <3>1, <3>2
  <2> QED BY <2>2, <2>3 DEF Part
<1>3. ASSUME NEW p \in Seq(Part), NEW n \in Part, p \in T
      PROVE  Append(p, n) \in T
  <2>1. Append(p, n) \in Seq(Part) /\ p \in Seq(Name) /\ n \in Name /\ n # Empty
    BY AppendProperties, PartPaths DEF Part
  <2> QED BY <1>3, <2>1, TokensAppend
<1>4. Seq(Name) \subseteq S /\ Seq(Part) \subseteq T
  <2> HIDE DEF S, T
  <2> QED BY <1>1, <1>2, <1>3, PathInduction
<1> QED BY <1>4

(* The tokens of a path are names.                                         *)
LEMMA TokensType ==
  ASSUME NEW p \in Seq(Name)
  PROVE  Tokens(p) \in Seq(Name)
BY TokensAre, PartPaths

(* A lookup of ramfs ends where it would along the tokens alone.           *)
LEMMA EndsTokens ==
  ASSUME NEW t
  PROVE  \A p \in Seq(Name) : Ends(t, Tokens(p)) = Ends(t, p)
<1> DEFINE S == {p \in Seq(Name) : Ends(t, Tokens(p)) = Ends(t, p)}
<1>1. <<>> \in S
  BY EmptySeq, TokensAppend
<1>2. ASSUME NEW p \in Seq(Name), NEW n \in Name, p \in S
      PROVE  Append(p, n) \in S
  <2>1. Append(p, n) \in Seq(Name) /\ Ends(t, Append(p, n)) = StepIn(t, Ends(t, p), n)
    BY AppendProperties, EndsAppend
  <2>2. CASE n = Empty
    BY <1>2, <2>1, <2>2, TokensAppend DEF StepIn
  <2>3. CASE n # Empty
    <3>1. Tokens(Append(p, n)) = Append(Tokens(p), n) /\ Tokens(p) \in Seq(Name)
      BY <2>3, TokensAppend, TokensType
    <3> QED BY <1>2, <2>1, <3>1, EndsAppend
  <2> QED BY <2>2, <2>3
<1>3. Seq(Name) \subseteq S
  <2> HIDE DEF S
  <2> QED BY <1>1, <1>2, PathInduction
<1> QED BY <1>3

-----------------------------------------------------------------------------
(* find_child and Walk in a tree of nodes N.                               *)

FirstOf(children, same) ==
  IF same = {} THEN NULL ELSE children[CHOOSE k \in same : \A j \in same : k <= j]

ChildIn(N, x, n) ==
  FirstOf(N[x].children, {k \in DOMAIN N[x].children : N[N[x].children[k]].name = n})

WalkIn(N, x, ts) ==
  LET node[k \in 0 .. Len(ts)] ==
        IF k = 0 THEN x
        ELSE IF node[k - 1] = NULL THEN NULL ELSE ChildIn(N, node[k - 1], ts[k])
  IN node[Len(ts)]

(* So that what is shown of any tree holds before and after a step.        *)
LEMMA WalkIs ==
  ASSUME NEW x
  PROVE  /\ \A n : find_child(x, n) = ChildIn(nodes, x, n) /\ find_child(x, n)' = ChildIn(nodes', x, n)
         /\ \A ts : Walk(x, ts) = WalkIn(nodes, x, ts) /\ Walk(x, ts)' = WalkIn(nodes', x, ts)
<1>1. \A y, n : /\ find_child(y, n) = ChildIn(nodes, y, n)
                /\ find_child(y, n)' = ChildIn(nodes', y, n)
  BY DEF find_child, ChildIn, FirstOf
<1>2. \A ts : Walk(x, ts) = WalkIn(nodes, x, ts) /\ Walk(x, ts)' = WalkIn(nodes', x, ts)
  BY <1>1 DEF Walk, WalkIn
<1> QED BY <1>1, <1>2

NodeAt(N, f, x, ts, k) ==
  IF k = 0 THEN x ELSE IF f[k - 1] = NULL THEN NULL ELSE ChildIn(N, f[k - 1], ts[k])

IsPathOf(N, f, x, ts, n) == f = [k \in 0 .. n |-> NodeAt(N, f, x, ts, k)]

(* The definition of Walk defines a function.                              *)
LEMMA PathExists ==
  ASSUME NEW N, NEW x, NEW ts
  PROVE  \A n \in Nat : \E f : IsPathOf(N, f, x, ts, n)
<1> DEFINE Bad == {n \in Nat : ~\E f : IsPathOf(N, f, x, ts, n)}
<1>1. SUFFICES ASSUME Bad # {} PROVE FALSE
  OBVIOUS
<1>2. PICK n \in Bad : \A j \in Bad : n <= j
  BY <1>1, LeastNatural
<1>3. CASE n = 0
  <2>1. IsPathOf(N, [k \in 0 .. 0 |-> x], x, ts, 0)
    BY DEF IsPathOf, NodeAt
  <2> QED BY <1>2, <1>3, <2>1
<1>4. CASE n # 0
  <2>1. n - 1 \in Nat /\ n - 1 \notin Bad
    BY <1>2, <1>4
  <2>2. PICK f : IsPathOf(N, f, x, ts, n - 1)
    BY <2>1
  <2> DEFINE g == [k \in 0 .. n |-> IF k = n THEN NodeAt(N, f, x, ts, n) ELSE f[k]]
  <2>3. \A k \in 0 .. n : g[k] = NodeAt(N, g, x, ts, k)
    <3>1. \A k \in 0 .. n - 1 : f[k] = NodeAt(N, f, x, ts, k)
      BY <2>2 DEF IsPathOf
    <3> QED BY <3>1, <2>1, <1>4 DEF NodeAt
  <2>4. IsPathOf(N, g, x, ts, n)
    <3> HIDE DEF g
    <3>1. g = [k \in 0 .. n |-> g[k]]
      BY DEF g
    <3> QED BY <2>3, <3>1 DEF IsPathOf
  <2> QED BY <1>2, <2>4
<1> QED BY <1>3, <1>4

(* The value of Walk is where the walk along the tokens ends.              *)
LEMMA WalkOfTokens ==
  ASSUME NEW N, NEW x, NEW ts \in Seq(Name)
  PROVE  \E f : IsPathOf(N, f, x, ts, Len(ts)) /\ WalkIn(N, x, ts) = f[Len(ts)]
<1>1. \E f : IsPathOf(N, f, x, ts, Len(ts))
  BY LenProperties, PathExists
<1>2. WalkIn(N, x, ts) = (CHOOSE f : f = [k \in 0 .. Len(ts) |->
        IF k = 0 THEN x
        ELSE IF f[k - 1] = NULL THEN NULL ELSE ChildIn(N, f[k - 1], ts[k])])[Len(ts)]
  BY DEF WalkIn
<1> QED BY <1>1, <1>2 DEF IsPathOf, NodeAt

(* No token leads nowhere, and one more to a child.                        *)
LEMMA WalkEmpty ==
  ASSUME NEW N, NEW x
  PROVE  WalkIn(N, x, <<>>) = x
<1>1. <<>> \in Seq(Name) /\ Len(<<>>) = 0
  BY EmptySeq
<1>2. PICK f : IsPathOf(N, f, x, <<>>, Len(<<>>)) /\ WalkIn(N, x, <<>>) = f[Len(<<>>)]
  BY <1>1, WalkOfTokens
<1> QED BY <1>1, <1>2 DEF IsPathOf, NodeAt

(* One more part takes the walk on by one turn of find_child.              *)
LEMMA WalkAppend ==
  ASSUME NEW N, NEW x, NEW ts \in Seq(Name), NEW n \in Name
  PROVE  WalkIn(N, x, Append(ts, n)) =
           IF WalkIn(N, x, ts) = NULL THEN NULL ELSE ChildIn(N, WalkIn(N, x, ts), n)
<1> DEFINE q == Append(ts, n)
<1>1. /\ Len(ts) \in Nat /\ q \in Seq(Name) /\ Len(q) = Len(ts) + 1
      /\ \A k \in 1 .. Len(ts) : q[k] = ts[k]
      /\ q[Len(ts) + 1] = n
  BY LenProperties, AppendProperties
<1> HIDE DEF q
<1>2. PICK f : IsPathOf(N, f, x, ts, Len(ts)) /\ WalkIn(N, x, ts) = f[Len(ts)]
  BY WalkOfTokens
<1>3. PICK g : IsPathOf(N, g, x, q, Len(ts) + 1) /\ WalkIn(N, x, q) = g[Len(ts) + 1]
  BY <1>1, WalkOfTokens
<1>4. /\ \A k \in 0 .. Len(ts) : f[k] = NodeAt(N, f, x, ts, k)
      /\ \A k \in 0 .. Len(ts) + 1 : g[k] = NodeAt(N, g, x, q, k)
  BY <1>2, <1>3 DEF IsPathOf
<1>5. f[Len(ts)] = g[Len(ts)]
  <2> DEFINE Bad == {k \in 0 .. Len(ts) : f[k] # g[k]}
  <2>1. SUFFICES ASSUME Bad # {} PROVE FALSE
    BY <1>1
  <2>2. PICK k \in Bad : \A j \in Bad : k <= j
    <3>1. Bad \in SUBSET Nat
      BY <1>1
    <3> HIDE DEF Bad
    <3> QED BY <2>1, <3>1, LeastNatural
  <2>3. k \in 0 .. Len(ts) /\ f[k] = NodeAt(N, f, x, ts, k) /\ g[k] = NodeAt(N, g, x, q, k)
    <3>1. k \in 0 .. Len(ts) /\ k \in 0 .. Len(ts) + 1
      BY <1>1, <2>2
    <3> QED BY <1>4, <3>1
  <2>4. k # 0
    BY <2>2, <2>3 DEF NodeAt
  <2>5. f[k - 1] = g[k - 1] /\ ts[k] = q[k]
    BY <1>1, <2>2, <2>4
  <2> QED BY <2>2, <2>3, <2>4, <2>5 DEF NodeAt
<1>6. g[Len(ts) + 1] = NodeAt(N, g, x, q, Len(ts) + 1)
  BY <1>1, <1>4
<1>7. g[Len(ts) + 1] = IF g[Len(ts)] = NULL THEN NULL ELSE ChildIn(N, g[Len(ts)], n)
  BY <1>1, <1>6 DEF NodeAt
<1> QED BY <1>2, <1>3, <1>5, <1>7 DEF q

(* find_child gives a child of that name, or none.                         *)
LEMMA ChildInFound ==
  ASSUME NEW N, NEW x, N[x].children \in Seq(Node), NEW n, ChildIn(N, x, n) # NULL
  PROVE  \E k \in DOMAIN N[x].children :
           /\ ChildIn(N, x, n) = N[x].children[k]
           /\ N[N[x].children[k]].name = n
           /\ N[x].children[k] \in Node
<1> DEFINE same == {k \in DOMAIN N[x].children : N[N[x].children[k]].name = n}
<1>1. same \in SUBSET Nat /\ same # {}
  <2>1. same # {}
    BY DEF ChildIn, FirstOf
  <2>2. DOMAIN N[x].children \in SUBSET Nat
    BY LenProperties
  <2> QED BY <2>1, <2>2
<1>2. PICK k \in same : ChildIn(N, x, n) = N[x].children[k]
  <2>1. \E k \in same : \A j \in same : k <= j
    <3> HIDE DEF same
    <3> QED BY <1>1, LeastNatural
  <2>2. ChildIn(N, x, n) = N[x].children[CHOOSE k \in same : \A j \in same : k <= j]
    BY <1>1 DEF ChildIn, FirstOf
  <2> HIDE DEF same
  <2> QED BY <2>1, <2>2
<1>3. N[x].children[k] \in Node
  BY <1>2, LenProperties, ElementOfSeq
<1> QED BY <1>2, <1>3

(* The same of the tree as it is.                                          *)
LEMMA ChildFound ==
  ASSUME TreeShape, NEW x \in Node, NEW n, find_child(x, n) # NULL
  PROVE  \E k \in DOMAIN nodes[x].children :
           /\ find_child(x, n) = nodes[x].children[k]
           /\ nodes[nodes[x].children[k]].name = n
           /\ nodes[x].children[k] \in Node
<1>1. nodes[x].children \in Seq(Node)
  BY DEF TreeShape, VNode
<1>2. find_child(x, n) = ChildIn(nodes, x, n)
  BY WalkIs
<1> QED BY <1>1, <1>2, ChildInFound

(* A walk ends nowhere or at a node.                                       *)
LEMMA WalkType ==
  ASSUME TreeShape, NEW x \in Node, NEW ts \in Seq(Name), Walk(x, ts) # NULL
  PROVE  Walk(x, ts) \in Node
<1> DEFINE S == {q \in Seq(Name) : WalkIn(nodes, x, q) \in Node \cup {NULL}}
<1>1. <<>> \in S
  BY EmptySeq, WalkEmpty
<1>2. ASSUME NEW q \in Seq(Name), NEW n \in Name, q \in S
      PROVE  Append(q, n) \in S
  <2> DEFINE y == WalkIn(nodes, x, q)
  <2>1. /\ Append(q, n) \in Seq(Name) /\ y \in Node \cup {NULL}
        /\ WalkIn(nodes, x, Append(q, n)) = IF y = NULL THEN NULL ELSE ChildIn(nodes, y, n)
    BY <1>2, AppendProperties, WalkAppend
  <2>2. ASSUME y \in Node, ChildIn(nodes, y, n) # NULL
        PROVE  ChildIn(nodes, y, n) \in Node
    <3>1. nodes[y].children \in Seq(Node)
      BY <2>2 DEF TreeShape, VNode
    <3> QED BY <2>2, <3>1, ChildInFound
  <2> QED BY <2>1, <2>2
<1>3. Seq(Name) \subseteq S
  <2> HIDE DEF S
  <2> QED BY <1>1, <1>2, PathInduction
<1> QED BY <1>3, WalkIs

-----------------------------------------------------------------------------
(* Mounts.                                                                 *)

(* Where a path has mounts, find_mount gives one of them.                  *)
LEMMA MountFound ==
  ASSUME MountsShape, NEW p \in Seq(Name), MountsOf(p) # {}
  PROVE  find_mount(p) \in MountsOf(p)
<1> DEFINE len(i) == Len(vfs_mounts[i].mount_path)
           gaps   == {Len(p) - len(m) : m \in MountsOf(p)}
<1>1. /\ Len(p) \in Nat
      /\ MountsOf(p) \in SUBSET Nat
      /\ \A m \in MountsOf(p) : len(m) \in Nat /\ Len(p) - len(m) \in Nat
  <2>1. DOMAIN vfs_mounts = 1 .. Len(vfs_mounts) /\ Len(vfs_mounts) \in Nat /\ Len(p) \in Nat
    BY LenProperties DEF MountsShape
  <2>2. ASSUME NEW m \in MountsOf(p)
        PROVE  len(m) \in Nat /\ len(m) <= Len(p)
    <3>1. m \in 1 .. Len(vfs_mounts) /\ len(m) <= Len(p)
      BY <2>1 DEF MountsOf, IsPrefix
    <3>2. vfs_mounts[m] \in Mount
      BY <3>1, ElementOfSeq DEF MountsShape
    <3>3. vfs_mounts[m].mount_path \in Seq(Name)
      BY <3>2 DEF Mount
    <3> QED BY <3>1, <3>3, LenProperties
  <2>3. MountsOf(p) \in SUBSET Nat
    BY <2>1 DEF MountsOf
  <2> HIDE DEF len
  <2> QED BY <2>1, <2>2, <2>3
<1>2. PICK m \in MountsOf(p) : \A o \in MountsOf(p) : len(o) <= len(m)
  <2>1. gaps \in SUBSET Nat /\ gaps # {}
    BY <1>1
  <2>2. PICK g \in gaps : \A h \in gaps : g <= h
    <3> HIDE DEF gaps
    <3> QED BY <2>1, LeastNatural
  <2>3. PICK m \in MountsOf(p) : g = Len(p) - len(m)
    OBVIOUS
  <2>4. ASSUME NEW o \in MountsOf(p)
        PROVE  len(o) <= len(m)
    <3>1. Len(p) - len(m) <= Len(p) - len(o)
      BY <2>2, <2>3
    <3> HIDE DEF len
    <3>2. Len(p) \in Nat /\ len(m) \in Nat /\ len(o) \in Nat
      BY <1>1
    <3>3. \A a, b, c \in Nat : a - b <= a - c => c <= b
      OBVIOUS
    <3> QED BY <3>1, <3>2, <3>3
  <2> QED BY <2>4
<1> DEFINE longest == {o \in MountsOf(p) : len(o) = len(m)}
<1>3. PICK k \in longest : \A o \in longest : k <= o
  <2>1. longest \in SUBSET Nat /\ longest # {}
    BY <1>1
  <2> HIDE DEF longest
  <2> QED BY <2>1, LeastNatural
<1>4. \A o \in MountsOf(p) : len(o) < len(k) \/ (len(o) = len(k) /\ k <= o)
  <2> HIDE DEF len
  <2> QED BY <1>1, <1>2, <1>3
<1>5. k \in MountsOf(p)
  BY <1>3
<1>6. find_mount(p) = CHOOSE i \in MountsOf(p) :
        \A o \in MountsOf(p) : len(o) < len(i) \/ (len(o) = len(i) /\ i <= o)
  BY DEF find_mount
<1> HIDE DEF len
<1> QED BY <1>4, <1>5, <1>6

(* The mount found is in the table; what is left of the path is a path.    *)
LEMMA MountFacts ==
  ASSUME MountsShape, NEW p \in Seq(Name), MountsOf(p) # {}
  PROVE  /\ find_mount(p) \in 1 .. Len(vfs_mounts)
         /\ find_mount(p) \in 1 .. VFS_MAX_FS
         /\ vfs_mounts[find_mount(p)] \in Mount
         /\ vfs_mounts[find_mount(p)].node \in Node
         /\ RelPath(p) \in Seq(Name)
<1> DEFINE m == find_mount(p)
           n == Len(vfs_mounts[m].mount_path)
<1>1. /\ Len(vfs_mounts) \in Nat /\ DOMAIN vfs_mounts = 1 .. Len(vfs_mounts)
      /\ Len(p) \in Nat
  BY LenProperties DEF MountsShape
<1>2. m \in 1 .. Len(vfs_mounts)
  BY <1>1, MountFound DEF MountsOf
<1>3. vfs_mounts[m] \in Mount
  <2> HIDE DEF m
  <2> QED BY <1>2, ElementOfSeq DEF MountsShape
<1>4. vfs_mounts[m].mount_path \in Seq(Name) /\ vfs_mounts[m].node \in Node
  BY <1>3 DEF Mount
<1>5. n \in Nat
  BY <1>4, LenProperties
<1>6. RelPath(p) \in Seq(Name)
  <2>1. RelPath(p) = SubSeq(p, n + 1, Len(p))
    BY DEF RelPath
  <2> HIDE DEF n
  <2>2. n + 1 \in Int /\ Len(p) \in Int /\ \A i \in n + 1 .. Len(p) : p[i] \in Name
    BY <1>1, <1>5, ElementOfSeq
  <2> QED BY <2>1, <2>2, SubSeqProperties
<1>7. m \in 1 .. VFS_MAX_FS
  <2> HIDE DEF m
  <2> QED BY <1>1, <1>2, VfsAssumption DEF MountsShape
<1> QED BY <1>2, <1>3, <1>4, <1>6, <1>7

(* vfs_resolve ends nowhere or at a node.                                  *)
LEMMA ResolveType ==
  ASSUME MountsShape, TreeShape, NEW p \in Seq(Name), vfs_resolve(p) # NULL
  PROVE  /\ MountsOf(p) # {} /\ RelPath(p) \in Seq(Name)
         /\ vfs_resolve(p) \in Node
<1>1. MountsOf(p) # {}
  BY DEF vfs_resolve
<1>2. vfs_mounts[find_mount(p)].node \in Node /\ RelPath(p) \in Seq(Name)
  BY <1>1, MountFacts
<1>3. Tokens(RelPath(p)) \in Seq(Name)
  BY <1>2, TokensType
<1> QED BY <1>1, <1>2, <1>3, WalkType DEF vfs_resolve

-----------------------------------------------------------------------------
(* What the calls share.                                                   *)

(* alloc_fd gives a free descriptor.                                       *)
LEMMA OpenKeepsFiles ==
  ASSUME FilesShape, NEW x \in Node, NEW r, OpenFd(x, r)
  PROVE  FilesShape'
<1>1. CASE /\ FreeFds # {}
           /\ r = CHOOSE fd \in FreeFds : \A o \in FreeFds : fd <= o
           /\ vfs_files' = [vfs_files EXCEPT ![r] = [node |-> x, offset |-> 0]]
  <2>1. [node |-> x, offset |-> 0] \in File
    BY DEF File
  <2> QED BY <1>1, <2>1 DEF FilesShape
<1>2. CASE UNCHANGED vfs_files
  BY <1>2 DEF FilesShape
<1> QED BY <1>1, <1>2 DEF OpenFd

(* A new node is a node with no children.                                  *)
LEMMA NewNodeType ==
  ASSUME NEW n \in Name, NEW type \in {FILE, DIR}, NEW fs_fd \in Int
  PROVE  NewNode(n, type, fs_fd) \in VNode /\ NewNode(n, type, fs_fd).children = <<>>
<1>1. <<>> \in Seq(Node)
  BY EmptySeq
<1> QED BY <1>1 DEF NewNode, VNode

(* The tree of nodes after AddNode, node by node.                          *)
LEMMA AddNodeFacts ==
  ASSUME TreeShape, NEW x, NEW parent \in live, NEW node \in VNode, AddNode(x, parent, node)
  PROVE  /\ TreeShape' /\ x \in Node \ live /\ live' = live \cup {x}
         /\ nodes'[x] = node
         /\ \A y \in live \ {parent} : nodes'[y] = nodes[y]
         /\ nodes'[parent] = [nodes[parent] EXCEPT !.children = Append(@, x)]
         /\ nodes'[parent].children = Append(nodes[parent].children, x)
         /\ \A y \in live : nodes'[y].name = nodes[y].name
<1>1. x \in Node \ live /\ live' = live \cup {x} /\ parent \in Node /\ x # parent
  BY DEF AddNode, TreeShape
<1>2. nodes' = [nodes EXCEPT ![x] = node, ![parent].children = Append(@, x)]
  BY DEF AddNode
<1>3. nodes[parent] \in VNode /\ nodes[parent].children \in Seq(Node)
  BY <1>1 DEF TreeShape, VNode
<1>4. Append(nodes[parent].children, x) \in Seq(Node)
  BY <1>1, <1>3, AppendProperties
<1>5. nodes'[parent] = [nodes[parent] EXCEPT !.children = Append(@, x)]
  BY <1>1, <1>2 DEF TreeShape
<1>6. /\ nodes'[parent] \in VNode /\ nodes'[parent].name = nodes[parent].name
      /\ nodes'[parent].children = Append(nodes[parent].children, x)
  BY <1>3, <1>4, <1>5 DEF VNode
<1>7. nodes'[x] = node
  BY <1>1, <1>2 DEF TreeShape
<1>8. \A y \in Node \ {x, parent} : nodes'[y] = nodes[y]
  BY <1>1, <1>2 DEF TreeShape
<1>9. nodes' \in [Node -> VNode]
  <2>1. nodes' = [y \in Node |-> nodes'[y]]
    BY <1>2 DEF TreeShape
  <2>2. \A y \in Node : nodes'[y] \in VNode
    BY <1>6, <1>7, <1>8 DEF TreeShape
  <2> QED BY <2>1, <2>2
<1>10. TreeShape'
  BY <1>1, <1>9 DEF TreeShape
<1>11. \A y \in live : y \in Node /\ y # x
  BY <1>1 DEF TreeShape
<1> QED BY <1>1, <1>5, <1>6, <1>7, <1>8, <1>10, <1>11

(* A turn leaves a token, the tokens after it and a node.                  *)
LEMMA NextTokenKeepsCall ==
  ASSUME CallShape, InLoop, NEW child \in Node, NEW rest \in Seq(Name), NextToken(child, rest)
  PROVE  CallShape' /\ call'.current = child
<1>1. call \in [mount : 1 .. VFS_MAX_FS, rel : Seq(Name), token : Name, rest : Seq(Name),
                current : Node, current_path : Seq(Name)]
  BY DEF CallShape, InLoop
<1>2. Head(call.rest) \in Name
  BY <1>1, HeadTailProperties DEF InLoop
<1>3. Append(call.current_path, call.token) \in Seq(Name)
  BY <1>1, AppendProperties
<1>4. call' \in [mount : 1 .. VFS_MAX_FS, rel : Seq(Name), token : Name, rest : Seq(Name),
                 current : Node, current_path : Seq(Name)]
  BY <1>1, <1>2, <1>3 DEF NextToken
<1>5. call'.current = child
  BY <1>1 DEF NextToken
<1> QED BY <1>4, <1>5 DEF CallShape

(* What strtok has left is a part of the path.                             *)
LEMMA LeftoverType ==
  ASSUME NEW p \in Seq(Name)
  PROVE  Leftover(p) \in Seq(Name)
<1> DEFINE found == {k \in 0 .. Len(p) : ramfs_find_inode(SubSeq(p, 1, k)) # NoInode}
           c == Cardinality(found)
<1>1. Len(p) \in Nat
  BY LenProperties
<1>2. c \in Nat
  <2>1. IsFiniteSet(0 .. Len(p))
    BY <1>1, FS_Interval
  <2>2. IsFiniteSet(found)
    BY <2>1, FS_Subset
  <2> HIDE DEF found
  <2> QED BY <2>2, FS_CardinalityType
<1>3. Leftover(p) = SubSeq(p, c + 1, Len(p))
  BY DEF Leftover
<1> HIDE DEF c
<1>4. c + 1 \in Int /\ Len(p) \in Int /\ \A i \in c + 1 .. Len(p) : p[i] \in Name
  BY <1>1, <1>2, ElementOfSeq
<1> QED BY <1>3, <1>4, SubSeqProperties

-----------------------------------------------------------------------------
(* Which nodes are held by what.  This holds with vfs_unmount too, which   *)
(* leaks the nodes below the root it frees.                                *)

Child(x, k) == nodes[x].children[k]
Children(x) == DOMAIN nodes[x].children

Roots == {vfs_mounts[m].node : m \in DOMAIN vfs_mounts}

NodesHeld ==
  /\ \A x \in live : \A k \in Children(x) : Child(x, k) \in live \ Roots
  /\ \A x, y \in live : \A j \in Children(x), k \in Children(y) :
       Child(x, j) = Child(y, k) => x = y /\ j = k

CurrentLive == call # NULL => call.current \in live

VInv == IInv /\ Shapes /\ MountsLive /\ NodesHeld /\ CurrentLive

(* A new node is nobody's child but its parent's last.                     *)
LEMMA AddNodeChildren ==
  ASSUME TreeShape, NEW x, NEW parent \in live, NEW node \in VNode, node.children = <<>>,
         AddNode(x, parent, node)
  PROVE  /\ \A y \in live \ {parent} :
              Children(y)' = Children(y) /\ \A k \in Children(y) : Child(y, k)' = Child(y, k)
         /\ Children(x)' = {}
         /\ \E last \in Nat :
               /\ last \notin Children(parent)
               /\ Children(parent)' = Children(parent) \cup {last}
               /\ Child(parent, last)' = x
               /\ \A k \in Children(parent) : Child(parent, k)' = Child(parent, k)
<1>1. /\ nodes'[x] = node
      /\ \A y \in live \ {parent} : nodes'[y] = nodes[y]
      /\ nodes'[parent].children = Append(nodes[parent].children, x)
      /\ x \in Node /\ parent \in Node
  BY AddNodeFacts DEF TreeShape
<1>2. PICK s \in Seq(Node) : s = nodes[parent].children
  BY <1>1 DEF TreeShape, VNode
<1>3. PICK last \in Nat : last = Len(s) + 1
  BY LenProperties
<1>4. DOMAIN s = 1 .. last - 1 /\ DOMAIN Append(s, x) = 1 .. last
  <2>1. DOMAIN s = 1 .. Len(s) /\ Len(s) \in Nat
    BY LenProperties
  <2>2. Append(s, x) \in Seq(Node) /\ Len(Append(s, x)) = Len(s) + 1
    BY <1>1, AppendProperties
  <2>3. DOMAIN Append(s, x) = 1 .. Len(Append(s, x))
    BY <2>2, LenProperties
  <2> QED BY <1>3, <2>1, <2>2, <2>3
<1>5. Append(s, x)[last] = x /\ \A k \in 1 .. last - 1 : Append(s, x)[k] = s[k]
  <2>1. Append(s, x)[Len(s) + 1] = x /\ \A k \in 1 .. Len(s) : Append(s, x)[k] = s[k]
    BY <1>1, AppendProperties
  <2>2. Len(s) = last - 1
    BY <1>3, LenProperties
  <2> QED BY <1>3, <2>1, <2>2
<1>6. \A y \in live \ {parent} :
        Children(y)' = Children(y) /\ \A k \in Children(y) : Child(y, k)' = Child(y, k)
  BY <1>1 DEF Children, Child
<1>7. Children(x)' = {}
  <2>1. DOMAIN node.children = {}
    OBVIOUS
  <2> QED BY <1>1, <2>1 DEF Children
<1>8. last \notin 1 .. last - 1 /\ 1 .. last = (1 .. last - 1) \cup {last}
  BY <1>3, LenProperties
<1>9. Children(parent) = 1 .. last - 1 /\ Children(parent)' = 1 .. last
  BY <1>1, <1>2, <1>4 DEF Children
<1>10. /\ Child(parent, last)' = x
       /\ \A k \in 1 .. last - 1 : Child(parent, k)' = s[k]
  BY <1>1, <1>2, <1>5 DEF Child
<1>11. \A k \in 1 .. last - 1 : Child(parent, k) = s[k]
  BY <1>2 DEF Child
<1>12. /\ last \notin Children(parent)
       /\ Children(parent)' = Children(parent) \cup {last}
       /\ Child(parent, last)' = x
       /\ \A k \in Children(parent) : Child(parent, k)' = Child(parent, k)
  BY <1>8, <1>9, <1>10, <1>11
<1> QED BY <1>6, <1>7, <1>12

(* Adding a node keeps who holds what.                                     *)
LEMMA AddNodeKeeps ==
  ASSUME TreeShape, MountsLive, NodesHeld, UNCHANGED vfs_mounts,
         NEW x, NEW parent \in live, NEW node \in VNode, node.children = <<>>,
         AddNode(x, parent, node)
  PROVE  /\ TreeShape' /\ MountsLive' /\ NodesHeld'
         /\ x \in Node /\ x \in live' /\ live \subseteq live'
<1>1. TreeShape' /\ x \in Node \ live /\ live' = live \cup {x}
  BY AddNodeFacts
<1>2. MountsLive' /\ Roots' = Roots /\ Roots \subseteq live
  BY <1>1 DEF MountsLive, Roots
<1>3. PICK last \in Nat :
      /\ \A y \in live \ {parent} :
           Children(y)' = Children(y) /\ \A k \in Children(y) : Child(y, k)' = Child(y, k)
      /\ Children(x)' = {}
      /\ last \notin Children(parent)
      /\ Children(parent)' = Children(parent) \cup {last}
      /\ Child(parent, last)' = x
      /\ \A k \in Children(parent) : Child(parent, k)' = Child(parent, k)
  BY AddNodeChildren
<1>4. ASSUME NEW y \in live', NEW k \in Children(y)'
      PROVE  /\ y \in live
             /\ \/ k \in Children(y) /\ Child(y, k)' = Child(y, k) /\ Child(y, k) \in live \ Roots
                \/ y = parent /\ k = last /\ Child(y, k)' = x
  <2>1. y \in live
    BY <1>1, <1>3, <1>4
  <2>2. CASE y # parent
    <3>1. k \in Children(y) /\ Child(y, k)' = Child(y, k)
      BY <1>3, <1>4, <2>1, <2>2
    <3> QED BY <2>1, <3>1 DEF NodesHeld
  <2>3. CASE y = parent /\ k # last
    <3>1. k \in Children(parent) /\ Child(parent, k)' = Child(parent, k)
      BY <1>3, <1>4, <2>3
    <3> QED BY <2>1, <2>3, <3>1 DEF NodesHeld
  <2>4. CASE y = parent /\ k = last
    BY <1>3, <2>1, <2>4
  <2> QED BY <2>2, <2>3, <2>4
<1>5. \A y \in live' : \A k \in Children(y)' : Child(y, k)' \in live' \ Roots'
  BY <1>1, <1>2, <1>4
<1>6. ASSUME NEW y \in live', NEW z \in live', NEW j \in Children(y)', NEW k \in Children(z)',
             Child(y, j)' = Child(z, k)'
      PROVE  y = z /\ j = k
  <2>1. CASE Child(y, j)' = x
    <3>0. /\ y \in live' /\ z \in live' /\ j \in Children(y)' /\ k \in Children(z)'
          /\ x \notin live
      BY <1>1
    <3>1. y = parent /\ j = last
      BY <1>4, <2>1, <3>0
    <3>2. Child(z, k)' = x
      BY <1>6, <2>1
    <3>3. z = parent /\ k = last
      BY <1>4, <3>0, <3>2
    <3> QED BY <3>1, <3>3
  <2>2. CASE Child(y, j)' # x
    <3>0. y \in live' /\ z \in live' /\ j \in Children(y)' /\ k \in Children(z)'
      OBVIOUS
    <3>1. y \in live /\ j \in Children(y) /\ Child(y, j)' = Child(y, j)
      BY <1>4, <2>2, <3>0
    <3>2. Child(z, k)' # x
      BY <1>6, <2>2
    <3>3. z \in live /\ k \in Children(z) /\ Child(z, k)' = Child(z, k)
      BY <1>4, <3>0, <3>2
    <3>4. Child(y, j) = Child(z, k)
      BY <1>6, <3>1, <3>3
    <3> QED BY <3>1, <3>3, <3>4 DEF NodesHeld
  <2> QED BY <2>1, <2>2
<1>7. NodesHeld'
  BY <1>5, <1>6 DEF NodesHeld
<1> QED BY <1>1, <1>2, <1>7

-----------------------------------------------------------------------------
(* vfs_create, turn by turn.                                               *)

TreeInv == MountsShape /\ TreeShape /\ MountsLive /\ NodesHeld

(* Calls that leave the mounts and the tree of nodes alone.                *)
LEMMA TreeStays ==
  ASSUME TreeInv, UNCHANGED <<vfs_mounts, nodes, live>>
  PROVE  TreeInv'
<1>1. MountsShape' /\ TreeShape' /\ MountsLive'
  BY DEF TreeInv, MountsShape, TreeShape, MountsLive
<1>2. NodesHeld'
  BY DEF TreeInv, NodesHeld, Children, Child, Roots
<1> QED BY <1>1, <1>2 DEF TreeInv

(* The child found of a node in use is in use.                             *)
LEMMA ChildLive ==
  ASSUME TreeShape, NodesHeld, NEW x \in live, NEW n, find_child(x, n) # NULL
  PROVE  find_child(x, n) \in live /\ find_child(x, n) \in Node
<1>1. x \in Node
  BY DEF TreeShape
<1>2. PICK k \in DOMAIN nodes[x].children :
        find_child(x, n) = nodes[x].children[k] /\ nodes[x].children[k] \in Node
  BY <1>1, ChildFound
<1>3. Child(x, k) \in live
  BY <1>2 DEF NodesHeld, Children
<1> QED BY <1>2, <1>3 DEF Child

(* The start of a vfs_create: the call is at the root of a mount.          *)
LEMMA EnterKeeps ==
  ASSUME VInv, NEW p \in Seq(Name), CreateEnter(p)
  PROVE  VInv'
<1>1. IInv /\ TreeInv /\ FilesShape /\ MountsShape /\ MountsLive /\ MountsOf(p) # {}
  BY DEF VInv, Shapes, TreeInv, CreateEnter
<1>2. IInv'
  BY <1>1, StepInvariant DEF CreateEnter, ramfs_vars
<1>3. TreeInv'
  BY <1>1, TreeStays DEF CreateEnter
<1>4. FilesShape'
  BY <1>1 DEF FilesShape, CreateEnter
<1> DEFINE ts == Tokens(RelPath(p))
           m  == find_mount(p)
           first == IF ts = <<>> THEN NullName ELSE ts[1]
           rest  == IF ts = <<>> THEN <<>> ELSE Tail(ts)
<1>5. /\ m \in 1 .. VFS_MAX_FS /\ m \in 1 .. Len(vfs_mounts) /\ RelPath(p) \in Seq(Name)
      /\ vfs_mounts[m].node \in Node /\ ts \in Seq(Name)
  BY <1>1, MountFacts, TokensType
<1>6. vfs_mounts[m].node \in live
  <2> HIDE DEF m
  <2>1. DOMAIN vfs_mounts = 1 .. Len(vfs_mounts)
    BY <1>1, LenProperties DEF MountsShape
  <2> QED BY <1>1, <1>5, <2>1 DEF MountsLive
<1>7. first \in Name /\ rest \in Seq(Name)
  <2> HIDE DEF ts
  <2>1. CASE ts = <<>>
    BY <2>1, EmptySeq, VfsAssumption
  <2>2. CASE ts # <<>>
    <3>1. Head(ts) \in Name /\ Tail(ts) \in Seq(Name) /\ Head(ts) = ts[1]
      BY <1>5, <2>2, HeadTailProperties
    <3> QED BY <2>2, <3>1
  <2> QED BY <2>1, <2>2
<1>8. <<>> \in Seq(Name)
  BY EmptySeq
<1>9. call' = [mount |-> m, rel |-> RelPath(p), token |-> first, rest |-> rest,
               current |-> vfs_mounts[m].node, current_path |-> <<>>]
  BY DEF CreateEnter
<1> HIDE DEF m, first, rest
<1>10. CallShape'
  BY <1>5, <1>7, <1>8, <1>9 DEF CallShape
<1>11. CurrentLive'
  <2>1. live' = live /\ call'.current = vfs_mounts[m].node
    BY <1>9 DEF CreateEnter
  <2> QED BY <1>6, <2>1 DEF CurrentLive
<1> QED BY <1>2, <1>3, <1>4, <1>10, <1>11 DEF VInv, Shapes, TreeInv

(* A turn that finds the directory's node goes to a node in use.           *)
LEMMA DescendKeeps ==
  ASSUME VInv, CreateDescend
  PROVE  VInv'
<1>1. IInv /\ TreeInv /\ FilesShape /\ CallShape /\ CurrentLive /\ InLoop
  BY DEF VInv, Shapes, TreeInv, CreateDescend
<1> DEFINE child == find_child(call.current, call.token)
<1>2. child \in live /\ child \in Node
  BY <1>1, ChildLive DEF CreateDescend, CurrentLive, InLoop, TreeInv
<1>3. Tail(call.rest) \in Seq(Name)
  <2>1. call.rest \in Seq(Name) /\ call.rest # <<>>
    BY <1>1 DEF CallShape, InLoop
  <2> QED BY <2>1, HeadTailProperties
<1>4. NextToken(child, Tail(call.rest))
  BY DEF CreateDescend
<1> HIDE DEF child
<1>5. CallShape' /\ call'.current = child
  BY <1>1, <1>2, <1>3, <1>4, NextTokenKeepsCall
<1>6. CurrentLive'
  <2>1. live' = live
    BY DEF CreateDescend
  <2> QED BY <1>2, <1>5, <2>1 DEF CurrentLive
<1>7. IInv'
  BY <1>1, StepInvariant DEF CreateDescend, ramfs_vars
<1>8. TreeInv'
  BY <1>1, TreeStays DEF CreateDescend
<1>9. FilesShape'
  BY <1>1 DEF FilesShape, CreateDescend
<1> QED BY <1>5, <1>6, <1>7, <1>8, <1>9 DEF VInv, Shapes, TreeInv

(* A new node under the one the call is at.                                *)
LEMMA NodeAdded ==
  ASSUME VInv, call # NULL, UNCHANGED vfs_mounts,
         NEW x, NEW type \in {FILE, DIR}, NEW fs_fd \in Int,
         AddNode(x, call.current, NewNode(Trunc[call.token], type, fs_fd))
  PROVE  TreeInv' /\ x \in Node /\ x \in live' /\ live \subseteq live'
<1>1. call.current \in live /\ call.token \in Name
  BY DEF VInv, CurrentLive, Shapes, CallShape
<1>2. Trunc[call.token] \in Name
  BY <1>1, NameAssumption
<1> DEFINE node == NewNode(Trunc[call.token], type, fs_fd)
<1>3. node \in VNode /\ node.children = <<>>
  BY <1>2, NewNodeType
<1>4. AddNode(x, call.current, node)
  OBVIOUS
<1> HIDE DEF node
<1>5. TreeShape /\ MountsLive /\ NodesHeld
  BY DEF VInv, Shapes
<1>6. TreeShape' /\ MountsLive' /\ NodesHeld' /\ x \in Node /\ x \in live' /\ live \subseteq live'
  BY <1>1, <1>3, <1>4, <1>5, AddNodeKeeps
<1>7. MountsShape'
  BY DEF VInv, Shapes, MountsShape
<1> QED BY <1>6, <1>7 DEF TreeInv

(* A turn that makes a directory, or fails to, adds at most one node.      *)
LEMMA DirKeeps ==
  ASSUME VInv, CreateDir
  PROVE  VInv'
<1>1. IInv /\ TreeInv /\ FilesShape /\ CallShape /\ InLoop
  BY DEF VInv, Shapes, TreeInv, CreateDir
<1>2. /\ call.token \in Name /\ call.rest \in Seq(Name) /\ call.rest # <<>>
      /\ call.current_path \in Seq(Name) /\ call # NULL
  BY <1>1 DEF CallShape, InLoop
<1>3. IInv'
  <2>1. Append(call.current_path, call.token) \in Seq(Name)
    BY <1>2, AppendProperties
  <2>2. PICK r : ramfs_mkdir(Append(call.current_path, call.token), r)
    BY DEF CreateDir
  <2>3. AddStep \/ UNCHANGED ramfs_vars
    BY <1>1, <2>1, <2>2, CreateStep
  <2> QED BY <1>1, <2>3, StepInvariant
<1>4. FilesShape' /\ UNCHANGED vfs_mounts
  BY <1>1 DEF FilesShape, CreateDir
<1> DEFINE rest == IF call.current_path = <<>> THEN Tail(call.rest)
                   ELSE Leftover(call.current_path)
<1>5. rest \in Seq(Name)
  BY <1>2, HeadTailProperties, LeftoverType
<1>6. CASE \E x \in Node, g \in Garbage :
             /\ AddNode(x, call.current, NewNode(Trunc[call.token], DIR, g))
             /\ NextToken(x, rest)
  <2> HIDE DEF rest
  <2>1. PICK x \in Node, g \in Garbage :
             /\ AddNode(x, call.current, NewNode(Trunc[call.token], DIR, g))
             /\ NextToken(x, rest)
    BY <1>6
  <2>2. g \in Int
    BY VfsAssumption
  <2>3. TreeInv' /\ x \in live'
    BY <1>2, <1>4, <2>1, <2>2, NodeAdded
  <2>4. CallShape' /\ call'.current = x
    BY <1>1, <1>5, <2>1, NextTokenKeepsCall
  <2>5. CurrentLive'
    BY <2>3, <2>4 DEF CurrentLive
  <2> QED BY <1>3, <1>4, <2>3, <2>4, <2>5 DEF VInv, Shapes, TreeInv
<1>7. CASE call' = NULL /\ UNCHANGED <<nodes, live>>
  <2>1. TreeInv'
    BY <1>1, <1>4, <1>7, TreeStays
  <2>2. CallShape' /\ CurrentLive'
    BY <1>7 DEF CallShape, CurrentLive
  <2> QED BY <1>3, <1>4, <2>1, <2>2 DEF VInv, Shapes, TreeInv
<1> QED BY <1>6, <1>7 DEF CreateDir

(* The end of a vfs_create adds at most one node and opens it.             *)
LEMMA FileKeeps ==
  ASSUME VInv, NEW r, CreateFile(r)
  PROVE  VInv'
<1>1. IInv /\ TreeInv /\ FilesShape /\ CallShape /\ call # NULL
  BY DEF VInv, Shapes, TreeInv, CreateFile
<1>2. CallShape' /\ CurrentLive' /\ UNCHANGED vfs_mounts
  BY DEF CallShape, CurrentLive, CreateFile
<1>3. CASE UNCHANGED <<inodes, bufs, overrun, nodes, live, vfs_files>>
  <2>1. IInv'
    BY <1>1, <1>3, StepInvariant DEF ramfs_vars
  <2>2. TreeInv'
    BY <1>1, <1>2, <1>3, TreeStays
  <2>3. FilesShape'
    BY <1>1, <1>3 DEF FilesShape
  <2> QED BY <1>2, <2>1, <2>2, <2>3 DEF VInv, Shapes, TreeInv
<1>4. ASSUME NEW fs_fd \in Inode \cup {-1}, ramfs_create(call.rel, fs_fd)
      PROVE  IInv'
  <2>1. call.rel \in Seq(Name)
    BY <1>1 DEF CallShape
  <2>2. AddStep \/ UNCHANGED ramfs_vars
    BY <1>1, <1>4, <2>1, CreateStep
  <2> QED BY <1>1, <2>2, StepInvariant
<1>5. ASSUME NEW fs_fd \in Inode \cup {-1}, ramfs_create(call.rel, fs_fd), NEW x \in Node,
             AddNode(x, call.current, NewNode(Trunc[call.token], FILE, fs_fd)), OpenFd(x, r)
      PROVE  VInv'
  <2>1. fs_fd \in Int
    BY TableAssumption DEF Inode
  <2>2. TreeInv'
    BY <1>1, <1>2, <1>5, <2>1, NodeAdded
  <2>3. FilesShape'
    BY <1>1, <1>5, OpenKeepsFiles
  <2>4. IInv'
    BY <1>4, <1>5
  <2> QED BY <1>2, <2>2, <2>3, <2>4 DEF VInv, Shapes, TreeInv
<1>6. ASSUME NEW fs_fd \in Inode \cup {-1}, ramfs_create(call.rel, fs_fd),
             UNCHANGED <<nodes, live, vfs_files>>
      PROVE  VInv'
  <2>1. TreeInv'
    BY <1>1, <1>2, <1>6, TreeStays
  <2>2. FilesShape'
    BY <1>1, <1>6 DEF FilesShape
  <2>3. IInv'
    BY <1>4, <1>6
  <2> QED BY <1>2, <2>1, <2>2, <2>3 DEF VInv, Shapes, TreeInv
<1> QED BY <1>3, <1>5, <1>6 DEF CreateFile

-----------------------------------------------------------------------------
(* The other calls.                                                        *)

(* Calls of descriptors change descriptors alone.                          *)
LEMMA FdKeeps ==
  ASSUME VInv, FilesShape', UNCHANGED <<inodes, bufs, overrun, vfs_mounts, nodes, live, call>>
  PROVE  VInv'
<1>1. IInv /\ TreeInv /\ CallShape /\ CurrentLive
  BY DEF VInv, Shapes, TreeInv
<1>2. IInv'
  BY <1>1, StepInvariant DEF ramfs_vars
<1>3. TreeInv'
  BY <1>1, TreeStays
<1>4. CallShape' /\ CurrentLive'
  BY <1>1 DEF CallShape, CurrentLive
<1> QED BY <1>2, <1>3, <1>4 DEF VInv, Shapes, TreeInv

(* Calls that go to ramfs change its table alone.                          *)
LEMMA RamfsKeeps ==
  ASSUME VInv, AddStep \/ RemoveStep \/ StoreStep \/ UNCHANGED ramfs_vars,
         FilesShape', UNCHANGED <<vfs_mounts, nodes, live, call>>
  PROVE  VInv'
<1>1. IInv /\ TreeInv /\ CallShape /\ CurrentLive
  BY DEF VInv, Shapes, TreeInv
<1>2. IInv'
  BY <1>1, StepInvariant
<1>3. TreeInv'
  BY <1>1, TreeStays
<1>4. CallShape' /\ CurrentLive'
  BY <1>1 DEF CallShape, CurrentLive
<1> QED BY <1>2, <1>3, <1>4 DEF VInv, Shapes, TreeInv

(* vfs_open gives the node a path leads to.                                *)
LEMMA OpenKeeps ==
  ASSUME VInv, NEW p \in Seq(Name), NEW r, vfs_open(p, r)
  PROVE  VInv'
<1>1. MountsShape /\ TreeShape /\ FilesShape
  BY DEF VInv, Shapes
<1>2. FilesShape'
  <2>1. CASE vfs_resolve(p) # NULL /\ OpenFd(vfs_resolve(p), r)
    BY <1>1, <2>1, ResolveType, OpenKeepsFiles
  <2>2. CASE UNCHANGED vfs_files
    BY <1>1, <2>2 DEF FilesShape
  <2> QED BY <2>1, <2>2 DEF vfs_open
<1> QED BY <1>2, FdKeeps DEF vfs_open

(* A descriptor in use has a node and an offset.                           *)
LEMMA FdFacts ==
  ASSUME VInv, NEW fd, IsOpen(fd)
  PROVE  /\ fd \in Fd /\ vfs_files[fd] \in File
         /\ vfs_files[fd].node \in Node /\ OffsetOf(fd) \in Nat /\ FsFd(fd) \in Int
<1>1. fd \in Fd /\ vfs_files[fd] \in File
  BY DEF VInv, Shapes, FilesShape, IsOpen
<1>2. vfs_files[fd].node \in Node /\ OffsetOf(fd) \in Nat
  BY <1>1 DEF File, OffsetOf
<1>3. FsFd(fd) \in Int
  BY <1>2 DEF FsFd, VInv, Shapes, TreeShape, VNode
<1> QED BY <1>1, <1>2, <1>3

(* An offset that a call moves stays a natural number.                     *)
LEMMA OffsetKeepsFiles ==
  ASSUME VInv, NEW fd, IsOpen(fd), NEW off \in Nat,
         vfs_files' = [vfs_files EXCEPT ![fd].offset = off]
  PROVE  FilesShape'
<1>1. fd \in Fd /\ vfs_files[fd] \in File
  BY FdFacts
<1>2. [vfs_files[fd] EXCEPT !.offset = off] \in File
  BY <1>1 DEF File
<1>3. vfs_files' = [vfs_files EXCEPT ![fd] = [vfs_files[fd] EXCEPT !.offset = off]]
  OBVIOUS
<1> QED BY <1>2, <1>3 DEF FilesShape, VInv, Shapes

(* What a read copies has a length.                                        *)
LEMMA ReadLength ==
  ASSUME TypeOK, NEW idx, NEW off \in Nat, NEW size \in Nat
  PROVE  Len(ramfs_read(idx, off, size)) \in Nat
<1>1. CASE ~IsFile(idx)
  BY <1>1, EmptySeq DEF ramfs_read
<1>2. CASE IsFile(idx)
  <2>1. PICK s \in Seq(Byte) : s = inodes[idx].bytes
    BY <1>2 DEF IsFile, TypeOK, InodeRecord
  <2>2. PICK end \in Int : end = IF off + size < Len(s) THEN off + size ELSE Len(s)
    BY LenProperties
  <2>3. end <= Len(s) /\ Len(s) \in Nat
    BY <2>2, LenProperties
  <2>4. off + 1 \in Int /\ \A i \in off + 1 .. end : s[i] \in Byte
    BY <2>3, ElementOfSeq
  <2>5. SubSeq(s, off + 1, end) \in Seq(Byte)
    BY <2>2, <2>4, SubSeqProperties
  <2>6. ramfs_read(idx, off, size) = SubSeq(s, off + 1, end)
    BY <1>2, <2>1, <2>2 DEF ramfs_read
  <2> QED BY <2>5, <2>6, LenProperties
<1> QED BY <1>1, <1>2

(* vfs_read, vfs_write, vfs_lseek and vfs_close leave the nodes alone.     *)
LEMMA BytesKeep ==
  ASSUME VInv, Bytes
  PROVE  VInv'
<1>1. IInv /\ TypeOK /\ FilesShape
  BY DEF VInv, Shapes, IInv
<1>2. ASSUME NEW fd, NEW data \in InData, vfs_read(fd, Len(data))
      PROVE  VInv'
  <2>1. IsOpen(fd) /\ OffsetOf(fd) \in Nat
    BY <1>2, FdFacts DEF vfs_read
  <2>2. data \in Seq(Byte)
    BY InputAssumption
  <2>3. Len(data) \in Nat
    BY <2>2, LenProperties
  <2> DEFINE n == Len(ramfs_read(FsFd(fd), OffsetOf(fd), Len(data)))
  <2>4. n \in Nat
    BY <1>1, <2>1, <2>3, ReadLength
  <2>5. vfs_files' = [vfs_files EXCEPT ![fd].offset = OffsetOf(fd) + n]
    BY <1>2 DEF vfs_read, OffsetOf
  <2> HIDE DEF n
  <2>6. PICK off \in Nat : off = OffsetOf(fd) + n
    BY <2>1, <2>4
  <2>7. FilesShape'
    BY <2>1, <2>5, <2>6, OffsetKeepsFiles
  <2> QED BY <1>2, <2>7, FdKeeps DEF vfs_read
<1>3. ASSUME NEW fd, NEW data \in InData, NEW n, vfs_write(fd, data, n)
      PROVE  VInv'
  <2>1. IsOpen(fd) /\ OffsetOf(fd) \in Nat
    BY <1>3, FdFacts DEF vfs_write
  <2>2. data \in Seq(Byte)
    BY InputAssumption
  <2>3. PICK off2 \in {OffsetOf(fd), Needed(OffsetOf(fd), data)} :
          /\ ramfs_write(FsFd(fd), data, OffsetOf(fd), off2, n)
          /\ vfs_files' = [vfs_files EXCEPT ![fd].offset = off2]
    BY <1>3 DEF vfs_write
  <2>4. off2 \in Nat
    <3>1. OffsetOf(fd) + Len(data) \in Nat
      BY <2>1, <2>2, LenProperties
    <3> QED BY <2>1, <2>3, <3>1, TableAssumption DEF Needed
  <2>5. FilesShape'
    BY <2>1, <2>3, <2>4, OffsetKeepsFiles
  <2>6. StoreStep \/ UNCHANGED ramfs_vars
    BY <1>1, <2>1, <2>2, <2>3, StoreOrNothing
  <2> QED BY <1>3, <2>5, <2>6, RamfsKeeps DEF vfs_write
<1>4. ASSUME NEW fd, NEW off \in InOffset, vfs_lseek(fd, off)
      PROVE  VInv'
  <2>1. off \in Nat
    BY InputAssumption, TableAssumption
  <2>2. FilesShape'
    BY <1>4, <2>1, OffsetKeepsFiles DEF vfs_lseek
  <2> QED BY <1>4, <2>2, FdKeeps DEF vfs_lseek
<1>5. ASSUME NEW fd, NEW res, vfs_close(fd, res)
      PROVE  VInv'
  <2>1. vfs_files' = [vfs_files EXCEPT ![fd] = NULL] /\ fd \in Fd
    BY <1>5 DEF vfs_close, IsOpen
  <2>2. FilesShape'
    BY <1>1, <2>1 DEF FilesShape
  <2> QED BY <1>5, <2>2, FdKeeps DEF vfs_close
<1> QED BY <1>2, <1>3, <1>4, <1>5 DEF Bytes

(* vfs_unlink, vfs_rmdir and vfs_mkdir leave descriptors and nodes alone.  *)
LEMMA RemovalsKeep ==
  ASSUME VInv, Removals
  PROVE  VInv'
<1>1. IInv /\ MountsShape /\ TreeShape /\ FilesShape
  BY DEF VInv, Shapes
<1>2. RemoveLeafStep => RemoveStep
  BY DEF RemoveLeafStep, RemoveStep
<1>3. PICK p \in InRemove, r \in {0, -1} : vfs_unlink(p, r) \/ vfs_rmdir(p, r)
  BY DEF Removals
<1>4. p \in Seq(Name)
  BY VfsAssumption
<1>5. CASE vfs_unlink(p, r)
  <2>1. FilesShape'
    BY <1>1, <1>5 DEF FilesShape, vfs_unlink
  <2>2. CASE vfs_resolve(p) # NULL /\ ramfs_unlink(RelPath(p), r)
    <3>1. RelPath(p) \in Seq(Name)
      BY <1>1, <1>4, <2>2, ResolveType
    <3>2. RemoveStep \/ UNCHANGED ramfs_vars
      BY <1>1, <2>2, <3>1, UnlinkStep
    <3> QED BY <1>5, <2>1, <3>2, RamfsKeeps DEF vfs_unlink
  <2>3. CASE UNCHANGED ramfs_vars
    BY <1>5, <2>1, <2>3, RamfsKeeps DEF vfs_unlink
  <2> QED BY <1>5, <2>2, <2>3 DEF vfs_unlink
<1>6. CASE vfs_rmdir(p, r)
  <2>1. FilesShape'
    BY <1>1, <1>6 DEF FilesShape, vfs_rmdir
  <2>2. RelPath(p) \in Seq(Name)
    BY <1>1, <1>4, <1>6, MountFacts DEF vfs_rmdir
  <2>3. RemoveLeafStep \/ UNCHANGED ramfs_vars
    BY <1>1, <1>6, <2>2, RmdirStep DEF vfs_rmdir
  <2> QED BY <1>2, <1>6, <2>1, <2>3, RamfsKeeps DEF vfs_rmdir
<1> QED BY <1>3, <1>5, <1>6

(* vfs_mkdir changes the table of ramfs alone.                             *)
LEMMA MkdirKeeps ==
  ASSUME VInv, NEW p \in Seq(Name), NEW r, vfs_mkdir(p, r)
  PROVE  VInv'
<1>1. IInv /\ MountsShape /\ FilesShape
  BY DEF VInv, Shapes
<1>2. FilesShape'
  BY <1>1 DEF FilesShape, vfs_mkdir
<1>3. RelPath(p) \in Seq(Name)
  BY <1>1, MountFacts DEF vfs_mkdir
<1>4. AddStep \/ UNCHANGED ramfs_vars
  BY <1>1, <1>3, CreateStep DEF vfs_mkdir
<1> QED BY <1>2, <1>4, RamfsKeeps DEF vfs_mkdir

(* vfs_mount makes a root nobody has.                                      *)
LEMMA MountKeeps ==
  ASSUME VInv, NEW p \in InMount, vfs_mount(p)
  PROVE  VInv'
<1>1. IInv /\ TreeInv /\ FilesShape /\ CallShape
  BY DEF VInv, Shapes, TreeInv
<1>2. PICK x \in Node \ live, g \in Garbage :
        /\ live' = live \cup {x}
        /\ nodes' = [nodes EXCEPT ![x] = NewNode(Empty, DIR, g)]
        /\ vfs_mounts' = Append(vfs_mounts, [mount_path |-> p, node |-> x])
  BY DEF vfs_mount
<1>3. IInv'
  BY <1>1, StepInvariant DEF vfs_mount, ramfs_vars
<1>4. FilesShape' /\ CallShape' /\ CurrentLive'
  BY <1>1 DEF FilesShape, CallShape, CurrentLive, vfs_mount
<1>5. NewNode(Empty, DIR, g) \in VNode /\ NewNode(Empty, DIR, g).children = <<>>
  BY NewNodeType, NameAssumption, VfsAssumption
<1>6. TreeShape'
  BY <1>1, <1>2, <1>5 DEF TreeInv, TreeShape
<1>7. PICK mount \in Mount : mount = [mount_path |-> p, node |-> x]
  <2>1. p \in Seq(Name)
    <3>1. p \in Seq(Name \ {Empty})
      BY VfsAssumption
    <3> QED BY <3>1, SeqMonotonic
  <2> QED BY <2>1 DEF Mount
<1>8. vfs_mounts \in Seq(Mount) /\ Len(vfs_mounts) \in Nat /\ Len(vfs_mounts) < VFS_MAX_FS
      /\ DOMAIN vfs_mounts = 1 .. Len(vfs_mounts)
  BY <1>1, LenProperties DEF TreeInv, MountsShape, vfs_mount
<1>9. /\ vfs_mounts' \in Seq(Mount) /\ Len(vfs_mounts') = Len(vfs_mounts) + 1
      /\ \A m \in 1 .. Len(vfs_mounts) : vfs_mounts'[m] = vfs_mounts[m]
      /\ vfs_mounts'[Len(vfs_mounts) + 1] = mount
  BY <1>2, <1>7, <1>8, AppendProperties
<1>10. MountsShape'
  BY <1>8, <1>9, VfsAssumption DEF MountsShape
<1>11. DOMAIN vfs_mounts' = 1 .. Len(vfs_mounts) + 1
  BY <1>9, LenProperties
<1>12. ASSUME NEW m \in DOMAIN vfs_mounts'
       PROVE  \/ m \in DOMAIN vfs_mounts /\ vfs_mounts'[m].node = vfs_mounts[m].node
              \/ m = Len(vfs_mounts) + 1 /\ vfs_mounts'[m].node = x
  BY <1>7, <1>8, <1>9, <1>11
<1>13. MountsLive'
  <2>1. \A m \in DOMAIN vfs_mounts : vfs_mounts[m].node \in live
    BY <1>1 DEF TreeInv, MountsLive
  <2>2. \A m \in DOMAIN vfs_mounts' : vfs_mounts'[m].node \in live'
    BY <1>2, <1>12, <2>1
  <2>3. ASSUME NEW m \in DOMAIN vfs_mounts', NEW o \in DOMAIN vfs_mounts',
               vfs_mounts'[m].node = vfs_mounts'[o].node
        PROVE  m = o
    <3>1. CASE vfs_mounts'[m].node = x
      <4>1. m = Len(vfs_mounts) + 1 /\ o = Len(vfs_mounts) + 1
        BY <1>2, <1>12, <2>1, <2>3, <3>1
      <4> QED BY <4>1
    <3>2. CASE vfs_mounts'[m].node # x
      <4>1. /\ m \in DOMAIN vfs_mounts /\ o \in DOMAIN vfs_mounts
            /\ vfs_mounts[m].node = vfs_mounts[o].node
        BY <1>12, <2>3, <3>2
      <4> QED BY <1>1, <4>1 DEF TreeInv, MountsLive
    <3> QED BY <3>1, <3>2
  <2> QED BY <2>2, <2>3 DEF MountsLive
<1>14. Roots' \subseteq Roots \cup {x}
  BY <1>12 DEF Roots
<1>15. ASSUME NEW y \in live', NEW k \in Children(y)'
       PROVE  y \in live /\ k \in Children(y) /\ Child(y, k)' = Child(y, k)
  <2>1. y \in Node
    BY <1>6 DEF TreeShape
  <2>2. CASE y = x
    <3>1. nodes'[x] = NewNode(Empty, DIR, g)
      BY <1>1, <1>2 DEF TreeInv, TreeShape
    <3>2. Children(y)' = {}
      BY <1>5, <2>2, <3>1 DEF Children
    <3> QED BY <1>15, <3>2
  <2>3. CASE y # x
    <3>1. nodes'[y] = nodes[y] /\ y \in live
      BY <1>1, <1>2, <2>1, <2>3 DEF TreeInv, TreeShape
    <3> QED BY <1>15, <3>1 DEF Children, Child
  <2> QED BY <2>2, <2>3
<1>16. NodesHeld'
  <2>1. ASSUME NEW y \in live', NEW k \in Children(y)'
        PROVE  Child(y, k)' \in live' \ Roots'
    <3>1. Child(y, k) \in live \ Roots
      BY <1>1, <1>15, <2>1 DEF TreeInv, NodesHeld
    <3> QED BY <1>2, <1>14, <1>15, <2>1, <3>1
  <2>2. ASSUME NEW y \in live', NEW z \in live', NEW j \in Children(y)', NEW k \in Children(z)',
               Child(y, j)' = Child(z, k)'
        PROVE  y = z /\ j = k
    BY <1>1, <1>15, <2>2 DEF TreeInv, NodesHeld
  <2> QED BY <2>1, <2>2 DEF NodesHeld
<1> QED BY <1>3, <1>4, <1>6, <1>10, <1>13, <1>16 DEF VInv, Shapes, TreeInv

(* vfs_unmount frees a root nobody else has.                               *)
LEMMA UnmountKeeps ==
  ASSUME VInv, NEW p \in InUnmount, vfs_unmount(p)
  PROVE  VInv'
<1>1. IInv /\ TreeInv /\ FilesShape /\ CallShape
  BY DEF VInv, Shapes, TreeInv
<1>2. IInv'
  BY <1>1, StepInvariant DEF vfs_unmount, ramfs_vars
<1>3. FilesShape' /\ CallShape' /\ CurrentLive'
  BY <1>1 DEF FilesShape, CallShape, CurrentLive, vfs_unmount
<1>4. p \in Seq(Name)
  <2>1. p \in Seq(Name \ {Empty})
    BY VfsAssumption
  <2> QED BY <2>1, SeqMonotonic
<1>5. PICK m : /\ m \in 1 .. Len(vfs_mounts)
               /\ live' = live \ {vfs_mounts[m].node}
               /\ vfs_mounts' = RemoveAt(vfs_mounts, m)
               /\ UNCHANGED nodes
  BY <1>1, <1>4, MountFacts DEF TreeInv, vfs_unmount
<1>6. PICK n \in Nat : n = Len(vfs_mounts) /\ DOMAIN vfs_mounts = 1 .. n
  BY <1>1, LenProperties DEF TreeInv, MountsShape
<1>7. /\ vfs_mounts' \in Seq(Mount) /\ Len(vfs_mounts') = n - 1
      /\ \A j \in 1 .. n - 1 :
           vfs_mounts'[j] = IF j < m THEN vfs_mounts[j] ELSE vfs_mounts[j + 1]
  BY <1>1, <1>5, <1>6, RemoveAtProperties DEF TreeInv, MountsShape
<1>8. DOMAIN vfs_mounts' = 1 .. n - 1
  BY <1>7, LenProperties
<1>9. MountsShape' /\ TreeShape'
  BY <1>1, <1>5, <1>6, <1>7, VfsAssumption DEF TreeInv, MountsShape, TreeShape
<1> DEFINE old(j) == IF j < m THEN j ELSE j + 1
<1>10. ASSUME NEW j \in DOMAIN vfs_mounts'
       PROVE  /\ old(j) \in DOMAIN vfs_mounts \ {m} /\ j \in Nat
              /\ vfs_mounts'[j] = vfs_mounts[old(j)]
  <2>1. j \in 1 .. n - 1 /\ j \in Nat /\ m \in 1 .. n
    BY <1>5, <1>6, <1>8
  <2>2. CASE j < m
    BY <1>6, <1>7, <2>1, <2>2
  <2>3. CASE ~(j < m)
    BY <1>6, <1>7, <2>1, <2>3
  <2> QED BY <2>2, <2>3
<1>11. \A i, j \in Nat : old(i) = old(j) => i = j
  BY <1>5
<1> HIDE DEF old
<1>12. MountsLive
  BY <1>1 DEF TreeInv
<1>13. MountsLive'
  <2>1. ASSUME NEW j \in DOMAIN vfs_mounts'
        PROVE  vfs_mounts'[j].node \in live'
    <3>1. old(j) \in DOMAIN vfs_mounts /\ old(j) # m /\ vfs_mounts'[j] = vfs_mounts[old(j)]
      BY <1>10, <2>1
    <3>2. m \in DOMAIN vfs_mounts
      BY <1>5, <1>6
    <3>3. vfs_mounts[old(j)].node \in live /\ vfs_mounts[old(j)].node # vfs_mounts[m].node
      BY <1>12, <3>1, <3>2 DEF MountsLive
    <3> QED BY <1>5, <3>1, <3>3
  <2>2. ASSUME NEW i \in DOMAIN vfs_mounts', NEW j \in DOMAIN vfs_mounts',
               vfs_mounts'[i].node = vfs_mounts'[j].node
        PROVE  i = j
    <3>1. /\ old(i) \in DOMAIN vfs_mounts /\ vfs_mounts'[i] = vfs_mounts[old(i)] /\ i \in Nat
          /\ old(j) \in DOMAIN vfs_mounts /\ vfs_mounts'[j] = vfs_mounts[old(j)] /\ j \in Nat
      BY <1>10, <2>2
    <3>2. old(i) = old(j)
      BY <1>12, <2>2, <3>1 DEF MountsLive
    <3> QED BY <1>11, <3>1, <3>2
  <2> QED BY <2>1, <2>2 DEF MountsLive
<1>14. Roots' \subseteq Roots
  BY <1>10 DEF Roots
<1>15. vfs_mounts[m].node \in Roots
  BY <1>5, <1>6 DEF Roots
<1>16. NodesHeld'
  <2>1. \A y : Children(y)' = Children(y) /\ \A k : Child(y, k)' = Child(y, k)
    BY <1>5 DEF Children, Child
  <2>2. live' \subseteq live
    BY <1>5
  <2>3. ASSUME NEW y \in live', NEW k \in Children(y)'
        PROVE  Child(y, k)' \in live' \ Roots'
    <3>1. Child(y, k) \in live \ Roots
      BY <1>1, <2>1, <2>2, <2>3 DEF TreeInv, NodesHeld
    <3> QED BY <1>5, <1>14, <1>15, <2>1, <3>1
  <2>4. ASSUME NEW y \in live', NEW z \in live', NEW j \in Children(y)', NEW k \in Children(z)',
               Child(y, j)' = Child(z, k)'
        PROVE  y = z /\ j = k
    BY <1>1, <2>1, <2>2, <2>4 DEF TreeInv, NodesHeld
  <2> QED BY <2>3, <2>4 DEF NodesHeld
<1> QED BY <1>2, <1>3, <1>9, <1>13, <1>16 DEF VInv, Shapes, TreeInv

-----------------------------------------------------------------------------
(* The theorems.                                                           *)

(* VInv holds when nothing is mounted yet.                                 *)
LEMMA VfsInitInvariant ==
  ASSUME VfsInit
  PROVE  VInv
<1>1. IInv
  BY InitInvariant DEF VfsInit
<1>2. MountsShape
  <2>1. <<>> \in Seq(Mount) /\ Len(<<>>) = 0
    BY EmptySeq
  <2> QED BY <2>1, VfsAssumption DEF VfsInit, vfs_init, MountsShape
<1>3. TreeShape
  <2>1. NewNode(Empty, DIR, 0) \in VNode
    BY NewNodeType, NameAssumption
  <2> QED BY <2>1 DEF VfsInit, vfs_init, TreeShape
<1>4. FilesShape /\ CallShape /\ CurrentLive
  BY DEF VfsInit, vfs_init, FilesShape, CallShape, CurrentLive
<1>5. MountsLive /\ NodesHeld
  <2>1. DOMAIN vfs_mounts = {} /\ live = {}
    BY DEF VfsInit, vfs_init
  <2> QED BY <2>1 DEF MountsLive, NodesHeld
<1> QED BY <1>1, <1>2, <1>3, <1>4, <1>5 DEF VInv, Shapes

(* VInv is inductive.                                                      *)
LEMMA VfsNextInvariant ==
  ASSUME VInv, [VfsNext]_vfs_vars
  PROVE  VInv'
<1>1. CASE VfsCreate
  BY <1>1, DescendKeeps, DirKeeps, FileKeeps DEF VfsCreate
<1>2. CASE Names
  <2>1. PICK p \in InPath : \/ CreateEnter(p)
                            \/ \E r \in Fd \cup {-1} : vfs_open(p, r)
                            \/ \E r \in {0, -1} : vfs_mkdir(p, r)
    BY <1>2 DEF Names
  <2>2. p \in Seq(Name)
    BY InputAssumption
  <2> QED BY <2>1, <2>2, EnterKeeps, OpenKeeps, MkdirKeeps
<1>3. CASE Removals
  BY <1>3, RemovalsKeep
<1>4. CASE Mounting
  BY <1>4, MountKeeps, UnmountKeeps DEF Mounting
<1>5. CASE Bytes
  BY <1>5, BytesKeep
<1>6. CASE UNCHANGED vfs_vars
  <2>1. /\ UNCHANGED <<inodes, bufs, overrun, vfs_mounts, nodes, live, call>>
        /\ vfs_files' = vfs_files
    BY <1>6 DEF vfs_vars
  <2>2. FilesShape'
    BY <2>1 DEF VInv, Shapes, FilesShape
  <2> QED BY <2>1, <2>2, FdKeeps
<1> QED BY <1>1, <1>2, <1>3, <1>4, <1>5, <1>6 DEF VfsNext

(* The whole invariant, of the inode table and of the nodes above it, in   *)
(* every state of every execution: the callers of ramfs that vfs is keep   *)
(* what RamfsProofs proves of any callers.                                 *)
THEOREM VfsInvariance == VfsSpec => []VInv
<1>1. VfsInit => VInv
  BY VfsInitInvariant
<1>2. VInv /\ [VfsNext]_vfs_vars => VInv'
  BY VfsNextInvariant
<1> QED BY <1>1, <1>2, PTL DEF VfsSpec

(* Mounts, nodes, descriptors and the call in progress keep their shapes.  *)
THEOREM VfsTypeCorrect == VfsSpec => []VfsTypeOK
<1>1. VInv => VfsTypeOK
  BY DEF VInv, IInv, Shapes, MountsShape, TreeShape, FilesShape, CallShape, VfsTypeOK
<1> QED BY <1>1, VfsInvariance, PTL

(* Every mount has a root of its own that is allocated, in whatever order  *)
(* paths are mounted and unmounted.                                        *)
THEOREM MountsCorrect == VfsSpec => []MountsLive
<1>1. VInv => MountsLive
  BY DEF VInv
<1> QED BY <1>1, VfsInvariance, PTL

(* Under the calls of vfs the inodes stay a tree and every buffer has one  *)
(* owner.                                                                  *)
THEOREM TableUnderVfs == VfsSpec => [](TreeOK /\ BuffersOwned)
<1>1. VInv => TreeOK /\ BuffersOwned
  BY DEF VInv, IInv
<1> QED BY <1>1, VfsInvariance, PTL

-----------------------------------------------------------------------------
(* The steps that change the tree of nodes.                                *)

NodeStep ==
  /\ call # NULL /\ UNCHANGED vfs_mounts
  /\ find_child(call.current, call.token) = NULL
  /\ \E x : \E type \in {FILE, DIR}, fs_fd \in Int :
       AddNode(x, call.current, NewNode(Trunc[call.token], type, fs_fd))

(* A step adds a node, mounts, unmounts or leaves the nodes alone.         *)
LEMMA TreeSteps ==
  ASSUME VInv, [VfsNext]_vfs_vars
  PROVE  \/ UNCHANGED <<vfs_mounts, nodes, live>>
         \/ NodeStep
         \/ \E p \in InMount : vfs_mount(p)
         \/ \E p \in InUnmount : vfs_unmount(p)
<1>1. CASE CreateDir
  <2>1. ASSUME NEW x \in Node, NEW g \in Garbage,
               AddNode(x, call.current, NewNode(Trunc[call.token], DIR, g))
        PROVE  NodeStep
    <3>1. g \in Int
      BY VfsAssumption
    <3> QED BY <1>1, <2>1, <3>1 DEF CreateDir, InLoop, NodeStep
  <2> QED BY <1>1, <2>1 DEF CreateDir
<1>2. ASSUME NEW r, CreateFile(r)
      PROVE  UNCHANGED <<vfs_mounts, nodes, live>> \/ NodeStep
  <2>1. ASSUME NEW x \in Node, NEW fs_fd \in Inode \cup {-1},
               find_child(call.current, call.token) = NULL,
               AddNode(x, call.current, NewNode(Trunc[call.token], FILE, fs_fd))
        PROVE  NodeStep
    <3>1. fs_fd \in Int
      BY TableAssumption DEF Inode
    <3> QED BY <1>2, <2>1, <3>1 DEF CreateFile, NodeStep
  <2> QED BY <1>2, <2>1 DEF CreateFile
<1>3. CASE CreateDescend
  BY <1>3 DEF CreateDescend
<1>4. CASE Names
  BY <1>4 DEF Names, CreateEnter, vfs_open, vfs_mkdir
<1>5. CASE Removals
  BY <1>5 DEF Removals, vfs_unlink, vfs_rmdir
<1>6. CASE Bytes
  BY <1>6 DEF Bytes, vfs_read, vfs_write, vfs_lseek, vfs_close
<1>7. CASE UNCHANGED vfs_vars
  BY <1>7 DEF vfs_vars
<1> QED BY <1>1, <1>2, <1>3, <1>4, <1>5, <1>6, <1>7 DEF VfsNext, VfsCreate, Mounting

(* What a NodeStep adds, and where.                                        *)
LEMMA NodeStepFacts ==
  ASSUME VInv, NodeStep
  PROVE  \E x \in Node \ live, last \in Nat : \E parent \in live :
           /\ live' = live \cup {x} /\ parent = call.current
           /\ find_child(parent, call.token) = NULL /\ call.token \in Name
           /\ nodes'[x].name = Trunc[call.token]
           /\ \A y \in live : nodes'[y].name = nodes[y].name
           /\ \A y \in live \ {parent} :
                Children(y)' = Children(y) /\ \A k \in Children(y) : Child(y, k)' = Child(y, k)
           /\ Children(x)' = {}
           /\ last \notin Children(parent)
           /\ Children(parent)' = Children(parent) \cup {last}
           /\ Child(parent, last)' = x
           /\ \A k \in Children(parent) : Child(parent, k)' = Child(parent, k)
<1>0. PICK x : \E type \in {FILE, DIR}, fs_fd \in Int :
        AddNode(x, call.current, NewNode(Trunc[call.token], type, fs_fd))
  BY DEF NodeStep
<1>1. PICK type \in {FILE, DIR}, fs_fd \in Int :
        AddNode(x, call.current, NewNode(Trunc[call.token], type, fs_fd))
  BY <1>0
<1>2. TreeShape /\ call.current \in live /\ call.token \in Name
  BY DEF VInv, Shapes, CallShape, CurrentLive, NodeStep
<1>3. PICK node \in VNode : node = NewNode(Trunc[call.token], type, fs_fd)
  BY <1>2, NewNodeType, NameAssumption
<1>4. node.children = <<>> /\ node.name = Trunc[call.token]
  BY <1>3 DEF NewNode
<1>5. PICK parent \in live : parent = call.current
  BY <1>2
<1>6. AddNode(x, parent, node)
  BY <1>1, <1>3, <1>5
<1>7. /\ x \in Node \ live /\ live' = live \cup {x} /\ nodes'[x] = node
      /\ \A y \in live : nodes'[y].name = nodes[y].name
  BY <1>2, <1>6, AddNodeFacts
<1>8. PICK last \in Nat :
           /\ \A y \in live \ {parent} :
                Children(y)' = Children(y) /\ \A k \in Children(y) : Child(y, k)' = Child(y, k)
           /\ Children(x)' = {}
           /\ last \notin Children(parent)
           /\ Children(parent)' = Children(parent) \cup {last}
           /\ Child(parent, last)' = x
           /\ \A k \in Children(parent) : Child(parent, k)' = Child(parent, k)
  BY <1>2, <1>4, <1>6, AddNodeChildren
<1>9. find_child(parent, call.token) = NULL
  BY <1>5 DEF NodeStep
<1> QED BY <1>2, <1>4, <1>5, <1>7, <1>8, <1>9

(* As long as nothing is unmounted, no node in use is lost.                *)
NoneLeaked ==
  \A y \in live : y \in Roots \/ \E x \in live : \E k \in Children(x) : Child(x, k) = y

(* A node is added under a node in use, and a mount adds a root.           *)
LEMMA NoneLeakedKept ==
  ASSUME VInv, NoneLeaked, InUnmount = {}, [VfsNext]_vfs_vars
  PROVE  NoneLeaked'
<1>1. CASE UNCHANGED <<vfs_mounts, nodes, live>>
  BY <1>1 DEF NoneLeaked, Roots, Children, Child
<1>2. CASE NodeStep
  <2>1. PICK x \in Node \ live, last \in Nat : \E parent \in live :
           /\ live' = live \cup {x}
           /\ \A y \in live \ {parent} :
                Children(y)' = Children(y) /\ \A k \in Children(y) : Child(y, k)' = Child(y, k)
           /\ Children(parent)' = Children(parent) \cup {last}
           /\ Child(parent, last)' = x
           /\ \A k \in Children(parent) : Child(parent, k)' = Child(parent, k)
    BY <1>2, NodeStepFacts
  <2>2. \A y \in live : \A k \in Children(y) : k \in Children(y)' /\ Child(y, k)' = Child(y, k)
    BY <2>1
  <2>3. \E y \in live' : \E k \in Children(y)' : Child(y, k)' = x
    BY <2>1
  <2>4. Roots' = Roots
    BY <1>2 DEF NodeStep, Roots
  <2>5. ASSUME NEW y \in live, y \notin Roots
        PROVE  \E z \in live' : \E k \in Children(z)' : Child(z, k)' = y
    <3>1. PICK z \in live : \E k \in Children(z) : Child(z, k) = y
      BY <2>5 DEF NoneLeaked
    <3>2. PICK k \in Children(z) : Child(z, k) = y
      BY <3>1
    <3> QED BY <2>1, <2>2, <3>1, <3>2
  <2> QED BY <2>1, <2>3, <2>4, <2>5 DEF NoneLeaked
<1>3. ASSUME NEW p \in InMount, vfs_mount(p)
      PROVE  NoneLeaked'
  <2>1. PICK x \in Node \ live, g \in Garbage :
          /\ live' = live \cup {x}
          /\ nodes' = [nodes EXCEPT ![x] = NewNode(Empty, DIR, g)]
          /\ vfs_mounts' = Append(vfs_mounts, [mount_path |-> p, node |-> x])
    BY <1>3 DEF vfs_mount
  <2>2. x \in Roots' /\ Roots \subseteq Roots'
    <3>1. PICK root \in Mount : root = [mount_path |-> p, node |-> x]
      <4>1. p \in Seq(Name \ {Empty})
        BY VfsAssumption
      <4>2. p \in Seq(Name)
        BY <4>1, SeqMonotonic
      <4> QED BY <4>2 DEF Mount
    <3>2. vfs_mounts \in Seq(Mount)
      BY DEF VInv, Shapes, MountsShape
    <3>3. PICK n \in Nat : n = Len(vfs_mounts) /\ DOMAIN vfs_mounts = 1 .. n
      BY <3>2, LenProperties
    <3>4. /\ vfs_mounts' \in Seq(Mount) /\ Len(vfs_mounts') = n + 1
          /\ \A m \in 1 .. n : vfs_mounts'[m] = vfs_mounts[m]
          /\ vfs_mounts'[n + 1] = root
      BY <2>1, <3>1, <3>2, <3>3, AppendProperties
    <3>5. DOMAIN vfs_mounts' = 1 .. n + 1
      BY <3>4, LenProperties
    <3>6. n + 1 \in 1 .. n + 1 /\ 1 .. n \subseteq 1 .. n + 1
      OBVIOUS
    <3>7. x \in Roots'
      BY <3>1, <3>4, <3>5, <3>6 DEF Roots
    <3>8. \A m \in DOMAIN vfs_mounts :
            m \in DOMAIN vfs_mounts' /\ vfs_mounts'[m].node = vfs_mounts[m].node
      BY <3>3, <3>4, <3>5, <3>6
    <3> QED BY <3>7, <3>8 DEF Roots
  <2>3. \A y \in live : Children(y)' = Children(y) /\ \A k : Child(y, k)' = Child(y, k)
    <3>1. \A y \in live : nodes'[y] = nodes[y]
      BY <2>1 DEF VInv, Shapes, TreeShape
    <3> QED BY <3>1 DEF Children, Child
  <2>4. ASSUME NEW y \in live, y \notin Roots
        PROVE  \E z \in live' : \E k \in Children(z)' : Child(z, k)' = y
    <3>1. PICK z \in live : \E k \in Children(z) : Child(z, k) = y
      BY <2>4 DEF NoneLeaked
    <3>2. PICK k \in Children(z) : Child(z, k) = y
      BY <3>1
    <3> QED BY <2>1, <2>3, <3>1, <3>2
  <2> QED BY <2>1, <2>2, <2>4 DEF NoneLeaked
<1> QED BY <1>1, <1>2, <1>3, TreeSteps

(* As long as nothing is unmounted, the nodes allocated are the roots of   *)
(* the mounts and the children of allocated nodes, each once.              *)
THEOREM NodesCorrect ==
  ASSUME InUnmount = {}
  PROVE  VfsSpec => []NodesOwned
<1>1. VfsInit => VInv /\ NoneLeaked
  BY VfsInitInvariant DEF VfsInit, vfs_init, NoneLeaked
<1>2. (VInv /\ NoneLeaked) /\ [VfsNext]_vfs_vars => (VInv /\ NoneLeaked)'
  BY VfsNextInvariant, NoneLeakedKept
<1>3. ASSUME VInv, NoneLeaked
      PROVE  NodesOwned
  <2>1. Roots \subseteq live
    BY <1>3 DEF VInv, MountsLive, Roots
  <2>2. \A x \in live : Range(nodes[x].children) = {Child(x, k) : k \in Children(x)}
    BY DEF Range, Child, Children
  <2>3. live = Roots \cup UNION {Range(nodes[x].children) : x \in live}
    <3>1. UNION {Range(nodes[x].children) : x \in live} \subseteq live
      BY <1>3, <2>2 DEF VInv, NodesHeld
    <3>2. live \subseteq Roots \cup UNION {Range(nodes[x].children) : x \in live}
      BY <1>3, <2>2 DEF NoneLeaked
    <3> QED BY <2>1, <3>1, <3>2
  <2>4. \A x, y \in live : \A j \in DOMAIN nodes[x].children, k \in DOMAIN nodes[y].children :
          nodes[x].children[j] = nodes[y].children[k] => x = y /\ j = k
    BY <1>3 DEF VInv, NodesHeld, Child, Children
  <2> QED BY <2>3, <2>4 DEF NodesOwned, Roots
<1> QED BY <1>1, <1>2, <1>3, PTL DEF VfsSpec

(* If no name is cut, siblings have different names: vfs_create looks for  *)
(* the name before it adds a node, and a node's name does not change.      *)
LEMMA SiblingNamesKept ==
  ASSUME \A n \in Name : Trunc[n] = n, VInv, SiblingNames, [VfsNext]_vfs_vars
  PROVE  SiblingNames'
<1>0. SiblingNames <=> \A y \in live : \A j, k \in Children(y) :
                         nodes[Child(y, j)].name = nodes[Child(y, k)].name => j = k
  BY DEF SiblingNames, Child, Children
<1>1. \A y \in live : y \in Node /\ \A k \in Children(y) : Child(y, k) \in live
  BY DEF VInv, Shapes, TreeShape, NodesHeld
<1>2. CASE UNCHANGED <<vfs_mounts, nodes, live>>
  BY <1>2 DEF SiblingNames
<1>3. CASE NodeStep
  <2>1. PICK x \in Node \ live, last \in Nat : \E parent \in live :
         /\ live' = live \cup {x} /\ parent = call.current
         /\ find_child(parent, call.token) = NULL /\ call.token \in Name
         /\ nodes'[x].name = Trunc[call.token]
         /\ \A y \in live : nodes'[y].name = nodes[y].name
         /\ \A y \in live \ {parent} :
              Children(y)' = Children(y) /\ \A k \in Children(y) : Child(y, k)' = Child(y, k)
         /\ Children(x)' = {}
         /\ last \notin Children(parent)
         /\ Children(parent)' = Children(parent) \cup {last}
         /\ Child(parent, last)' = x
         /\ \A k \in Children(parent) : Child(parent, k)' = Child(parent, k)
    BY <1>3, NodeStepFacts
  <2>2. PICK parent \in live :
         /\ live' = live \cup {x} /\ parent = call.current
         /\ find_child(parent, call.token) = NULL /\ call.token \in Name
         /\ nodes'[x].name = Trunc[call.token]
         /\ \A y \in live : nodes'[y].name = nodes[y].name
         /\ \A y \in live \ {parent} :
              Children(y)' = Children(y) /\ \A k \in Children(y) : Child(y, k)' = Child(y, k)
         /\ Children(x)' = {}
         /\ last \notin Children(parent)
         /\ Children(parent)' = Children(parent) \cup {last}
         /\ Child(parent, last)' = x
         /\ \A k \in Children(parent) : Child(parent, k)' = Child(parent, k)
    BY <2>1
  <2>3. \A k \in Children(parent) : nodes[Child(parent, k)].name # call.token
    <3>1. nodes[parent].children \in Seq(Node) /\ NULL \notin Node
      BY <1>1, VfsAssumption DEF VInv, Shapes, TreeShape, VNode
    <3> DEFINE same == {k \in Children(parent) : nodes[Child(parent, k)].name = call.token}
    <3>2. SUFFICES ASSUME same # {} PROVE FALSE
      OBVIOUS
    <3>3. same \in SUBSET Nat
      BY <3>1, LenProperties DEF Children
    <3>4. find_child(parent, call.token) =
            Child(parent, CHOOSE k \in same : \A j \in same : k <= j)
      BY <3>2 DEF find_child, Child, Children
    <3>5. \E k \in same : \A j \in same : k <= j
      <4> HIDE DEF same
      <4> QED BY <3>2, <3>3, LeastNatural
    <3>6. (CHOOSE k \in same : \A j \in same : k <= j) \in Children(parent)
      <4> HIDE DEF same
      <4>1. (CHOOSE k \in same : \A j \in same : k <= j) \in same
        BY <3>5
      <4> QED BY <4>1 DEF same
    <3> HIDE DEF same
    <3> QED BY <1>1, <2>2, <3>1, <3>4, <3>6
  <2>4. nodes'[x].name = call.token
    BY <2>2
  <2>5. ASSUME NEW y \in live', NEW j \in Children(y)', NEW k \in Children(y)',
               nodes'[Child(y, j)'].name = nodes'[Child(y, k)'].name
        PROVE  j = k
    <3>1. y \in live
      BY <2>2, <2>5
    <3>2. CASE y # parent
      <4>1. /\ j \in Children(y) /\ Child(y, j)' = Child(y, j)
            /\ k \in Children(y) /\ Child(y, k)' = Child(y, k)
        BY <2>2, <2>5, <3>1, <3>2
      <4> QED BY <1>0, <1>1, <2>2, <2>5, <3>1, <4>1
    <3>3. CASE y = parent
      <4>1. \A i \in Children(parent) : Child(parent, i) \in live
        BY <1>1
      <4>2. \A i \in Children(parent) :
              nodes'[Child(parent, i)'].name = nodes[Child(parent, i)].name
        BY <2>2, <4>1
      <4>3. CASE j = last \/ k = last
        BY <2>2, <2>3, <2>4, <2>5, <3>3, <4>2, <4>3
      <4>4. CASE j # last /\ k # last
        <5>1. j \in Children(parent) /\ k \in Children(parent)
          BY <2>2, <2>5, <3>3, <4>4
        <5> QED BY <1>0, <2>5, <3>3, <4>2, <5>1
      <4> QED BY <4>3, <4>4
    <3> QED BY <3>2, <3>3
  <2> QED BY <2>5 DEF SiblingNames, Child, Children
<1>4. ASSUME NEW p \in InMount, vfs_mount(p)
      PROVE  SiblingNames'
  <2>1. PICK x \in Node \ live, g \in Garbage :
          /\ live' = live \cup {x}
          /\ nodes' = [nodes EXCEPT ![x] = NewNode(Empty, DIR, g)]
    BY <1>4 DEF vfs_mount
  <2>2. nodes'[x].children = <<>> /\ \A y \in live : nodes'[y] = nodes[y]
    BY <1>1, <2>1 DEF VInv, Shapes, TreeShape, NewNode
  <2>3. Children(x)' = {}
    BY <2>2 DEF Children
  <2>4. ASSUME NEW y \in live', NEW j \in Children(y)', NEW k \in Children(y)',
               nodes'[Child(y, j)'].name = nodes'[Child(y, k)'].name
        PROVE  j = k
    <3>1. y \in live
      BY <2>1, <2>3, <2>4
    <3>2. /\ j \in Children(y) /\ Child(y, j)' = Child(y, j)
          /\ k \in Children(y) /\ Child(y, k)' = Child(y, k)
      BY <2>2, <2>4, <3>1 DEF Children, Child
    <3> QED BY <1>0, <1>1, <2>2, <2>4, <3>1, <3>2
  <2> QED BY <2>4 DEF SiblingNames, Child, Children
<1>5. ASSUME NEW p \in InUnmount, vfs_unmount(p)
      PROVE  SiblingNames'
  <2>1. live' \subseteq live /\ nodes' = nodes
    BY <1>5 DEF vfs_unmount
  <2> QED BY <2>1 DEF SiblingNames
<1> QED BY <1>2, <1>3, <1>4, <1>5, TreeSteps

(* If no name is cut, find_child never hides a child behind another.       *)
THEOREM SiblingsCorrect ==
  ASSUME \A n \in Name : Trunc[n] = n
  PROVE  VfsSpec => []SiblingNames
<1>1. VfsInit => VInv /\ SiblingNames
  BY VfsInitInvariant DEF VfsInit, vfs_init, SiblingNames
<1>2. (VInv /\ SiblingNames) /\ [VfsNext]_vfs_vars => (VInv /\ SiblingNames)'
  BY SiblingNamesKept, VfsNextInvariant
<1>3. VInv /\ SiblingNames => SiblingNames
  OBVIOUS
<1> QED BY <1>1, <1>2, <1>3, PTL DEF VfsSpec

-----------------------------------------------------------------------------
(* The path a vfs_create walks along.  From a fourth part on it loses      *)
(* parts, when it makes a directory in a directory with parts left.        *)

ShortPaths == \A p \in InPath : Len(p) <= 3

WalkInv ==
  call # NULL /\ Tokens(call.rel) # <<>> =>
    /\ Append(call.current_path, call.token) \o call.rest = Tokens(call.rel)
    /\ Len(Tokens(call.rel)) <= 3

(* A sequence is its first element and the rest.                           *)
LEMMA HeadAndTail ==
  ASSUME NEW S, NEW s \in Seq(S), s # <<>>
  PROVE  <<Head(s)>> \o Tail(s) = s /\ <<Head(s)>> \in Seq(S) /\ Append(<<>>, Head(s)) = <<Head(s)>>
<1> DEFINE h == Head(s)
           t == Tail(s)
           u == <<h>> \o t
<1>1. /\ Len(s) \in Nat \ {0} /\ h \in S /\ h = s[1] /\ t \in Seq(S)
      /\ Len(t) = Len(s) - 1 /\ \A i \in 1 .. Len(t) : t[i] = s[i + 1]
  BY EmptySeq, HeadTailProperties
<1> HIDE DEF h, t
<1>2. Append(<<>>, h) \in Seq(S) /\ Append(<<>>, h) = <<h>>
  BY <1>1, EmptySeq, AppendProperties
<1>3. <<h>> \in Seq(S) /\ Len(<<h>>) = 1 /\ <<h>>[1] = h
  BY <1>2
<1>4. /\ u \in Seq(S) /\ Len(u) = 1 + Len(t)
      /\ \A i \in 1 .. 1 + Len(t) : u[i] = IF i <= 1 THEN <<h>>[i] ELSE t[i - 1]
  BY <1>1, <1>3, ConcatProperties
<1> HIDE DEF u
<1>5. Len(u) = Len(s)
  BY <1>1, <1>4
<1>6. ASSUME NEW i \in 1 .. Len(u)
      PROVE  u[i] = s[i]
  <2>1. CASE i = 1
    BY <1>1, <1>3, <1>4, <2>1
  <2>2. CASE i # 1
    <3>1. i - 1 \in 1 .. Len(t) /\ i \in 1 .. 1 + Len(t) /\ ~(i <= 1) /\ (i - 1) + 1 = i
      BY <1>1, <1>4, <2>2
    <3> QED BY <1>1, <1>4, <3>1
  <2> QED BY <2>1, <2>2
<1>7. u = s
  BY <1>1, <1>4, <1>5, <1>6, SeqEqual
<1> QED BY <1>2, <1>3, <1>7 DEF u, h, t

(* The next token goes from the front of one sequence to the end of the    *)
(* other.                                                                  *)
LEMMA MovesOn ==
  ASSUME NEW S, NEW p \in Seq(S), NEW rest \in Seq(S), rest # <<>>
  PROVE  Append(p, Head(rest)) \o Tail(rest) = p \o rest
<1>1. Head(rest) \in S /\ Tail(rest) \in Seq(S)
  BY HeadTailProperties
<1>2. Append(p, Head(rest)) = p \o <<Head(rest)>>
  BY <1>1, AppendIsConcat
<1>3. <<Head(rest)>> \o Tail(rest) = rest /\ <<Head(rest)>> \in Seq(S)
  BY HeadAndTail
<1> QED BY <1>1, <1>2, <1>3, ConcatAssociative

(* strtok's pointer is at the end after the lookup of a path of one part:  *)
(* the lookup has taken that part.                                         *)
LEMMA NothingLeft ==
  ASSUME NEW p \in Seq(Name), Len(p) <= 1
  PROVE  Leftover(p) = <<>>
<1> DEFINE found == {k \in 0 .. Len(p) : ramfs_find_inode(SubSeq(p, 1, k)) # NoInode}
           c == Cardinality(found)
<1>1. Len(p) \in Nat
  BY LenProperties
<1>2. IsFiniteSet(found) /\ found # {}
  <2>1. IsFiniteSet(0 .. Len(p))
    BY <1>1, FS_Interval
  <2>2. 0 \in found
    <3>1. SubSeq(p, 1, 0) = <<>>
      BY SubSeqEmpty
    <3>2. ramfs_find_inode(<<>>) = Root
      <4>1. <<>> \in Seq(Name)
        BY EmptySeq
      <4> QED BY <4>1, LookupEnds, EndsAppend
    <3>3. ramfs_find_inode(SubSeq(p, 1, 0)) = Root
      BY <3>1, <3>2
    <3>4. ramfs_find_inode(SubSeq(p, 1, 0)) # NoInode
      BY <3>3 DEF Root, NoInode
    <3>5. 0 \in 0 .. Len(p)
      BY <1>1
    <3> QED BY <3>4, <3>5, Zenon
  <2>3. found \in SUBSET (0 .. Len(p))
    OBVIOUS
  <2> HIDE DEF found
  <2> QED BY <2>1, <2>2, <2>3, FS_Subset
<1>3. c \in Nat /\ c # 0
  <2> HIDE DEF found
  <2> QED BY <1>2, FS_CardinalityType, FS_EmptySet
<1>4. Leftover(p) = SubSeq(p, c + 1, Len(p))
  BY DEF Leftover
<1> HIDE DEF c
<1> QED BY <1>1, <1>3, <1>4, SubSeqEmpty

(* The path below a mount is no longer than the path.                      *)
LEMMA RelPathShorter ==
  ASSUME MountsShape, NEW p \in Seq(Name), MountsOf(p) # {}
  PROVE  Len(RelPath(p)) <= Len(p)
<1> DEFINE m == find_mount(p)
           n == Len(vfs_mounts[m].mount_path)
<1>1. vfs_mounts[m] \in Mount /\ Len(p) \in Nat
  BY MountFacts, LenProperties
<1>2. n \in Nat
  <2> HIDE DEF m
  <2>1. vfs_mounts[m].mount_path \in Seq(Name)
    BY <1>1 DEF Mount
  <2> QED BY <2>1, LenProperties
<1>3. RelPath(p) = SubSeq(p, n + 1, Len(p))
  BY DEF RelPath
<1> HIDE DEF n
<1>4. n + 1 \in Int /\ Len(p) \in Int /\ \A i \in n + 1 .. Len(p) : p[i] \in Name
  BY <1>1, <1>2, ElementOfSeq
<1>5. Len(RelPath(p)) = IF n + 1 <= Len(p) THEN Len(p) - (n + 1) + 1 ELSE 0
  BY <1>3, <1>4, SubSeqProperties
<1> QED BY <1>1, <1>2, <1>5

(* A step begins a vfs_create, takes a turn in one or leaves none under    *)
(* way.                                                                    *)
LEMMA CallSteps ==
  ASSUME [VfsNext]_vfs_vars
  PROVE  \/ UNCHANGED vfs_vars
         \/ call' = NULL
         \/ \E p \in InPath : CreateEnter(p)
         \/ CreateDescend
         \/ /\ CreateDir
            /\ \E x : NextToken(x, IF call.current_path = <<>> THEN Tail(call.rest)
                                   ELSE Leftover(call.current_path))
<1>1. CASE VfsCreate
  <2>1. CASE CreateDir
    BY <2>1 DEF CreateDir
  <2>2. ASSUME NEW r, CreateFile(r)
        PROVE  call' = NULL
    BY <2>2 DEF CreateFile
  <2> QED BY <1>1, <2>1, <2>2 DEF VfsCreate
<1>2. CASE Names
  <2>1. PICK p \in InPath : \/ CreateEnter(p)
                            \/ \E r \in Fd \cup {-1} : vfs_open(p, r)
                            \/ \E r \in {0, -1} : vfs_mkdir(p, r)
    BY <1>2 DEF Names
  <2> QED BY <2>1 DEF vfs_open, vfs_mkdir
<1>3. CASE Removals
  BY <1>3 DEF Removals, vfs_unlink, vfs_rmdir
<1>4. CASE Mounting
  BY <1>4 DEF Mounting, vfs_mount, vfs_unmount
<1>5. CASE Bytes
  BY <1>5 DEF Bytes, vfs_read, vfs_write, vfs_lseek, vfs_close
<1> QED BY <1>1, <1>2, <1>3, <1>4, <1>5 DEF VfsNext

(* What a turn leaves of the path.                                         *)
LEMMA TurnKeepsPath ==
  ASSUME CallShape, InLoop, NEW child \in Node, NEW rest \in Seq(Name), NextToken(child, rest)
  PROVE  /\ call'.rel = call.rel
         /\ rest = Tail(call.rest) =>
              Append(call'.current_path, call'.token) \o call'.rest =
                Append(call.current_path, call.token) \o call.rest
<1>1. call \in [mount : 1 .. VFS_MAX_FS, rel : Seq(Name), token : Name, rest : Seq(Name),
                current : Node, current_path : Seq(Name)]
  BY DEF CallShape, InLoop
<1>2. /\ call'.rel = call.rel /\ call'.token = Head(call.rest) /\ call'.rest = rest
      /\ call'.current_path = Append(call.current_path, call.token)
  BY <1>1 DEF NextToken
<1>3. /\ Append(call.current_path, call.token) \in Seq(Name)
      /\ call.rest \in Seq(Name) /\ call.rest # <<>>
  BY <1>1, AppendProperties DEF InLoop
<1> QED BY <1>2, <1>3, MovesOn

(* Every step of every call keeps the path of the walk.  The turn that makes*)
(* a directory inside a directory is the last one if the path is short.    *)
LEMMA WalkInvKept ==
  ASSUME VInv, WalkInv, ShortPaths, [VfsNext]_vfs_vars
  PROVE  WalkInv'
<1>1. CallShape /\ MountsShape /\ CurrentLive /\ TreeShape
  BY DEF VInv, Shapes
<1>2. CASE UNCHANGED vfs_vars
  BY <1>2 DEF WalkInv, vfs_vars
<1>3. CASE call' = NULL
  BY <1>3 DEF WalkInv
<1>4. ASSUME NEW p \in InPath, CreateEnter(p)
      PROVE  WalkInv'
  <2> DEFINE ts == Tokens(RelPath(p))
  <2>1. p \in Seq(Name) /\ Len(p) <= 3 /\ MountsOf(p) # {} /\ Len(p) \in Nat
    BY <1>4, InputAssumption, LenProperties DEF ShortPaths, CreateEnter
  <2>2. RelPath(p) \in Seq(Name) /\ Len(RelPath(p)) <= Len(p)
    BY <1>1, <2>1, MountFacts, RelPathShorter
  <2>3. ts \in Seq(Name) /\ Len(ts) <= Len(RelPath(p))
    BY <2>2, TokensAre, PartPaths
  <2>4. Len(ts) <= 3
    <3>1. Len(ts) \in Nat /\ Len(RelPath(p)) \in Nat
      BY <2>2, <2>3, LenProperties
    <3> HIDE DEF ts
    <3> QED BY <2>1, <2>2, <2>3, <3>1
  <2>5. /\ call'.rel = RelPath(p) /\ call'.current_path = <<>>
        /\ ts # <<>> => call'.token = ts[1] /\ call'.rest = Tail(ts)
    BY <1>4 DEF CreateEnter
  <2>6. ASSUME ts # <<>>
        PROVE  Append(<<>>, ts[1]) \o Tail(ts) = ts
    <3> HIDE DEF ts
    <3>1. Head(ts) = ts[1]
      BY <2>3, <2>6, HeadTailProperties
    <3> QED BY <2>3, <2>6, <3>1, HeadAndTail
  <2> QED BY <2>4, <2>5, <2>6 DEF WalkInv
<1>5. CASE CreateDescend
  <2>1. InLoop /\ NextToken(find_child(call.current, call.token), Tail(call.rest))
    BY <1>5 DEF CreateDescend
  <2>2. find_child(call.current, call.token) \in Node
    BY <1>1, <1>5, ChildLive DEF CreateDescend, CurrentLive, InLoop, VInv, TreeInv, TreeShape
  <2>3. Tail(call.rest) \in Seq(Name)
    <3>1. call.rest \in Seq(Name) /\ call.rest # <<>>
      BY <1>1, <2>1 DEF CallShape, InLoop
    <3> QED BY <3>1, HeadTailProperties
  <2>4. /\ call'.rel = call.rel
        /\ Append(call'.current_path, call'.token) \o call'.rest =
             Append(call.current_path, call.token) \o call.rest
    BY <1>1, <2>1, <2>2, <2>3, TurnKeepsPath
  <2> QED BY <2>1, <2>4 DEF WalkInv, InLoop
<1>6. CASE /\ CreateDir
           /\ \E x : NextToken(x, IF call.current_path = <<>> THEN Tail(call.rest)
                                  ELSE Leftover(call.current_path))
  <2>0. SUFFICES ASSUME call' # NULL, Tokens(call'.rel) # <<>>
                 PROVE  WalkInv'
    BY DEF WalkInv
  <2>1. /\ InLoop /\ call \in [mount : 1 .. VFS_MAX_FS, rel : Seq(Name), token : Name,
                               rest : Seq(Name), current : Node, current_path : Seq(Name)]
    BY <1>1, <1>6 DEF CallShape, CreateDir, InLoop
  <2>2. PICK x \in Node : NextToken(x, IF call.current_path = <<>> THEN Tail(call.rest)
                                       ELSE Leftover(call.current_path))
    BY <1>6, <2>0 DEF CreateDir
  <2> DEFINE cp   == call.current_path
             rest == call.rest
             next == IF cp = <<>> THEN Tail(rest) ELSE Leftover(cp)
             ts   == Tokens(call.rel)
  <2>3. cp \in Seq(Name) /\ rest \in Seq(Name) /\ rest # <<>> /\ Append(cp, call.token) \in Seq(Name)
    BY <2>1, AppendProperties DEF InLoop
  <2>4. call'.rel = call.rel
    BY <2>1, <2>2 DEF NextToken
  <2>5. Append(cp, call.token) \o rest = ts /\ Len(ts) <= 3
    BY <2>0, <2>1, <2>4 DEF WalkInv, InLoop
  <2>6. Len(cp) \in Nat /\ Len(rest) \in Nat \ {0} /\ Len(cp) + 1 + Len(rest) <= 3
    <3>1. Len(Append(cp, call.token) \o rest) = Len(cp) + 1 + Len(rest)
      BY <2>1, <2>3, AppendProperties, ConcatProperties
    <3> QED BY <2>3, <2>5, <3>1, LenProperties, EmptySeq
  <2>7. next = Tail(rest)
    <3>1. CASE cp = <<>>
      BY <3>1
    <3>2. CASE cp # <<>>
      <4>1. Len(cp) \in Nat \ {0}
        BY <2>3, <3>2, EmptySeq
      <4> HIDE DEF cp, rest
      <4>2. Len(cp) <= 1 /\ Len(rest) = 1
        <5>1. \A i, j \in Nat : i # 0 /\ j # 0 /\ i + 1 + j <= 3 => i <= 1 /\ j = 1
          OBVIOUS
        <5>2. Len(cp) # 0 /\ Len(rest) # 0 /\ Len(cp) \in Nat /\ Len(rest) \in Nat
          BY <2>6, <4>1
        <5> QED BY <2>6, <5>1, <5>2
      <4>3. Leftover(cp) = <<>>
        BY <2>3, <4>2, NothingLeft
      <4>4. Tail(rest) = <<>>
        <5>1. Tail(rest) = SubSeq(rest, 2, 1)
          BY <2>3, <4>2, TailIsSubSeq
        <5> QED BY <5>1, SubSeqEmpty
      <4> QED BY <3>2, <4>3, <4>4
    <3> QED BY <3>1, <3>2
  <2>8. next \in Seq(Name)
    BY <2>3, <2>7, HeadTailProperties
  <2>9. NextToken(x, next)
    BY <2>2
  <2>10. Append(call'.current_path, call'.token) \o call'.rest = Append(cp, call.token) \o rest
    <3> HIDE DEF next
    <3> QED BY <1>1, <2>1, <2>7, <2>8, <2>9, TurnKeepsPath
  <2> QED BY <2>4, <2>5, <2>10 DEF WalkInv
<1> QED BY <1>2, <1>3, <1>4, <1>5, <1>6, CallSteps

(* For paths of at most three parts: the parts behind a vfs_create, the    *)
(* token in hand and what strtok is still to return are always its path,   *)
(* although the calls in between use strtok too.                           *)
THEOREM WalkCorrect ==
  ASSUME ShortPaths
  PROVE  VfsSpec => []WalkKeepsPath
<1>1. VfsInit => VInv /\ WalkInv
  BY VfsInitInvariant DEF VfsInit, vfs_init, WalkInv
<1>2. (VInv /\ WalkInv) /\ [VfsNext]_vfs_vars => (VInv /\ WalkInv)'
  BY VfsNextInvariant, WalkInvKept
<1>3. VInv /\ WalkInv => WalkKeepsPath
  BY DEF WalkInv, WalkKeepsPath
<1> QED BY <1>1, <1>2, <1>3, PTL DEF VfsSpec

-----------------------------------------------------------------------------
(* What the calls do to the table of ramfs.                                *)

RamfsStep == AddStep \/ RemoveStep \/ StoreStep \/ UNCHANGED ramfs_vars

GrowStep == AddStep \/ StoreStep \/ UNCHANGED ramfs_vars

(* Each call takes ramfs at most one step, that removes something only if  *)
(* the call is to remove.                                                  *)
LEMMA RamfsSteps ==
  ASSUME VInv, [VfsNext]_vfs_vars
  PROVE  RamfsStep /\ (InRemove = {} => GrowStep)
<1>1. IInv /\ TypeOK /\ MountsShape /\ TreeShape /\ CallShape
  BY DEF VInv, Shapes, IInv
<1>2. CASE UNCHANGED ramfs_vars
  BY <1>2 DEF RamfsStep, GrowStep
<1>3. CASE VfsCreate
  <2>1. CASE CreateDescend
    BY <1>2, <2>1 DEF CreateDescend, ramfs_vars
  <2>2. CASE CreateDir
    <3>1. Append(call.current_path, call.token) \in Seq(Name)
      BY <1>1, <2>2, AppendProperties DEF CallShape, CreateDir, InLoop
    <3> QED BY <1>1, <2>2, <3>1, CreateStep DEF CreateDir, RamfsStep, GrowStep
  <2>3. ASSUME NEW r, CreateFile(r)
        PROVE  AddStep \/ UNCHANGED ramfs_vars
    <3>1. call.rel \in Seq(Name)
      BY <1>1, <2>3 DEF CallShape, CreateFile
    <3>2. UNCHANGED <<inodes, bufs, overrun>> \/ \E fs_fd : ramfs_create(call.rel, fs_fd)
      BY <2>3 DEF CreateFile
    <3> QED BY <1>1, <3>1, <3>2, CreateStep DEF ramfs_vars
  <2> QED BY <1>3, <2>1, <2>2, <2>3 DEF VfsCreate, RamfsStep, GrowStep
<1>4. CASE Names
  <2>1. PICK p \in InPath : \/ CreateEnter(p)
                            \/ \E r \in Fd \cup {-1} : vfs_open(p, r)
                            \/ \E r \in {0, -1} : vfs_mkdir(p, r)
    BY <1>4 DEF Names
  <2>2. p \in Seq(Name)
    BY InputAssumption
  <2>3. CASE CreateEnter(p) \/ \E r \in Fd \cup {-1} : vfs_open(p, r)
    BY <1>2, <2>3 DEF CreateEnter, vfs_open, ramfs_vars
  <2>4. ASSUME NEW r, vfs_mkdir(p, r)
        PROVE  AddStep \/ UNCHANGED ramfs_vars
    <3>1. RelPath(p) \in Seq(Name)
      BY <1>1, <2>2, <2>4, MountFacts DEF vfs_mkdir
    <3> QED BY <1>1, <2>4, <3>1, CreateStep DEF vfs_mkdir
  <2> QED BY <2>1, <2>3, <2>4 DEF RamfsStep, GrowStep
<1>5. CASE Removals
  <2>1. PICK p \in InRemove, r \in {0, -1} : vfs_unlink(p, r) \/ vfs_rmdir(p, r)
    BY <1>5 DEF Removals
  <2>2. p \in Seq(Name)
    BY VfsAssumption
  <2>3. CASE vfs_resolve(p) # NULL /\ ramfs_unlink(RelPath(p), r)
    <3>1. RelPath(p) \in Seq(Name)
      BY <1>1, <2>2, <2>3, ResolveType
    <3> QED BY <1>1, <2>1, <2>3, <3>1, UnlinkStep DEF RamfsStep
  <2>4. CASE vfs_rmdir(p, r)
    <3>1. RelPath(p) \in Seq(Name)
      BY <1>1, <2>2, <2>4, MountFacts DEF vfs_rmdir
    <3>2. RemoveLeafStep \/ UNCHANGED ramfs_vars
      BY <1>1, <2>4, <3>1, RmdirStep DEF vfs_rmdir
    <3> QED BY <2>1, <3>2 DEF RamfsStep, RemoveLeafStep, RemoveStep
  <2> QED BY <1>2, <2>1, <2>3, <2>4 DEF vfs_unlink
<1>6. CASE Mounting
  BY <1>2, <1>6 DEF Mounting, vfs_mount, vfs_unmount, ramfs_vars
<1>7. CASE Bytes
  <2>1. ASSUME NEW fd, NEW data \in InData, NEW n, vfs_write(fd, data, n)
        PROVE  StoreStep \/ UNCHANGED ramfs_vars
    <3>1. OffsetOf(fd) \in Nat
      BY <2>1, FdFacts DEF vfs_write
    <3>2. data \in Seq(Byte)
      BY InputAssumption
    <3>3. PICK off2 : ramfs_write(FsFd(fd), data, OffsetOf(fd), off2, n)
      BY <2>1 DEF vfs_write
    <3> QED BY <1>1, <3>1, <3>2, <3>3, StoreOrNothing
  <2>2. \/ \E fd \in Fd, data \in InData : \E n : vfs_write(fd, data, n)
        \/ UNCHANGED ramfs_vars
    BY <1>7 DEF Bytes, vfs_read, vfs_lseek, vfs_close, ramfs_vars
  <2> QED BY <2>1, <2>2 DEF RamfsStep, GrowStep
<1>8. CASE UNCHANGED vfs_vars
  BY <1>2, <1>8 DEF vfs_vars, ramfs_vars
<1> QED BY <1>3, <1>4, <1>5, <1>6, <1>7, <1>8 DEF VfsNext

(* If no name is cut, the calls of vfs never give a directory of ramfs two *)
(* entries of one name.                                                    *)
THEOREM UniqueNamesUnderVfs ==
  ASSUME \A n \in Name : Trunc[n] = n
  PROVE  VfsSpec => []UniqueNames
<1>1. VfsInit => VInv /\ UniqueNames
  <2>1. ramfs_init => UniqueNames
    BY DEF ramfs_init, FreshInode, UniqueNames, Entry
  <2> QED BY <2>1, VfsInitInvariant DEF VfsInit
<1>2. ASSUME VInv, UniqueNames, [VfsNext]_vfs_vars
      PROVE  VInv' /\ UniqueNames'
  <2>1. IInv /\ RamfsStep
    BY <1>2, RamfsSteps DEF VInv
  <2>2. UniqueNames'
    BY <1>2, <2>1, UniqueNamesKept DEF RamfsStep
  <2> QED BY <1>2, <2>2, VfsNextInvariant
<1>3. VInv /\ UniqueNames => UniqueNames
  OBVIOUS
<1> QED BY <1>1, <1>2, <1>3, PTL DEF VfsSpec

(* The table is a tree, before a step and after.                           *)
LEMMA SoundSteps ==
  ASSUME \A n \in Name : Trunc[n] = n, IInv, UniqueNames, RamfsStep
  PROVE  UniqueNames' /\ Sound(inodes) /\ Sound(inodes')
<1>1. IInv' /\ UniqueNames'
  BY StepInvariant, UniqueNamesKept DEF RamfsStep
<1> QED BY <1>1, SoundTable

(* Without removals every path leads on to where it did.                   *)
LEMMA EndsKept ==
  ASSUME \A n \in Name : Trunc[n] = n, IInv, UniqueNames, GrowStep
  PROVE  \A q \in Seq(Part) : Ends(inodes, q) # NoInode =>
           /\ Ends(inodes', q) = Ends(inodes, q)
           /\ inodes'[Ends(inodes, q)].type = inodes[Ends(inodes, q)].type
<1>1. Sound(inodes) /\ Sound(inodes')
  BY SoundSteps DEF RamfsStep, GrowStep
<1>2. \A q \in Seq(Part) :
        Ends(inodes, q) = NoInode \/ (Ends(inodes, q) \in Inode /\ inodes[Ends(inodes, q)].used)
  BY <1>1, PartPaths, EndsUsed
<1>3. CASE UNCHANGED ramfs_vars
  BY <1>3 DEF ramfs_vars
<1>4. CASE StoreStep
  <2>1. \A x \in Inode : inodes'[x].entries = inodes[x].entries /\ inodes'[x].type = inodes[x].type
    BY <1>4, StoreKeepsEntries
  <2>2. ASSUME NEW x \in Inode, NEW m \in Part
        PROVE  StepIn(inodes', x, m) = StepIn(inodes, x, m)
    <3>1. inodes'[x].entries = inodes[x].entries /\ inodes'[x].type = inodes[x].type
      BY <2>1
    <3> QED BY <3>1, SameStep
  <2>3. \A q \in Seq(Part) : Ends(inodes', q) = Ends(inodes, q)
    BY <1>2, <2>2, SameEnds
  <2> QED BY <1>2, <2>1, <2>3
<1>5. CASE AddStep
  <2>1. PICK d, n, type, f :
          f \in Inode /\ NewName(inodes, inodes', f, d, n, type)
    <3>1. PICK d, success, r, n, type :
            /\ n \in Name /\ type \in {FILE, DIR}
            /\ Found(d) /\ CanAdd(d, n) /\ AddChild(d, n, type, success, r)
      BY <1>5 DEF AddStep
    <3>2. \E f \in Inode : NewName(inodes, inodes', f, d, n, type)
      BY <1>1, <3>1, AddIsNewName
    <3> QED BY <3>2
  <2>2. \A q \in Seq(Part) : Ends(inodes, q) # NoInode => Ends(inodes', q) = Ends(inodes, q)
    <3>1. \/ \A q \in Seq(Part) : Ends(inodes', q) = Ends(inodes, q)
          \/ \E p \in Seq(Part) :
               /\ Ends(inodes, p) = d /\ n \in Part /\ Ends(inodes, Append(p, n)) = NoInode
               /\ \A q \in Seq(Part) :
                    Ends(inodes', q) = IF q = Append(p, n) THEN f ELSE Ends(inodes, q)
      BY <2>1, EndsAdded
    <3> QED BY <3>1
  <2>3. /\ ~inodes[f].used /\ inodes'[d].type = inodes[d].type
        /\ \A x \in Inode \ {f, d} : inodes'[x] = inodes[x]
    BY <2>1 DEF NewName
  <2> QED BY <1>2, <2>2, <2>3
<1> QED BY <1>3, <1>4, <1>5 DEF GrowStep

(* A path that ramfs_create makes a file at leads to it.                   *)
LEMMA CreatedFile ==
  ASSUME \A n \in Name : Trunc[n] = n, IInv, UniqueNames,
         NEW p \in Seq(Part), p # <<>>, NEW f, f # -1, ramfs_create(p, f)
  PROVE  /\ Ends(inodes', p) = f /\ f \in Inode
         /\ inodes'[f].used /\ inodes'[f].type = FILE
<1>1. PICK q \in Seq(Part), n \in Part : p = Append(q, n)
  BY SequenceEmptyOrAppend
<1>2. q \in Seq(Name) /\ n \in Name /\ p \in Seq(Name)
  BY PartPaths DEF Part
<1>3. Dirname(p) = q /\ Basename(p) = n
  BY <1>1, <1>2, LastOfPath
<1> DEFINE d == ramfs_find_inode(q)
<1>4. CanAdd(d, n) /\ AddChild(d, n, FILE, FirstFree, f)
  BY <1>3 DEF ramfs_create
<1>5. d = Ends(inodes, q) /\ Found(d)
  <2>1. IInv => TypeOK /\ TreeOK
    BY DEF IInv
  <2> QED BY <1>2, <2>1, LookupEnds, LookupFinds
<1>6. Sound(inodes')
  <2>1. AddStep
    <3> HIDE DEF d
    <3> QED BY <1>2, <1>4, <1>5 DEF AddStep, ramfs_create
  <2> QED BY <2>1, SoundSteps DEF RamfsStep
<1> HIDE DEF d
<1>7. PICK g \in Inode : NewName(inodes, inodes', g, d, n, FILE)
  BY <1>2, <1>4, <1>5, <1>6, AddIsNewName
<1>8. d \in Inode /\ inodes[d].used /\ inodes \in [Inode -> InodeRecord]
  BY <1>4, <1>5 DEF CanAdd, IsDir, Found, NoInode, Inode, IInv, TypeOK
<1>9. FirstFree \in Inode /\ ~inodes[FirstFree].used
  <2>1. FreeInodes \in SUBSET Nat /\ FreeInodes # {}
    BY <1>4, TableAssumption DEF FreeInodes, Inode, CanAdd
  <2>2. FirstFree \in FreeInodes
    BY <2>1, LeastNatural DEF FirstFree
  <2> QED BY <2>2 DEF FreeInodes
<1>10. /\ f = FirstFree
       /\ inodes' = [inodes EXCEPT
                      ![FirstFree] = FreshInode(TRUE, FILE),
                      ![d].entries = Append(@, [name |-> Trunc[n], inode_idx |-> FirstFree])]
  BY <1>4 DEF AddChild
<1>11. /\ inodes'[f] = FreshInode(TRUE, FILE)
       /\ inodes'[d] = [inodes[d] EXCEPT !.entries = Append(@, [name |-> n, inode_idx |-> f])]
  BY <1>2, <1>8, <1>9, <1>10
<1>12. inodes'[f].used /\ inodes'[f].type = FILE
  BY <1>11 DEF FreshInode
<1>13. f = g
  BY <1>7, <1>8, <1>9, <1>10, <1>12 DEF NewName
<1>14. GetsEntry(inodes, inodes', f, d, n)
  <2>1. inodes[d] \in InodeRecord
    BY <1>8
  <2> QED BY <1>11, <2>1 DEF GetsEntry, InodeRecord
<1>15. Ends(inodes', p) = f
  <2>1. NewName(inodes, inodes', f, d, n, FILE)
    BY <1>7, <1>13
  <2>2. \A o \in Seq(Part) : Ends(inodes', o) = IF o = Append(q, n) THEN f ELSE Ends(inodes, o)
    BY <1>5, <1>14, <2>1, NewPath
  <2> QED BY <1>1, <2>2
<1> QED BY <1>9, <1>10, <1>12, <1>15

-----------------------------------------------------------------------------
(* How a tree of nodes N, those in L allocated, grows into a tree M.       *)

Distinct(N, y) ==
  /\ N[y].children \in Seq(Node)
  /\ \A j, k \in DOMAIN N[y].children :
       N[N[y].children[j]].name = N[N[y].children[k]].name => j = k

(* The allocated nodes have allocated children.                            *)
Closed(N, L) ==
  /\ L \in SUBSET Node
  /\ \A y \in L : /\ N[y].children \in Seq(Node)
                  /\ \A k \in DOMAIN N[y].children : N[y].children[k] \in L

(* A node x of the name n becomes the last child of parent.                *)
Grows(N, M, L, parent, n, x) ==
  /\ Closed(N, L) /\ parent \in L /\ x \in Node \ L /\ n \in Name
  /\ \A y \in L : Distinct(N, y) /\ Distinct(M, y) /\ M[y].name = N[y].name
  /\ M[x].name = n /\ DOMAIN M[x].children = {}
  /\ \A y \in L \ {parent} :
       /\ DOMAIN M[y].children = DOMAIN N[y].children
       /\ \A k \in DOMAIN N[y].children : M[y].children[k] = N[y].children[k]
  /\ \E last : /\ last \notin DOMAIN N[parent].children
               /\ DOMAIN M[parent].children = DOMAIN N[parent].children \cup {last}
               /\ M[parent].children[last] = x
               /\ \A k \in DOMAIN N[parent].children :
                    M[parent].children[k] = N[parent].children[k]

(* find_child gives the child of the name, if there is one.                *)
LEMMA ChildInIs ==
  ASSUME NEW N, NEW y, Distinct(N, y), NEW k \in DOMAIN N[y].children
  PROVE  ChildIn(N, y, N[N[y].children[k]].name) = N[y].children[k]
<1> DEFINE n == N[N[y].children[k]].name
           same == {j \in DOMAIN N[y].children : N[N[y].children[j]].name = n}
<1>1. same = {k}
  BY DEF Distinct
<1>2. k \in Nat
  <2>1. DOMAIN N[y].children = 1 .. Len(N[y].children) /\ Len(N[y].children) \in Nat
    BY LenProperties DEF Distinct
  <2> QED BY <2>1
<1>3. (CHOOSE i \in {k} : \A j \in {k} : i <= j) = k
  BY <1>2
<1>4. ChildIn(N, y, n) = N[y].children[CHOOSE i \in same : \A j \in same : i <= j]
  BY <1>1 DEF ChildIn, FirstOf
<1> HIDE DEF same
<1> QED BY <1>1, <1>3, <1>4

(* Without a child of that name find_child finds none.                     *)
LEMMA ChildInNone ==
  ASSUME NEW N, NEW y, NEW n, \A k \in DOMAIN N[y].children : N[N[y].children[k]].name # n
  PROVE  ChildIn(N, y, n) = NULL
BY DEF ChildIn, FirstOf

(* The parent has a child more, and no other node.                         *)
LEMMA ChildGrows ==
  ASSUME NEW N, NEW M, NEW L, NEW parent, NEW n, NEW x, Grows(N, M, L, parent, n, x)
  PROVE  /\ \A m : ChildIn(M, x, m) = NULL
         /\ \A y \in L : \A m :
              /\ ChildIn(N, y, m) \in L \cup {NULL}
              /\ ChildIn(M, y, m) = IF y = parent /\ m = n THEN x ELSE ChildIn(N, y, m)
         /\ ChildIn(N, parent, n) = NULL
<1>1. /\ Closed(N, L) /\ parent \in L /\ x \in Node \ L
      /\ \A y \in L : Distinct(N, y) /\ Distinct(M, y) /\ M[y].name = N[y].name
      /\ M[x].name = n /\ DOMAIN M[x].children = {}
      /\ \A y \in L \ {parent} :
           /\ DOMAIN M[y].children = DOMAIN N[y].children
           /\ \A k \in DOMAIN N[y].children : M[y].children[k] = N[y].children[k]
  BY DEF Grows
<1>2. PICK last : /\ last \notin DOMAIN N[parent].children
                  /\ DOMAIN M[parent].children = DOMAIN N[parent].children \cup {last}
                  /\ M[parent].children[last] = x
                  /\ \A k \in DOMAIN N[parent].children :
                       M[parent].children[k] = N[parent].children[k]
  BY DEF Grows
<1>3. \A m : ChildIn(M, x, m) = NULL
  BY <1>1, ChildInNone
<1>4. ASSUME NEW y \in L, NEW k \in DOMAIN N[y].children
      PROVE  /\ k \in DOMAIN M[y].children /\ M[y].children[k] = N[y].children[k]
             /\ N[y].children[k] \in L /\ M[M[y].children[k]].name = N[N[y].children[k]].name
  BY <1>1, <1>2 DEF Closed
<1>5. \A k \in DOMAIN N[parent].children : N[N[parent].children[k]].name # n
  <2>1. Distinct(M, parent) /\ M[M[parent].children[last]].name = n
    BY <1>1, <1>2
  <2> QED BY <1>1, <1>2, <1>4, <2>1 DEF Distinct
<1>6. ChildIn(N, parent, n) = NULL
  BY <1>5, ChildInNone
<1>7. ChildIn(M, parent, n) = x
  BY <1>1, <1>2, ChildInIs
<1>8. ASSUME NEW y \in L, NEW m, ~(y = parent /\ m = n)
      PROVE  ChildIn(N, y, m) \in L \cup {NULL} /\ ChildIn(M, y, m) = ChildIn(N, y, m)
  <2>1. CASE \E k \in DOMAIN N[y].children : N[N[y].children[k]].name = m
    <3>1. PICK k \in DOMAIN N[y].children : N[N[y].children[k]].name = m
      BY <2>1
    <3>2. ChildIn(N, y, m) = N[y].children[k]
      BY <1>1, <3>1, ChildInIs
    <3>3. ChildIn(M, y, m) = N[y].children[k]
      BY <1>1, <1>4, <3>1, ChildInIs
    <3> QED BY <1>4, <3>2, <3>3
  <2>2. CASE \A k \in DOMAIN N[y].children : N[N[y].children[k]].name # m
    <3>1. ChildIn(N, y, m) = NULL
      BY <2>2, ChildInNone
    <3>2. \A k \in DOMAIN M[y].children : M[M[y].children[k]].name # m
      <4>1. CASE y = parent
        BY <1>1, <1>2, <1>4, <1>8, <2>2, <4>1
      <4>2. CASE y # parent
        BY <1>1, <1>4, <2>2, <4>2
      <4> QED BY <4>1, <4>2
    <3> QED BY <3>1, <3>2, ChildInNone
  <2> QED BY <2>1, <2>2
<1> QED BY <1>1, <1>3, <1>6, <1>7, <1>8

(* Walks end where they did; the ones that now end at x have come by the   *)
(* parent.                                                                 *)
LEMMA WalkGrows ==
  ASSUME NEW N, NEW M, NEW L, NEW parent, NEW n, NEW x, Grows(N, M, L, parent, n, x),
         NEW r \in L
  PROVE  \A ts \in Seq(Name) :
           \/ WalkIn(N, r, ts) \in L /\ WalkIn(M, r, ts) = WalkIn(N, r, ts)
           \/ WalkIn(N, r, ts) = NULL /\ WalkIn(M, r, ts) = NULL
           \/ /\ WalkIn(N, r, ts) = NULL /\ WalkIn(M, r, ts) = x
              /\ \E q \in Seq(Name) : ts = Append(q, n) /\ WalkIn(N, r, q) = parent
<1> DEFINE Ok(ts) ==
           \/ WalkIn(N, r, ts) \in L /\ WalkIn(M, r, ts) = WalkIn(N, r, ts)
           \/ WalkIn(N, r, ts) = NULL /\ WalkIn(M, r, ts) = NULL
           \/ /\ WalkIn(N, r, ts) = NULL /\ WalkIn(M, r, ts) = x
              /\ \E q \in Seq(Name) : ts = Append(q, n) /\ WalkIn(N, r, q) = parent
<1> DEFINE S == {ts \in Seq(Name) : Ok(ts)}
<1>0. ASSUME NEW K, NEW o \in Seq(Name), NEW i \in Name
      PROVE  WalkIn(K, r, Append(o, i)) =
               IF WalkIn(K, r, o) = NULL THEN NULL ELSE ChildIn(K, WalkIn(K, r, o), i)
  BY WalkAppend
<1>1. x \in Node \ L /\ L \in SUBSET Node /\ NULL \notin Node /\ parent \in L
  BY VfsAssumption DEF Grows, Closed
<1>2. <<>> \in S
  <2>1. <<>> \in Seq(Name) /\ WalkIn(N, r, <<>>) = r /\ WalkIn(M, r, <<>>) = r
    BY EmptySeq, WalkEmpty
  <2> QED BY <2>1
<1>3. ASSUME NEW ts \in Seq(Name), NEW m \in Name, ts \in S
      PROVE  Append(ts, m) \in S
  <2> DEFINE y == WalkIn(N, r, ts)
             z == WalkIn(M, r, ts)
             q == Append(ts, m)
  <2>1. /\ q \in Seq(Name)
        /\ WalkIn(N, r, q) = IF y = NULL THEN NULL ELSE ChildIn(N, y, m)
        /\ WalkIn(M, r, q) = IF z = NULL THEN NULL ELSE ChildIn(M, z, m)
    BY <1>0, AppendProperties
  <2>2. (y \in L /\ z = y) \/ (y = NULL /\ z = NULL) \/ (y = NULL /\ z = x)
    BY <1>3
  <2>3. CASE y \in L /\ z = y
    <3>1. /\ ChildIn(N, y, m) \in L \cup {NULL}
          /\ ChildIn(M, y, m) = IF y = parent /\ m = n THEN x ELSE ChildIn(N, y, m)
          /\ ChildIn(N, parent, n) = NULL
      <4> HIDE DEF y
      <4> QED BY <2>3, ChildGrows
    <3>2. WalkIn(N, r, q) = ChildIn(N, y, m) /\ WalkIn(M, r, q) = ChildIn(M, y, m)
      BY <1>1, <2>1, <2>3
    <3>3. CASE y = parent /\ m = n
      BY <2>1, <3>1, <3>2, <3>3
    <3>4. CASE ~(y = parent /\ m = n)
      BY <2>1, <3>1, <3>2, <3>4
    <3> QED BY <3>3, <3>4
  <2>4. CASE y = NULL /\ z = NULL
    BY <2>1, <2>4
  <2>5. CASE y = NULL /\ z = x
    <3>1. ChildIn(M, x, m) = NULL
      BY ChildGrows
    <3> QED BY <1>1, <2>1, <2>5, <3>1
  <2> QED BY <2>2, <2>3, <2>4, <2>5
<1>4. Seq(Name) \subseteq S
  <2> HIDE DEF S
  <2> QED BY <1>2, <1>3, PathInduction
<1> QED BY <1>4

(* Walks in a tree whose nodes stay as they are.                           *)
LEMMA WalkStays ==
  ASSUME NEW N, NEW M, NEW L, Closed(N, L), \A y \in L : M[y] = N[y], NEW r \in L
  PROVE  \A ts \in Seq(Name) :
           WalkIn(M, r, ts) = WalkIn(N, r, ts) /\ WalkIn(N, r, ts) \in L \cup {NULL}
<1> DEFINE S == {ts \in Seq(Name) :
                   WalkIn(M, r, ts) = WalkIn(N, r, ts) /\ WalkIn(N, r, ts) \in L \cup {NULL}}
<1>0. ASSUME NEW K, NEW o \in Seq(Name), NEW i \in Name
      PROVE  WalkIn(K, r, Append(o, i)) =
               IF WalkIn(K, r, o) = NULL THEN NULL ELSE ChildIn(K, WalkIn(K, r, o), i)
  BY WalkAppend
<1>1. <<>> \in S
  BY EmptySeq, WalkEmpty
<1>2. ASSUME NEW y \in L, NEW m
      PROVE  ChildIn(M, y, m) = ChildIn(N, y, m) /\ ChildIn(N, y, m) \in L \cup {NULL}
  <2>1. M[y].children = N[y].children /\ N[y].children \in Seq(Node)
    BY DEF Closed
  <2>2. \A k \in DOMAIN N[y].children : /\ N[y].children[k] \in L
                                        /\ M[N[y].children[k]].name = N[N[y].children[k]].name
    BY DEF Closed
  <2>3. ChildIn(M, y, m) = ChildIn(N, y, m)
    <3>1. {k \in DOMAIN M[y].children : M[M[y].children[k]].name = m} =
            {k \in DOMAIN N[y].children : N[N[y].children[k]].name = m}
      BY <2>1, <2>2
    <3> QED BY <2>1, <3>1, Zenon DEF ChildIn
  <2>4. ChildIn(N, y, m) # NULL => ChildIn(N, y, m) \in L
    BY <2>1, <2>2, ChildInFound
  <2> QED BY <2>3, <2>4
<1>3. ASSUME NEW ts \in Seq(Name), NEW m \in Name, ts \in S
      PROVE  Append(ts, m) \in S
  <2> DEFINE y == WalkIn(N, r, ts)
             q == Append(ts, m)
  <2>1. /\ q \in Seq(Name) /\ WalkIn(M, r, ts) = y /\ y \in L \cup {NULL}
        /\ WalkIn(N, r, q) = IF y = NULL THEN NULL ELSE ChildIn(N, y, m)
        /\ WalkIn(M, r, q) = IF y = NULL THEN NULL ELSE ChildIn(M, y, m)
    BY <1>0, <1>3, AppendProperties
  <2> HIDE DEF y
  <2> QED BY <1>2, <2>1
<1>4. Seq(Name) \subseteq S
  <2> HIDE DEF S
  <2> QED BY <1>1, <1>3, PathInduction
<1> QED BY <1>4

-----------------------------------------------------------------------------
(* What a path leads to, before and after a step.                          *)

MountsIn(K, p) == {m \in DOMAIN K : IsPrefix(K[m].mount_path, p)}

MountIn(K, p) ==
  CHOOSE m \in MountsIn(K, p) : \A o \in MountsIn(K, p) :
    LET len(i) == Len(K[i].mount_path)
    IN len(o) < len(m) \/ (len(o) = len(m) /\ m <= o)

RelIn(K, p) == SubSeq(p, Len(K[MountIn(K, p)].mount_path) + 1, Len(p))

ResolveIn(K, N, p) ==
  IF MountsIn(K, p) = {} THEN NULL
  ELSE WalkIn(N, K[MountIn(K, p)].node, Tokens(RelIn(K, p)))

(* The mount a path belongs to is a matter of the table of mounts alone.   *)
LEMMA MountIs ==
  ASSUME NEW p
  PROVE  /\ MountsOf(p) = MountsIn(vfs_mounts, p) /\ MountsOf(p)' = MountsIn(vfs_mounts', p)
         /\ find_mount(p) = MountIn(vfs_mounts, p) /\ find_mount(p)' = MountIn(vfs_mounts', p)
         /\ RelPath(p) = RelIn(vfs_mounts, p) /\ RelPath(p)' = RelIn(vfs_mounts', p)
<1>1. MountsOf(p) = MountsIn(vfs_mounts, p) /\ MountsOf(p)' = MountsIn(vfs_mounts', p)
  BY DEF MountsOf, MountsIn
<1>2. find_mount(p) = MountIn(vfs_mounts, p) /\ find_mount(p)' = MountIn(vfs_mounts', p)
  BY <1>1 DEF find_mount, MountIn
<1>3. RelPath(p) = RelIn(vfs_mounts, p) /\ RelPath(p)' = RelIn(vfs_mounts', p)
  BY <1>2 DEF RelPath, RelIn
<1> QED BY <1>1, <1>2, <1>3

(* vfs_resolve is a matter of the mounts and the tree of nodes.            *)
LEMMA ResolveIs ==
  ASSUME NEW p
  PROVE  /\ vfs_resolve(p) = ResolveIn(vfs_mounts, nodes, p)
         /\ vfs_resolve(p)' = ResolveIn(vfs_mounts', nodes', p)
<1>1. vfs_resolve(p) = ResolveIn(vfs_mounts, nodes, p)
  BY MountIs, WalkIs DEF vfs_resolve, ResolveIn
<1>2. vfs_resolve(p)' = ResolveIn(vfs_mounts', nodes', p)
  <2>1. \A x, ts : Walk(x, ts)' = WalkIn(nodes', x, ts)
    BY WalkIs
  <2> QED BY <2>1, MountIs DEF vfs_resolve, ResolveIn
<1> QED BY <1>1, <1>2

(* The node a vfs_create adds, seen from the tree.                         *)
LEMMA AddGrows ==
  ASSUME \A n \in Name : Trunc[n] = n, VInv, SiblingNames, VInv', SiblingNames', call # NULL,
         NEW x, NEW type \in {FILE, DIR}, NEW fs_fd \in Int,
         AddNode(x, call.current, NewNode(Trunc[call.token], type, fs_fd))
  PROVE  /\ Grows(nodes, nodes', live, call.current, call.token, x)
         /\ live' = live \cup {x} /\ nodes'[x].type = type /\ nodes'[x].fs_fd = fs_fd
         /\ \A y \in live : nodes'[y].type = nodes[y].type /\ nodes'[y].fs_fd = nodes[y].fs_fd
<1>1. TreeShape /\ TreeShape' /\ NodesHeld
  BY DEF VInv, Shapes
<1>2. PICK parent \in live : parent = call.current
  BY DEF VInv, CurrentLive
<1>3. PICK n \in Name : n = call.token /\ Trunc[n] = n
  BY DEF VInv, Shapes, CallShape
<1>4. PICK node \in VNode : node = NewNode(n, type, fs_fd) /\ node.children = <<>>
  BY NewNodeType
<1>5. AddNode(x, parent, node)
  BY <1>2, <1>3, <1>4
<1>6. /\ x \in Node \ live /\ live' = live \cup {x} /\ nodes'[x] = node
      /\ \A y \in live \ {parent} : nodes'[y] = nodes[y]
      /\ nodes'[parent] = [nodes[parent] EXCEPT !.children = Append(@, x)]
      /\ \A y \in live : nodes'[y].name = nodes[y].name
  <2>1. TreeShape /\ parent \in live /\ node \in VNode
    BY <1>1, <1>2, <1>4
  <2>2. /\ TreeShape' /\ x \in Node \ live /\ live' = live \cup {x}
        /\ nodes'[x] = node
        /\ \A y \in live \ {parent} : nodes'[y] = nodes[y]
        /\ nodes'[parent] = [nodes[parent] EXCEPT !.children = Append(@, x)]
        /\ nodes'[parent].children = Append(nodes[parent].children, x)
        /\ \A y \in live : nodes'[y].name = nodes[y].name
    BY <1>5, <2>1, AddNodeFacts, Zenon
  <2> QED BY <2>2
<1>7. /\ \A y \in live \ {parent} :
           Children(y)' = Children(y) /\ \A k \in Children(y) : Child(y, k)' = Child(y, k)
      /\ Children(x)' = {}
      /\ \E last \in Nat :
            /\ last \notin Children(parent)
            /\ Children(parent)' = Children(parent) \cup {last}
            /\ Child(parent, last)' = x
            /\ \A k \in Children(parent) : Child(parent, k)' = Child(parent, k)
  BY <1>1, <1>4, <1>5, AddNodeChildren
<1>8. node.name = n /\ node.type = type /\ node.fs_fd = fs_fd
  BY <1>4 DEF NewNode
<1>9. \A y \in live : nodes'[y].type = nodes[y].type /\ nodes'[y].fs_fd = nodes[y].fs_fd
  <2>1. nodes[parent] \in VNode
    BY <1>1 DEF TreeShape
  <2> QED BY <1>6, <2>1 DEF VNode
<1>10. Closed(nodes, live) /\ \A y \in live : Distinct(nodes, y)
  <2>1. \A y \in live : nodes[y].children \in Seq(Node)
    BY <1>1 DEF TreeShape, VNode
  <2>2. Closed(nodes, live)
    BY <1>1, <2>1 DEF Closed, TreeShape, NodesHeld, Children, Child
  <2> QED BY <2>1, <2>2 DEF Distinct, SiblingNames
<1>11. \A y \in live : Distinct(nodes', y)
  <2>1. \A y \in live' : nodes'[y].children \in Seq(Node)
    BY <1>1 DEF TreeShape, VNode
  <2> QED BY <1>6, <2>1 DEF Distinct, SiblingNames
<1>12. Grows(nodes, nodes', live, parent, n, x)
  BY <1>6, <1>7, <1>8, <1>10, <1>11 DEF Grows, Children, Child
<1> QED BY <1>2, <1>3, <1>6, <1>8, <1>9, <1>12

(* The node in the hand of a vfs_create is the one its current_path leads  *)
(* to from the mount it found.                                             *)
CurrentWalk ==
  call # NULL =>
    /\ call.mount \in DOMAIN vfs_mounts
    /\ call.current = WalkIn(nodes, vfs_mounts[call.mount].node, call.current_path)

(* The walk goes on to a node that is added under it.                      *)
LEMMA WalkToNew ==
  ASSUME VInv, CurrentWalk, call # NULL, NEW x,
         Grows(nodes, nodes', live, call.current, call.token, x)
  PROVE  WalkIn(nodes', vfs_mounts[call.mount].node, Append(call.current_path, call.token)) = x
<1>1. PICK r \in live : r = vfs_mounts[call.mount].node
  BY DEF VInv, MountsLive, CurrentWalk
<1>2. PICK cp \in Seq(Name) : cp = call.current_path
  BY DEF VInv, Shapes, CallShape
<1>3. PICK n \in Name : n = call.token
  BY DEF Grows
<1>4. PICK parent \in live : parent = call.current /\ WalkIn(nodes, r, cp) = parent
  BY <1>1, <1>2 DEF Grows, CurrentWalk
<1>5. Grows(nodes, nodes', live, parent, n, x) /\ parent # NULL
  BY <1>3, <1>4, VfsAssumption DEF VInv, Shapes, TreeShape
<1>6. WalkIn(nodes', r, cp) = parent
  BY <1>4, <1>5, WalkGrows
<1>7. ChildIn(nodes', parent, n) = x
  BY <1>5, ChildGrows
<1> QED BY <1>1, <1>2, <1>3, <1>5, <1>6, <1>7, WalkAppend

(* A turn moves current and current_path together.                         *)
LEMMA CurrentWalkKept ==
  ASSUME \A n \in Name : Trunc[n] = n, VInv, SiblingNames, CurrentWalk, [VfsNext]_vfs_vars
  PROVE  CurrentWalk'
<1>1. /\ CallShape /\ MountsShape /\ CurrentLive /\ TreeShape /\ TreeInv
      /\ VInv' /\ SiblingNames'
  BY VfsNextInvariant, SiblingNamesKept DEF VInv, Shapes, TreeInv
<1>2. CASE UNCHANGED vfs_vars
  BY <1>2 DEF CurrentWalk, vfs_vars
<1>3. CASE call' = NULL
  BY <1>3 DEF CurrentWalk
<1>4. ASSUME NEW p \in InPath, CreateEnter(p)
      PROVE  CurrentWalk'
  <2>1. p \in Seq(Name) /\ MountsOf(p) # {}
    BY <1>4, InputAssumption DEF CreateEnter
  <2>2. find_mount(p) \in DOMAIN vfs_mounts
    BY <1>1, <2>1, MountFound DEF MountsOf
  <2>3. /\ call'.mount = find_mount(p) /\ call'.current_path = <<>>
        /\ call'.current = vfs_mounts[find_mount(p)].node
        /\ vfs_mounts' = vfs_mounts /\ nodes' = nodes
    BY <1>4 DEF CreateEnter
  <2> QED BY <2>2, <2>3, WalkEmpty DEF CurrentWalk
<1>5. ASSUME NEW child, NEW rest, InLoop, NextToken(child, rest), vfs_mounts' = vfs_mounts,
             WalkIn(nodes', vfs_mounts[call.mount].node, Append(call.current_path, call.token))
               = child
      PROVE  CurrentWalk'
  <2>1. call \in [mount : 1 .. VFS_MAX_FS, rel : Seq(Name), token : Name, rest : Seq(Name),
                  current : Node, current_path : Seq(Name)]
    BY <1>1, <1>5 DEF CallShape, InLoop
  <2>2. /\ call'.mount = call.mount /\ call'.current = child
        /\ call'.current_path = Append(call.current_path, call.token)
    BY <1>5, <2>1 DEF NextToken
  <2> QED BY <1>5, <2>2 DEF CurrentWalk, InLoop
<1>6. CASE CreateDescend
  <2>1. /\ InLoop /\ find_child(call.current, call.token) # NULL
        /\ NextToken(find_child(call.current, call.token), Tail(call.rest))
        /\ vfs_mounts' = vfs_mounts /\ nodes' = nodes
    BY <1>6 DEF CreateDescend
  <2>2. /\ call.current_path \in Seq(Name) /\ call.token \in Name /\ call.current # NULL
        /\ call.current = WalkIn(nodes, vfs_mounts[call.mount].node, call.current_path)
    BY <1>1, <2>1, VfsAssumption DEF CallShape, InLoop, CurrentWalk
  <2>3. WalkIn(nodes, vfs_mounts[call.mount].node, Append(call.current_path, call.token))
          = find_child(call.current, call.token)
    BY <2>2, WalkAppend, WalkIs
  <2> QED BY <1>5, <2>1, <2>3
<1>7. CASE /\ CreateDir
           /\ \E x : NextToken(x, IF call.current_path = <<>> THEN Tail(call.rest)
                                  ELSE Leftover(call.current_path))
  <2>1. InLoop /\ call # NULL /\ vfs_mounts' = vfs_mounts
    BY <1>7 DEF CreateDir, InLoop
  <2>2. CASE call' = NULL
    BY <1>3, <2>2
  <2>3. CASE \E x \in Node, g \in Garbage :
               /\ AddNode(x, call.current, NewNode(Trunc[call.token], DIR, g))
               /\ NextToken(x, IF call.current_path = <<>> THEN Tail(call.rest)
                               ELSE Leftover(call.current_path))
    <3>1. PICK x \in Node, g \in Garbage :
               /\ AddNode(x, call.current, NewNode(Trunc[call.token], DIR, g))
               /\ NextToken(x, IF call.current_path = <<>> THEN Tail(call.rest)
                               ELSE Leftover(call.current_path))
      BY <2>3
    <3>2. g \in Int
      BY VfsAssumption
    <3>3. Grows(nodes, nodes', live, call.current, call.token, x)
      BY <1>1, <2>1, <3>1, <3>2, AddGrows
    <3>4. WalkIn(nodes', vfs_mounts[call.mount].node, Append(call.current_path, call.token)) = x
      BY <2>1, <3>3, WalkToNew
    <3> QED BY <1>5, <2>1, <3>1, <3>4
  <2> QED BY <1>7, <2>2, <2>3 DEF CreateDir
<1> QED BY <1>2, <1>3, <1>4, <1>6, <1>7, CallSteps

(* Only paths of InMount are mounted.                                      *)
MountPaths == \A m \in DOMAIN vfs_mounts : vfs_mounts[m].mount_path \in InMount

(* A mount adds its path, and unmounting takes one away.                   *)
LEMMA MountPathsKept ==
  ASSUME VInv, MountPaths, [VfsNext]_vfs_vars
  PROVE  MountPaths'
<1>1. PICK n \in Nat : n = Len(vfs_mounts) /\ DOMAIN vfs_mounts = 1 .. n /\ vfs_mounts \in Seq(Mount)
  BY LenProperties DEF VInv, Shapes, MountsShape
<1>2. CASE vfs_mounts' = vfs_mounts
  BY <1>2 DEF MountPaths
<1>3. ASSUME NEW p \in InMount, vfs_mount(p)
      PROVE  MountPaths'
  <2>1. PICK root : root.mount_path = p /\ vfs_mounts' = Append(vfs_mounts, root) /\ root \in Mount
    <3>1. PICK x \in Node \ live : vfs_mounts' = Append(vfs_mounts, [mount_path |-> p, node |-> x])
      BY <1>3 DEF vfs_mount
    <3>2. p \in Seq(Name)
      <4>1. p \in Seq(Name \ {Empty})
        BY VfsAssumption
      <4> QED BY <4>1, SeqMonotonic
    <3>3. PICK root \in Mount : root = [mount_path |-> p, node |-> x]
      BY <3>2 DEF Mount
    <3> QED BY <3>1, <3>3
  <2>2. /\ vfs_mounts' \in Seq(Mount) /\ Len(vfs_mounts') = n + 1
        /\ \A m \in 1 .. n : vfs_mounts'[m] = vfs_mounts[m]
        /\ vfs_mounts'[n + 1] = root
    BY <1>1, <2>1, AppendProperties
  <2>3. DOMAIN vfs_mounts' = 1 .. n + 1
    BY <2>2, LenProperties
  <2> QED BY <1>1, <2>1, <2>2, <2>3 DEF MountPaths
<1>4. ASSUME NEW p \in InUnmount, vfs_unmount(p)
      PROVE  MountPaths'
  <2>1. PICK m \in 1 .. n : vfs_mounts' = RemoveAt(vfs_mounts, m)
    <3>1. find_mount(p) \in 1 .. n
      <4>1. p \in Seq(Name)
        <5>1. p \in Seq(Name \ {Empty})
          BY VfsAssumption
        <5> QED BY <5>1, SeqMonotonic
      <4> QED BY <1>1, <1>4, <4>1, MountFacts DEF VInv, Shapes, vfs_unmount
    <3> QED BY <1>4, <3>1 DEF vfs_unmount
  <2>2. /\ vfs_mounts' \in Seq(Mount) /\ Len(vfs_mounts') = n - 1
        /\ \A i \in 1 .. n - 1 : vfs_mounts'[i] = vfs_mounts[IF i < m THEN i ELSE i + 1]
    <3>1. /\ RemoveAt(vfs_mounts, m) \in Seq(Mount) /\ Len(RemoveAt(vfs_mounts, m)) = n - 1
          /\ \A i \in 1 .. n - 1 :
                RemoveAt(vfs_mounts, m)[i] = vfs_mounts[IF i < m THEN i ELSE i + 1]
      BY <1>1, RemoveAtProperties
    <3> QED BY <2>1, <3>1
  <2>3. DOMAIN vfs_mounts' = 1 .. n - 1
    BY <2>2, LenProperties
  <2>4. \A i \in 1 .. n - 1 : (IF i < m THEN i ELSE i + 1) \in 1 .. n
    BY <2>1
  <2>5. ASSUME NEW i \in 1 .. n - 1
        PROVE  vfs_mounts'[i].mount_path \in InMount
    BY <1>1, <2>2, <2>4 DEF MountPaths
  <2> QED BY <2>3, <2>5 DEF MountPaths
<1> QED BY <1>2, <1>3, <1>4, TreeSteps DEF NodeStep

(* Paths without empty parts that are no mount's.                          *)
PlainPaths == InPath \subseteq Seq(Part) /\ InPath \cap InMount = {}

(* Below a mount such a path has parts, none of them empty.                *)
LEMMA RelPathPlain ==
  ASSUME PlainPaths, VInv, MountPaths, NEW p \in InPath, MountsOf(p) # {}
  PROVE  RelPath(p) \in Seq(Part) /\ RelPath(p) # <<>>
<1>1. p \in Seq(Part) /\ p \in Seq(Name) /\ MountsShape
  BY PartPaths DEF PlainPaths, VInv, Shapes
<1> DEFINE m == find_mount(p)
<1>2. m \in MountsOf(p) /\ vfs_mounts[m] \in Mount
  BY <1>1, MountFound, MountFacts
<1>3. PICK path \in InMount : path = vfs_mounts[m].mount_path /\ path \in Seq(Name) /\ IsPrefix(path, p)
  <2> HIDE DEF m
  <2> QED BY <1>2 DEF MountPaths, MountsOf, Mount
<1>4. PICK n, len \in Nat : n = Len(path) /\ len = Len(p) /\ n <= len
  BY <1>1, <1>3, LenProperties DEF IsPrefix
<1>5. n < len
  <2>1. SUFFICES ASSUME n = len PROVE FALSE
    BY <1>4
  <2>2. path = p
    <3>1. SubSeq(path, 1, n) = SubSeq(p, 1, n)
      BY <1>3, <1>4 DEF IsPrefix
    <3>2. \A i \in 1 .. n - 1 + 1 : SubSeq(path, 1, n)[i] = path[1 + i - 1]
      BY <1>3, <1>4, SubSeqProperties, ElementOfSeq
    <3>3. \A i \in 1 .. n - 1 + 1 : SubSeq(p, 1, n)[i] = p[1 + i - 1]
      BY <1>1, <1>4, <2>1, SubSeqProperties, ElementOfSeq
    <3>4. \A i \in 1 .. n : path[i] = p[i]
      BY <1>4, <3>1, <3>2, <3>3
    <3> QED BY <1>1, <1>3, <1>4, <2>1, <3>4, SeqEqual
  <2> QED BY <1>3, <2>2 DEF PlainPaths
<1>6. RelPath(p) = SubSeq(p, n + 1, len)
  BY <1>3, <1>4 DEF RelPath
<1>7. n + 1 \in Int /\ len \in Int /\ \A i \in n + 1 .. len : p[i] \in Part
  BY <1>1, <1>4, ElementOfSeq
<1>8. RelPath(p) \in Seq(Part) /\ Len(RelPath(p)) = len - (n + 1) + 1
  BY <1>4, <1>5, <1>6, <1>7, SubSeqProperties
<1> QED BY <1>4, <1>5, <1>8, EmptySeq

(* While a vfs_create is under way only it opens a descriptor, once it has *)
(* made the file and the node.                                             *)
LEMMA OpensInCreate ==
  ASSUME VInv, [VfsNext]_vfs_vars, call # NULL, NEW fd \in Fd, ~IsOpen(fd), IsOpen(fd)'
  PROVE  /\ call.rest = <<>> /\ vfs_mounts' = vfs_mounts
         /\ \E x \in Node, f \in Inode :
              /\ f # -1 /\ ramfs_create(call.rel, f)
              /\ AddNode(x, call.current, NewNode(Trunc[call.token], FILE, f))
              /\ vfs_files'[fd].node = x
<1>1. vfs_files' # vfs_files /\ vfs_files[fd] = NULL /\ vfs_files'[fd] # NULL
  BY DEF IsOpen
<1>2. PICK r \in Fd \cup {-1} : CreateFile(r)
  <2>1. ~Names /\ ~Removals /\ ~Mounting /\ ~Bytes
    BY DEF Names, Removals, Mounting, Bytes, CreateEnter, vfs_open, vfs_mkdir, vfs_unlink,
           vfs_rmdir, vfs_mount, vfs_unmount, vfs_write, vfs_read, vfs_lseek, vfs_close
  <2>2. ~CreateDescend /\ ~CreateDir /\ ~UNCHANGED vfs_vars
    BY <1>1 DEF CreateDescend, CreateDir, vfs_vars
  <2> QED BY <2>1, <2>2 DEF VfsNext, VfsCreate
<1>3. PICK f \in Inode \cup {-1} :
        /\ ramfs_create(call.rel, f)
        /\ \/ /\ f # -1
              /\ \E x \in Node :
                   /\ AddNode(x, call.current, NewNode(Trunc[call.token], FILE, f))
                   /\ OpenFd(x, r)
           \/ UNCHANGED vfs_files
  BY <1>1, <1>2 DEF CreateFile
<1>4. PICK x \in Node : /\ f # -1
                        /\ AddNode(x, call.current, NewNode(Trunc[call.token], FILE, f))
                        /\ OpenFd(x, r)
  BY <1>1, <1>3
<1>5. vfs_files'[fd].node = x
  <2>1. vfs_files' = [vfs_files EXCEPT ![r] = [node |-> x, offset |-> 0]]
    BY <1>1, <1>4 DEF OpenFd
  <2>2. vfs_files'[fd] = [node |-> x, offset |-> 0]
    BY <1>1, <2>1 DEF VInv, Shapes, FilesShape
  <2> QED BY <2>2
<1>6. call.rest = <<>> /\ vfs_mounts' = vfs_mounts
  BY <1>2 DEF CreateFile
<1> QED BY <1>3, <1>4, <1>5, <1>6

(* What the descriptors that vfs_create returns are of: the invariant that *)
(* speaks of the path walked, the node it has led to and the mount.        *)
PathInv ==
  VInv /\ SiblingNames /\ UniqueNames /\ WalkInv /\ CurrentWalk /\ MountPaths

(* Each part of it is kept with the help of the others.                    *)
LEMMA PathInvKept ==
  ASSUME \A n \in Name : Trunc[n] = n, ShortPaths, PathInv, [VfsNext]_vfs_vars
  PROVE  PathInv'
<1>1. VInv /\ SiblingNames /\ UniqueNames /\ WalkInv /\ CurrentWalk /\ MountPaths
  BY DEF PathInv
<1>2. VInv' /\ SiblingNames' /\ WalkInv' /\ CurrentWalk' /\ MountPaths'
  BY <1>1, VfsNextInvariant, SiblingNamesKept, WalkInvKept, CurrentWalkKept, MountPathsKept
<1>3. UniqueNames'
  <2>1. IInv /\ RamfsStep
    BY <1>1, RamfsSteps DEF VInv
  <2> QED BY <1>1, <2>1, UniqueNamesKept DEF RamfsStep
<1> QED BY <1>2, <1>3 DEF PathInv

(* The step that opens the descriptor.                                     *)
LEMMA OpensItsPath ==
  ASSUME \A n \in Name : Trunc[n] = n, PlainPaths, PathInv, PathInv', [VfsNext]_vfs_vars,
         NEW fd \in Fd, NEW p \in InPath, call # NULL, MountsOf(p) # {},
         call.mount = find_mount(p), call.rel = RelPath(p), ~IsOpen(fd), IsOpen(fd)'
  PROVE  /\ vfs_resolve(p)' = vfs_files'[fd].node
         /\ ramfs_find_inode(RelPath(p))' = FsFd(fd)'
         /\ IsFile(FsFd(fd))'
<1>1. VInv /\ SiblingNames /\ UniqueNames /\ WalkInv /\ CurrentWalk /\ MountPaths
      /\ VInv' /\ SiblingNames'
  BY DEF PathInv
<1>2. PICK rel \in Seq(Part) : rel = RelPath(p) /\ rel # <<>>
  BY <1>1, RelPathPlain
<1>3. call.rest = <<>> /\ vfs_mounts' = vfs_mounts
  BY <1>1, OpensInCreate
<1>4. PICK x \in Node, f \in Inode :
        /\ f # -1 /\ ramfs_create(rel, f)
        /\ AddNode(x, call.current, NewNode(Trunc[call.token], FILE, f))
        /\ vfs_files'[fd].node = x
  BY <1>1, <1>2, OpensInCreate
<1>5. /\ Ends(inodes', rel) = f /\ inodes'[f].used /\ inodes'[f].type = FILE
  BY <1>1, <1>2, <1>4, CreatedFile DEF VInv
<1>6. Grows(nodes, nodes', live, call.current, call.token, x) /\ nodes'[x].fs_fd = f
  <2>1. f \in Int
    BY TableAssumption DEF Inode
  <2> QED BY <1>1, <1>4, <2>1, AddGrows
<1>7. Append(call.current_path, call.token) = rel /\ Tokens(rel) = rel
  <2>1. Tokens(rel) = rel
    BY TokensAre
  <2>2. Append(call.current_path, call.token) \o <<>> = rel
    BY <1>1, <1>2, <1>3, <2>1 DEF WalkInv
  <2>3. Append(call.current_path, call.token) \in Seq(Name)
    BY <1>1, AppendProperties DEF VInv, Shapes, CallShape
  <2> QED BY <2>1, <2>2, <2>3, ConcatEmptySeq
<1>8. WalkIn(nodes', vfs_mounts[call.mount].node, rel) = x
  BY <1>1, <1>6, <1>7, WalkToNew
<1>9. vfs_resolve(p)' = x
  <2>1. /\ MountsIn(vfs_mounts, p) # {} /\ MountIn(vfs_mounts, p) = call.mount
        /\ RelIn(vfs_mounts, p) = rel
    BY <1>2, MountIs
  <2>2. ResolveIn(vfs_mounts, nodes', p) = x
    BY <1>7, <1>8, <2>1 DEF ResolveIn
  <2> QED BY <1>3, <2>2, ResolveIs
<1>10. ramfs_find_inode(RelPath(p))' = f
  <2>1. RelPath(p)' = rel
    BY <1>2, <1>3, MountIs
  <2>2. ramfs_find_inode(RelPath(p))' = Ends(inodes', RelPath(p)')
    BY LookupEnds
  <2> QED BY <1>5, <2>1, <2>2
<1>11. FsFd(fd)' = f
  BY <1>4, <1>6 DEF FsFd
<1>12. IsFile(FsFd(fd))'
  BY <1>5, <1>11 DEF IsFile, Found, NoInode
<1> QED BY <1>4, <1>9, <1>10, <1>11, <1>12

(* For paths of one to three parts, none of them empty and none a mount's, *)
(* and if no name is cut: a descriptor that vfs_create returns is of the   *)
(* path it was given, in the tree of nodes and in ramfs.                   *)
THEOREM OpensCorrect ==
  ASSUME \A n \in Name : Trunc[n] = n, ShortPaths, PlainPaths
  PROVE  VfsSpec => CreateOpensPath
<1>1. VfsInit => PathInv
  <2>1. ramfs_init => UniqueNames
    BY DEF ramfs_init, FreshInode, UniqueNames, Entry
  <2>2. vfs_init => SiblingNames /\ WalkInv /\ CurrentWalk /\ MountPaths
    BY DEF vfs_init, SiblingNames, WalkInv, CurrentWalk, MountPaths
  <2> QED BY <2>1, <2>2, VfsInitInvariant DEF VfsInit, PathInv
<1>2. PathInv /\ [VfsNext]_vfs_vars => PathInv'
  BY PathInvKept
<1> DEFINE Opens ==
      \A fd \in Fd, p \in InPath :
        /\ call # NULL /\ MountsOf(p) # {}
        /\ call.mount = find_mount(p) /\ call.rel = RelPath(p)
        /\ ~IsOpen(fd) /\ IsOpen(fd)'
        => /\ vfs_resolve(p)' = vfs_files'[fd].node
           /\ ramfs_find_inode(RelPath(p))' = FsFd(fd)'
           /\ IsFile(FsFd(fd))'
<1>3. PathInv /\ PathInv' /\ [VfsNext]_vfs_vars => Opens
  BY OpensItsPath
<1>4. CreateOpensPath <=> [][Opens]_vfs_vars
  BY DEF CreateOpensPath
<1> HIDE DEF Opens
<1> QED BY <1>1, <1>2, <1>3, <1>4, PTL DEF VfsSpec

-----------------------------------------------------------------------------
(* What the tree of nodes takes for a file.  As long as nothing is removed *)
(* ramfs has it at the same path: a descriptor made from the node reads    *)
(* and writes that file.  The bytes at address 0, which vfs_create takes   *)
(* for the token of a path without any, are the name of no part.           *)

Plain == Part \ {NullName}

(* A call without tokens has that name in its hand and takes no turn.      *)
EmptyCall ==
  call # NULL =>
    /\ call.rel \in Seq(Plain)
    /\ call.rel = <<>> => /\ call.token = NullName
                          /\ call.current_path = <<>> /\ call.rest = <<>>

RootsAreDirs == \A r \in Roots : nodes[r].type = DIR

Backed ==
  \A r \in Roots, ts \in Seq(Plain) :
    WalkIn(nodes, r, ts) # NULL /\ nodes[WalkIn(nodes, r, ts)].type = FILE =>
      /\ nodes[WalkIn(nodes, r, ts)].fs_fd = Ends(inodes, ts)
      /\ Ends(inodes, ts) \in Inode
      /\ inodes[Ends(inodes, ts)].type = FILE

(* A path of plain parts has no others below its mount.                    *)
LEMMA RelPathOf ==
  ASSUME MountsShape, NEW S \in SUBSET Name, NEW p \in Seq(S), MountsOf(p) # {}
  PROVE  RelPath(p) \in Seq(S)
<1>1. p \in Seq(Name)
  BY SeqMonotonic
<1>2. PICK path \in Seq(Name) : path = vfs_mounts[find_mount(p)].mount_path
  BY <1>1, MountFacts DEF Mount
<1>3. PICK n, len \in Nat : n = Len(path) /\ len = Len(p)
  BY <1>1, <1>2, LenProperties
<1>4. RelPath(p) = SubSeq(p, n + 1, len)
  BY <1>2, <1>3 DEF RelPath
<1>5. n + 1 \in Int /\ len \in Int /\ \A i \in n + 1 .. len : p[i] \in S
  BY <1>3, ElementOfSeq
<1> QED BY <1>4, <1>5, SubSeqProperties

(* Allocated nodes have allocated children.                                *)
LEMMA LiveClosed ==
  ASSUME VInv
  PROVE  Closed(nodes, live) /\ Roots \subseteq live
BY DEF Closed, VInv, Shapes, TreeShape, VNode, NodesHeld, Children, Child, MountsLive, Roots

(* Two walks from the roots that end at one node are one walk.             *)
LEMMA WalkUnique ==
  ASSUME VInv
  PROVE  \A q \in Seq(Name) : \A r, r2 \in Roots, q2 \in Seq(Name) :
           WalkIn(nodes, r, q) = WalkIn(nodes, r2, q2) /\ WalkIn(nodes, r, q) # NULL
             => r = r2 /\ q = q2
<1> DEFINE S == {q \in Seq(Name) : \A r, r2 \in Roots, q2 \in Seq(Name) :
                   WalkIn(nodes, r, q) = WalkIn(nodes, r2, q2) /\ WalkIn(nodes, r, q) # NULL
                     => r = r2 /\ q = q2}
<1>1. /\ Closed(nodes, live) /\ Roots \subseteq live /\ NULL \notin live
      /\ \A y \in live : nodes[y].children \in Seq(Node)
  BY LiveClosed, VfsAssumption DEF Closed
<1>2. \A r \in Roots, q \in Seq(Name) : WalkIn(nodes, r, q) \in live \cup {NULL}
  BY <1>1, WalkStays
<1>3. ASSUME NEW r \in Roots, NEW o \in Seq(Name), NEW m \in Name,
             WalkIn(nodes, r, Append(o, m)) # NULL
      PROVE  /\ WalkIn(nodes, r, o) \in live
             /\ \E k \in Children(WalkIn(nodes, r, o)) :
                  /\ WalkIn(nodes, r, Append(o, m)) = Child(WalkIn(nodes, r, o), k)
                  /\ nodes[Child(WalkIn(nodes, r, o), k)].name = m
  <2>1. /\ WalkIn(nodes, r, o) # NULL
        /\ WalkIn(nodes, r, Append(o, m)) = ChildIn(nodes, WalkIn(nodes, r, o), m)
    BY <1>3, WalkAppend
  <2>2. PICK y \in live : y = WalkIn(nodes, r, o)
    BY <1>2, <2>1
  <2>3. \E k \in DOMAIN nodes[y].children :
           /\ ChildIn(nodes, y, m) = nodes[y].children[k]
           /\ nodes[nodes[y].children[k]].name = m
    BY <1>1, <1>3, <2>1, <2>2, ChildInFound
  <2> QED BY <2>1, <2>2, <2>3 DEF Children, Child
<1>4. \A r \in Roots, o \in Seq(Name), m \in Name :
        WalkIn(nodes, r, Append(o, m)) \notin Roots \/ WalkIn(nodes, r, Append(o, m)) = NULL
  BY <1>3 DEF VInv, NodesHeld
<1>5. \A r \in Roots : WalkIn(nodes, r, <<>>) = r
  BY WalkEmpty
<1>6. <<>> \in S
  <2>1. ASSUME NEW r \in Roots, NEW r2 \in Roots, NEW q2 \in Seq(Name),
               WalkIn(nodes, r, <<>>) = WalkIn(nodes, r2, q2)
        PROVE  r = r2 /\ <<>> = q2
    <3>1. CASE q2 = <<>>
      BY <1>5, <2>1, <3>1
    <3>2. CASE q2 # <<>>
      <4>1. PICK o \in Seq(Name), m \in Name : q2 = Append(o, m)
        BY <3>2, SequenceEmptyOrAppend
      <4> QED BY <1>1, <1>4, <1>5, <2>1, <4>1
    <3> QED BY <3>1, <3>2
  <2> QED BY <2>1, EmptySeq
<1>7. ASSUME NEW o \in Seq(Name), NEW m \in Name, o \in S
      PROVE  Append(o, m) \in S
  <2>1. ASSUME NEW r \in Roots, NEW r2 \in Roots, NEW q2 \in Seq(Name),
               WalkIn(nodes, r, Append(o, m)) = WalkIn(nodes, r2, q2),
               WalkIn(nodes, r, Append(o, m)) # NULL
        PROVE  r = r2 /\ Append(o, m) = q2
    <3>1. CASE q2 = <<>>
      BY <1>4, <1>5, <2>1, <3>1
    <3>2. CASE q2 # <<>>
      <4>1. PICK o2 \in Seq(Name), m2 \in Name : q2 = Append(o2, m2)
        BY <3>2, SequenceEmptyOrAppend
      <4>2. PICK y \in live : y = WalkIn(nodes, r, o)
        BY <1>3, <2>1
      <4>3. PICK y2 \in live : y2 = WalkIn(nodes, r2, o2)
        BY <1>3, <2>1, <4>1
      <4>4. PICK j \in Children(y) : /\ WalkIn(nodes, r, Append(o, m)) = Child(y, j)
                                     /\ nodes[Child(y, j)].name = m
        BY <1>3, <2>1, <4>2
      <4>5. PICK k \in Children(y2) : /\ WalkIn(nodes, r2, Append(o2, m2)) = Child(y2, k)
                                      /\ nodes[Child(y2, k)].name = m2
        BY <1>3, <2>1, <4>1, <4>3
      <4>6. Child(y, j) = Child(y2, k) /\ m = m2
        BY <2>1, <4>1, <4>4, <4>5
      <4>7. y = y2
        BY <4>6 DEF VInv, NodesHeld
      <4>8. r = r2 /\ o = o2
        BY <1>1, <1>7, <4>2, <4>3, <4>7
      <4> QED BY <4>1, <4>6, <4>8
    <3> QED BY <3>1, <3>2
  <2>2. Append(o, m) \in Seq(Name)
    BY AppendProperties
  <2> QED BY <2>1, <2>2
<1>8. Seq(Name) \subseteq S
  <2> HIDE DEF S
  <2> QED BY <1>6, <1>7, PathInduction
<1> QED BY <1>8

PlainNames == InPath \subseteq Seq(Plain)

(* A path without tokens takes no turn of the loop.                        *)
LEMMA EmptyCallKept ==
  ASSUME PlainNames, VInv, EmptyCall, [VfsNext]_vfs_vars
  PROVE  EmptyCall'
<1>1. MountsShape /\ CallShape
  BY DEF VInv, Shapes
<1>2. CASE UNCHANGED vfs_vars
  BY <1>2 DEF EmptyCall, vfs_vars
<1>3. CASE call' = NULL
  BY <1>3 DEF EmptyCall
<1>4. ASSUME NEW p \in InPath, CreateEnter(p)
      PROVE  EmptyCall'
  <2>1. PICK rel \in Seq(Plain) : rel = RelPath(p)
    <3>1. p \in Seq(Plain) /\ MountsOf(p) # {} /\ Plain \subseteq Name
      BY <1>4 DEF PlainNames, CreateEnter, Plain, Part
    <3> QED BY <1>1, <3>1, RelPathOf
  <2>2. Tokens(rel) = rel
    <3>1. rel \in Seq(Part)
      BY SeqMonotonic DEF Plain
    <3> QED BY <3>1, TokensAre
  <2>3. /\ call'.rel = rel /\ call'.current_path = <<>>
        /\ rel = <<>> => call'.token = NullName /\ call'.rest = <<>>
    BY <1>4, <2>1, <2>2 DEF CreateEnter
  <2> QED BY <2>3 DEF EmptyCall
<1>5. ASSUME InLoop, NEW child, NEW rest, NextToken(child, rest)
      PROVE  EmptyCall'
  <2>1. call'.rel = call.rel
    BY <1>1, <1>5 DEF CallShape, InLoop, NextToken
  <2> QED BY <1>5, <2>1 DEF EmptyCall, InLoop
<1> QED BY <1>2, <1>3, <1>4, <1>5, CallSteps DEF CreateDescend, CreateDir

(* The steps that add a node, told apart by what they add.                 *)
DirStep ==
  /\ call # NULL /\ vfs_mounts' = vfs_mounts
  /\ \E x \in Node, g \in Garbage : AddNode(x, call.current, NewNode(Trunc[call.token], DIR, g))

FileStep ==
  /\ call # NULL /\ call.rest = <<>> /\ vfs_mounts' = vfs_mounts
  /\ \E x \in Node, f \in Inode :
       /\ f # -1 /\ ramfs_create(call.rel, f)
       /\ AddNode(x, call.current, NewNode(Trunc[call.token], FILE, f))

(* A step adds a directory or a file, mounts, unmounts or leaves the nodes *)
(* alone.                                                                  *)
LEMMA AddSteps ==
  ASSUME VInv, [VfsNext]_vfs_vars
  PROVE  \/ UNCHANGED <<vfs_mounts, nodes, live>>
         \/ DirStep
         \/ FileStep
         \/ \E p \in InMount : vfs_mount(p)
         \/ \E p \in InUnmount : vfs_unmount(p)
<1>1. CASE CreateDir
  BY <1>1 DEF CreateDir, InLoop, DirStep
<1>2. ASSUME NEW r, CreateFile(r)
      PROVE  UNCHANGED <<vfs_mounts, nodes, live>> \/ FileStep
  <2>1. call # NULL /\ call.rest = <<>> /\ vfs_mounts' = vfs_mounts
    BY <1>2 DEF CreateFile
  <2>2. CASE \E fs_fd \in Inode \cup {-1} :
               /\ ramfs_create(call.rel, fs_fd) /\ fs_fd # -1
               /\ \E x \in Node : AddNode(x, call.current, NewNode(Trunc[call.token], FILE, fs_fd))
    BY <2>1, <2>2 DEF FileStep
  <2> QED BY <1>2, <2>1, <2>2 DEF CreateFile
<1>3. CASE CreateDescend
  BY <1>3 DEF CreateDescend
<1>4. CASE Names
  BY <1>4 DEF Names, CreateEnter, vfs_open, vfs_mkdir
<1>5. CASE Removals
  BY <1>5 DEF Removals, vfs_unlink, vfs_rmdir
<1>6. CASE Bytes
  BY <1>6 DEF Bytes, vfs_read, vfs_write, vfs_lseek, vfs_close
<1>7. CASE UNCHANGED vfs_vars
  BY <1>7 DEF vfs_vars
<1> QED BY <1>1, <1>2, <1>3, <1>4, <1>5, <1>6, <1>7 DEF VfsNext, VfsCreate, Mounting

(* The root that a mount adds has nothing below it.                        *)
LEMMA MountAdds ==
  ASSUME VInv, NEW p \in InMount, vfs_mount(p)
  PROVE  \E x \in Node \ live :
           /\ Roots' = Roots \cup {x} /\ live' = live \cup {x}
           /\ nodes'[x].type = DIR /\ nodes'[x].children = <<>>
           /\ \A y \in live : nodes'[y] = nodes[y]
<1>1. PICK x \in Node \ live, g \in Garbage :
        /\ live' = live \cup {x}
        /\ nodes' = [nodes EXCEPT ![x] = NewNode(Empty, DIR, g)]
        /\ vfs_mounts' = Append(vfs_mounts, [mount_path |-> p, node |-> x])
  BY DEF vfs_mount
<1>2. PICK n \in Nat : /\ n = Len(vfs_mounts) /\ DOMAIN vfs_mounts = 1 .. n
                       /\ vfs_mounts \in Seq(Mount)
  BY LenProperties DEF VInv, Shapes, MountsShape
<1>3. PICK root \in Mount : root = [mount_path |-> p, node |-> x]
  <2>1. p \in Seq(Name \ {Empty})
    BY VfsAssumption
  <2>2. p \in Seq(Name)
    BY <2>1, SeqMonotonic
  <2> QED BY <2>2 DEF Mount
<1>4. /\ vfs_mounts' \in Seq(Mount) /\ Len(vfs_mounts') = n + 1
      /\ \A m \in 1 .. n : vfs_mounts'[m] = vfs_mounts[m]
      /\ vfs_mounts'[n + 1] = root
  BY <1>1, <1>2, <1>3, AppendProperties
<1>5. DOMAIN vfs_mounts' = 1 .. n + 1
  BY <1>4, LenProperties
<1>6. Roots' = Roots \cup {x}
  <2>1. Roots' = {vfs_mounts'[m].node : m \in 1 .. n + 1}
    BY <1>5 DEF Roots
  <2>2. Roots = {vfs_mounts'[m].node : m \in 1 .. n}
    BY <1>2, <1>4 DEF Roots
  <2>3. vfs_mounts'[n + 1].node = x
    BY <1>3, <1>4
  <2>4. 1 .. n + 1 = (1 .. n) \cup {n + 1}
    OBVIOUS
  <2> QED BY <2>1, <2>2, <2>3, <2>4
<1>7. nodes'[x].type = DIR /\ nodes'[x].children = <<>> /\ \A y \in live : nodes'[y] = nodes[y]
  BY <1>1 DEF VInv, Shapes, TreeShape, NewNode
<1> QED BY <1>1, <1>6, <1>7

(* Unmounting takes a root away and changes no node.                       *)
LEMMA UnmountTakes ==
  ASSUME VInv, NEW p \in InUnmount, vfs_unmount(p)
  PROVE  Roots' \subseteq Roots /\ nodes' = nodes
<1>1. PICK n \in Nat : /\ n = Len(vfs_mounts) /\ DOMAIN vfs_mounts = 1 .. n
                       /\ vfs_mounts \in Seq(Mount)
  BY LenProperties DEF VInv, Shapes, MountsShape
<1>2. PICK m \in 1 .. n : vfs_mounts' = RemoveAt(vfs_mounts, m)
  <2>1. p \in Seq(Name \ {Empty})
    BY VfsAssumption
  <2>2. p \in Seq(Name)
    BY <2>1, SeqMonotonic
  <2>3. find_mount(p) \in 1 .. n
    BY <1>1, <2>2, MountFacts DEF VInv, Shapes, vfs_unmount
  <2> QED BY <2>3 DEF vfs_unmount
<1>3. /\ vfs_mounts' \in Seq(Mount) /\ Len(vfs_mounts') = n - 1
      /\ \A i \in 1 .. n - 1 : vfs_mounts'[i] = vfs_mounts[IF i < m THEN i ELSE i + 1]
  BY <1>1, <1>2, RemoveAtProperties
<1>4. DOMAIN vfs_mounts' = 1 .. n - 1
  BY <1>3, LenProperties
<1>5. \A i \in 1 .. n - 1 : (IF i < m THEN i ELSE i + 1) \in 1 .. n
  BY <1>2
<1> QED BY <1>1, <1>3, <1>4, <1>5 DEF Roots, vfs_unmount

(* A node keeps its type, and a new root is a directory.                   *)
LEMMA RootsAreDirsKept ==
  ASSUME \A n \in Name : Trunc[n] = n, VInv, SiblingNames, RootsAreDirs, [VfsNext]_vfs_vars
  PROVE  RootsAreDirs'
<1>1. VInv' /\ SiblingNames' /\ Roots \subseteq live
  BY VfsNextInvariant, SiblingNamesKept, LiveClosed
<1>2. CASE UNCHANGED <<vfs_mounts, nodes, live>>
  BY <1>2 DEF RootsAreDirs, Roots
<1>3. CASE DirStep \/ FileStep
  <2>1. PICK x \in Node, type \in {FILE, DIR}, fs_fd \in Int :
          AddNode(x, call.current, NewNode(Trunc[call.token], type, fs_fd))
    <3>1. CASE DirStep
      <4>1. PICK x \in Node, g \in Garbage :
              AddNode(x, call.current, NewNode(Trunc[call.token], DIR, g))
        BY <3>1 DEF DirStep
      <4>2. g \in Int
        BY VfsAssumption
      <4> QED BY <4>1, <4>2
    <3>2. CASE FileStep
      <4>1. PICK x \in Node, f \in Inode :
              AddNode(x, call.current, NewNode(Trunc[call.token], FILE, f))
        BY <3>2 DEF FileStep
      <4>2. f \in Int
        BY TableAssumption DEF Inode
      <4> QED BY <4>1, <4>2
    <3> QED BY <1>3, <3>1, <3>2
  <2>2. call # NULL /\ vfs_mounts' = vfs_mounts
    BY <1>3 DEF DirStep, FileStep
  <2>3. \A y \in live : nodes'[y].type = nodes[y].type
    BY <1>1, <2>1, <2>2, AddGrows
  <2> QED BY <1>1, <2>2, <2>3 DEF RootsAreDirs, Roots
<1>4. ASSUME NEW p \in InMount, vfs_mount(p)
      PROVE  RootsAreDirs'
  BY <1>1, <1>4, MountAdds DEF RootsAreDirs
<1>5. ASSUME NEW p \in InUnmount, vfs_unmount(p)
      PROVE  RootsAreDirs'
  BY <1>5, UnmountTakes DEF RootsAreDirs
<1> QED BY <1>2, <1>3, <1>4, <1>5, AddSteps

(* The file and the node that a vfs_create makes are at one path, and no   *)
(* other walk leads to that node.                                          *)
LEMMA NewFileBacked ==
  ASSUME \A n \in Name : Trunc[n] = n, VInv, SiblingNames, UniqueNames, WalkInv, CurrentWalk,
         EmptyCall, VInv', SiblingNames', FileStep,
         NEW r \in Roots, NEW q \in Seq(Name), WalkIn(nodes, r, q) = call.current,
         Append(q, call.token) \in Seq(Plain)
  PROVE  \E x \in Node, f \in Inode :
           /\ Grows(nodes, nodes', live, call.current, call.token, x)
           /\ nodes'[x].fs_fd = f /\ Ends(inodes', Append(q, call.token)) = f
           /\ inodes'[f].type = FILE
<1>1. PICK rel \in Seq(Plain) : rel = call.rel
  BY DEF EmptyCall, FileStep
<1>2. rel \in Seq(Part) /\ Tokens(rel) = rel
  <2>1. rel \in Seq(Part)
    BY SeqMonotonic DEF Plain
  <2> QED BY <2>1, TokensAre
<1>3. /\ call # NULL /\ call.rest = <<>> /\ call.token \in Name
      /\ call.current_path \in Seq(Name) /\ call.current \in live /\ NULL \notin live
  BY VfsAssumption DEF FileStep, VInv, Shapes, CallShape, CurrentLive, TreeShape
<1>4. call.token \in Plain
  <2>1. /\ Append(q, call.token) \in Seq(Name) /\ Len(q) + 1 \in 1 .. Len(Append(q, call.token))
        /\ Append(q, call.token)[Len(q) + 1] = call.token
    BY <1>3, AppendProperties, LenProperties
  <2> QED BY <2>1, ElementOfSeq
<1>5. rel # <<>>
  BY <1>1, <1>3, <1>4 DEF EmptyCall, Plain
<1>6. Append(call.current_path, call.token) = rel
  <2>1. Append(call.current_path, call.token) \o <<>> = rel
    BY <1>1, <1>2, <1>3, <1>5 DEF WalkInv
  <2>2. Append(call.current_path, call.token) \in Seq(Name)
    BY <1>3, AppendProperties
  <2> QED BY <2>1, <2>2, ConcatEmptySeq
<1>7. q = call.current_path
  <2>1. /\ vfs_mounts[call.mount].node \in Roots
        /\ WalkIn(nodes, vfs_mounts[call.mount].node, call.current_path) = call.current
    BY <1>3 DEF CurrentWalk, Roots
  <2> QED BY <1>3, <2>1, WalkUnique
<1>8. PICK x \in Node, f \in Inode :
        /\ f # -1 /\ ramfs_create(rel, f)
        /\ AddNode(x, call.current, NewNode(Trunc[call.token], FILE, f))
  BY <1>1 DEF FileStep
<1>9. Ends(inodes', rel) = f /\ inodes'[f].type = FILE
  BY <1>2, <1>5, <1>8, CreatedFile DEF VInv
<1>10. Grows(nodes, nodes', live, call.current, call.token, x) /\ nodes'[x].fs_fd = f
  <2>1. f \in Int
    BY TableAssumption DEF Inode
  <2> QED BY <1>3, <1>8, <2>1, AddGrows
<1> QED BY <1>6, <1>7, <1>9, <1>10

(* Two nodes that grow one tree are one.                                   *)
LEMMA OneGrows ==
  ASSUME NEW N, NEW M, NEW L, NEW parent, NEW n, NEW x, NEW y,
         Grows(N, M, L, parent, n, x), Grows(N, M, L, parent, n, y)
  PROVE  x = y
<1>1. ChildIn(M, parent, n) = x /\ parent \in L
  BY ChildGrows DEF Grows
<1>2. ChildIn(M, parent, n) = y
  BY ChildGrows DEF Grows
<1> QED BY <1>1, <1>2

(* A new node is a directory or has its file at its own path; what was there*)
(* stays where it was in both trees.                                       *)
LEMMA BackedKept ==
  ASSUME \A n \in Name : Trunc[n] = n, InRemove = {}, VInv, SiblingNames, UniqueNames, WalkInv,
         CurrentWalk, EmptyCall, RootsAreDirs, Backed, VInv', SiblingNames', [VfsNext]_vfs_vars
  PROVE  Backed'
<1>1. /\ GrowStep /\ Roots \subseteq live /\ Closed(nodes, live) /\ NULL \notin live
      /\ Seq(Plain) \subseteq Seq(Part) /\ Seq(Plain) \subseteq Seq(Name)
  BY RamfsSteps, LiveClosed, SeqMonotonic, VfsAssumption DEF Closed, Plain, Part
<1>2. \A ts \in Seq(Plain) : Ends(inodes, ts) # NoInode =>
           /\ Ends(inodes', ts) = Ends(inodes, ts)
           /\ inodes'[Ends(inodes, ts)].type = inodes[Ends(inodes, ts)].type
  BY <1>1, EndsKept DEF VInv
<1>3. NoInode \notin Inode
  BY TableAssumption DEF NoInode, Inode
(* A walk that ends where it did, at a node that has not changed.          *)
<1>4. ASSUME NEW r \in Roots, NEW ts \in Seq(Plain), NEW y \in live,
             WalkIn(nodes, r, ts) = y, nodes[y].type = FILE,
             nodes'[y].fs_fd = nodes[y].fs_fd
      PROVE  /\ nodes'[y].fs_fd = Ends(inodes', ts)
             /\ Ends(inodes', ts) \in Inode /\ inodes'[Ends(inodes', ts)].type = FILE
  <2>1. y # NULL
    BY <1>1
  <2>2. /\ nodes[y].fs_fd = Ends(inodes, ts) /\ Ends(inodes, ts) \in Inode
        /\ inodes[Ends(inodes, ts)].type = FILE
    BY <1>4, <2>1 DEF Backed
  <2>3. Ends(inodes', ts) = Ends(inodes, ts) /\ inodes'[Ends(inodes, ts)].type = FILE
    BY <1>2, <1>3, <2>2
  <2> QED BY <1>4, <2>2, <2>3
<1>5. CASE UNCHANGED <<vfs_mounts, nodes, live>>
  <2>1. Roots' = Roots
    BY <1>5 DEF Roots
  <2>2. ASSUME NEW r \in Roots, NEW ts \in Seq(Plain)
        PROVE  WalkIn(nodes, r, ts) \in live \cup {NULL}
    <3>1. \A y \in live : nodes[y] = nodes[y]
      OBVIOUS
    <3> QED BY <1>1, <3>1, WalkStays
  <2> QED BY <1>4, <1>5, <2>1, <2>2 DEF Backed
<1>6. CASE DirStep \/ FileStep
  <2>1. PICK x \in Node, type \in {FILE, DIR}, fs_fd \in Int :
          /\ AddNode(x, call.current, NewNode(Trunc[call.token], type, fs_fd))
          /\ type = FILE => FileStep
    <3>1. CASE DirStep
      <4>1. PICK x \in Node, g \in Garbage :
              AddNode(x, call.current, NewNode(Trunc[call.token], DIR, g))
        BY <3>1 DEF DirStep
      <4>2. g \in Int /\ DIR # FILE
        BY VfsAssumption DEF DIR, FILE
      <4> QED BY <4>1, <4>2
    <3>2. CASE FileStep
      <4>1. PICK x \in Node, f \in Inode :
              AddNode(x, call.current, NewNode(Trunc[call.token], FILE, f))
        BY <3>2 DEF FileStep
      <4>2. f \in Int
        BY TableAssumption DEF Inode
      <4> QED BY <3>2, <4>1, <4>2
    <3> QED BY <1>6, <3>1, <3>2
  <2>2. call # NULL /\ Roots' = Roots
    BY <1>6 DEF DirStep, FileStep, Roots
  <2>3. /\ Grows(nodes, nodes', live, call.current, call.token, x) /\ nodes'[x].type = type
        /\ \A y \in live : nodes'[y].type = nodes[y].type /\ nodes'[y].fs_fd = nodes[y].fs_fd
    BY <2>1, <2>2, AddGrows
  <2>4. ASSUME NEW r \in Roots, NEW ts \in Seq(Plain), WalkIn(nodes', r, ts) # NULL,
               nodes'[WalkIn(nodes', r, ts)].type = FILE
        PROVE  /\ nodes'[WalkIn(nodes', r, ts)].fs_fd = Ends(inodes', ts)
               /\ Ends(inodes', ts) \in Inode /\ inodes'[Ends(inodes', ts)].type = FILE
    <3>1. \/ WalkIn(nodes, r, ts) \in live /\ WalkIn(nodes', r, ts) = WalkIn(nodes, r, ts)
          \/ /\ WalkIn(nodes', r, ts) = x
             /\ \E q \in Seq(Name) :
                  ts = Append(q, call.token) /\ WalkIn(nodes, r, q) = call.current
      BY <1>1, <2>3, <2>4, WalkGrows
    <3>2. CASE WalkIn(nodes, r, ts) \in live /\ WalkIn(nodes', r, ts) = WalkIn(nodes, r, ts)
      <4>1. PICK y \in live : y = WalkIn(nodes, r, ts)
        BY <3>2
      <4>2. nodes[y].type = FILE /\ nodes'[y].fs_fd = nodes[y].fs_fd
        BY <2>3, <2>4, <3>2, <4>1
      <4> QED BY <1>4, <3>2, <4>1, <4>2
    <3>3. ASSUME NEW q \in Seq(Name), ts = Append(q, call.token),
                 WalkIn(nodes, r, q) = call.current, WalkIn(nodes', r, ts) = x
          PROVE  /\ nodes'[x].fs_fd = Ends(inodes', ts)
                 /\ Ends(inodes', ts) \in Inode /\ inodes'[Ends(inodes', ts)].type = FILE
      <4>1. FileStep /\ Append(q, call.token) \in Seq(Plain)
        BY <2>1, <2>3, <2>4, <3>3
      <4>2. PICK y \in Node, f \in Inode :
              /\ Grows(nodes, nodes', live, call.current, call.token, y)
              /\ nodes'[y].fs_fd = f /\ Ends(inodes', ts) = f /\ inodes'[f].type = FILE
        BY <3>3, <4>1, NewFileBacked
      <4>3. x = y
        BY <2>3, <4>2, OneGrows
      <4> QED BY <4>2, <4>3
    <3> QED BY <3>1, <3>2, <3>3
  <2> QED BY <2>2, <2>4 DEF Backed
<1>7. ASSUME NEW p \in InMount, vfs_mount(p)
      PROVE  Backed'
  <2>1. PICK x \in Node \ live : /\ Roots' = Roots \cup {x}
                                 /\ nodes'[x].type = DIR /\ nodes'[x].children = <<>>
                                 /\ \A y \in live : nodes'[y] = nodes[y]
    BY <1>7, MountAdds
  <2>2. ASSUME NEW ts \in Seq(Name)
        PROVE  WalkIn(nodes', x, ts) \in {x, NULL}
    <3> DEFINE S == {q \in Seq(Name) : WalkIn(nodes', x, q) \in {x, NULL}}
    <3>1. <<>> \in S
      BY EmptySeq, WalkEmpty
    <3>2. \A m : ChildIn(nodes', x, m) = NULL
      <4>1. DOMAIN nodes'[x].children = {}
        BY <2>1
      <4> QED BY <4>1, ChildInNone
    <3>3. ASSUME NEW q \in Seq(Name), NEW m \in Name, q \in S
          PROVE  Append(q, m) \in S
      <4>1. Append(q, m) \in Seq(Name) /\ WalkIn(nodes', x, q) \in {x, NULL}
        BY <3>3, AppendProperties
      <4>2. WalkIn(nodes', x, Append(q, m)) =
              IF WalkIn(nodes', x, q) = NULL THEN NULL ELSE ChildIn(nodes', WalkIn(nodes', x, q), m)
        BY WalkAppend
      <4> QED BY <3>2, <4>1, <4>2
    <3>4. Seq(Name) \subseteq S
      <4> HIDE DEF S
      <4> QED BY <3>1, <3>3, PathInduction
    <3> QED BY <3>4
  <2>3. ASSUME NEW r \in Roots, NEW ts \in Seq(Plain)
        PROVE  WalkIn(nodes', r, ts) = WalkIn(nodes, r, ts) /\ WalkIn(nodes, r, ts) \in live \cup {NULL}
    BY <1>1, <2>1, WalkStays
  <2>4. ASSUME NEW r \in Roots', NEW ts \in Seq(Plain), WalkIn(nodes', r, ts) # NULL,
               nodes'[WalkIn(nodes', r, ts)].type = FILE
        PROVE  /\ nodes'[WalkIn(nodes', r, ts)].fs_fd = Ends(inodes', ts)
               /\ Ends(inodes', ts) \in Inode /\ inodes'[Ends(inodes', ts)].type = FILE
    <3>1. r # x
      BY <1>1, <2>1, <2>2, <2>4 DEF FILE, DIR
    <3>2. PICK y \in live : r \in Roots /\ y = WalkIn(nodes, r, ts) /\ y = WalkIn(nodes', r, ts)
      BY <2>1, <2>3, <2>4, <3>1
    <3>3. nodes'[y] = nodes[y]
      BY <2>1
    <3> QED BY <1>4, <2>4, <3>2, <3>3
  <2> QED BY <2>4 DEF Backed
<1>8. ASSUME NEW p \in InUnmount, vfs_unmount(p)
      PROVE  Backed'
  <2>1. Roots' \subseteq Roots /\ nodes' = nodes /\ inodes' = inodes
    BY <1>8, UnmountTakes DEF vfs_unmount
  <2> QED BY <2>1 DEF Backed
<1> QED BY <1>5, <1>6, <1>7, <1>8, AddSteps

BackedInv ==
  /\ VInv /\ SiblingNames /\ UniqueNames /\ WalkInv /\ CurrentWalk
  /\ EmptyCall /\ RootsAreDirs /\ Backed

(* For paths of at most three parts, if no name is cut and nothing is      *)
(* removed: what a path leads to in the tree of nodes as a file is a file  *)
(* at that path in ramfs, under the inode the node holds, whatever is      *)
(* mounted and unmounted meanwhile.                                        *)
THEOREM FilesCorrect ==
  ASSUME \A n \in Name : Trunc[n] = n, ShortPaths, PlainNames, InRemove = {}
  PROVE  VfsSpec => []FilesBacked
<1>1. VfsInit => BackedInv
  <2>1. ramfs_init => UniqueNames
    BY DEF ramfs_init, FreshInode, UniqueNames, Entry
  <2>2. vfs_init => /\ SiblingNames /\ WalkInv /\ CurrentWalk
                    /\ EmptyCall /\ RootsAreDirs /\ Backed
    BY DEF vfs_init, SiblingNames, WalkInv, CurrentWalk, EmptyCall, RootsAreDirs, Backed, Roots
  <2> QED BY <2>1, <2>2, VfsInitInvariant DEF VfsInit, BackedInv
<1>2. ASSUME BackedInv, [VfsNext]_vfs_vars
      PROVE  BackedInv'
  <2>1. /\ VInv /\ SiblingNames /\ UniqueNames /\ WalkInv /\ CurrentWalk
        /\ EmptyCall /\ RootsAreDirs /\ Backed
    BY <1>2 DEF BackedInv
  <2>2. VInv' /\ SiblingNames' /\ WalkInv' /\ CurrentWalk' /\ EmptyCall' /\ RootsAreDirs'
    BY <1>2, <2>1, VfsNextInvariant, SiblingNamesKept, WalkInvKept, CurrentWalkKept,
       EmptyCallKept, RootsAreDirsKept
  <2>3. UniqueNames'
    <3>1. IInv /\ RamfsStep
      BY <1>2, <2>1, RamfsSteps DEF VInv
    <3> QED BY <2>1, <3>1, UniqueNamesKept DEF RamfsStep
  <2>4. Backed'
    BY <1>2, <2>1, <2>2, BackedKept
  <2> QED BY <2>2, <2>3, <2>4 DEF BackedInv
<1>3. ASSUME BackedInv
      PROVE  FilesBacked
  <2>1. SUFFICES ASSUME NEW p \in InPath, vfs_resolve(p) # NULL,
                        nodes[vfs_resolve(p)].type = FILE
                 PROVE  /\ nodes[vfs_resolve(p)].fs_fd = ramfs_find_inode(RelPath(p))
                        /\ vfs_stat(p) # NULL /\ vfs_stat(p).type = FILE
    BY DEF FilesBacked
  <2>2. VInv /\ MountsShape /\ Backed /\ MountsOf(p) # {}
    BY <1>3, <2>1 DEF BackedInv, VInv, Shapes, vfs_resolve
  <2>3. p \in Seq(Plain) /\ Plain \subseteq Name /\ p \in Seq(Name)
    BY SeqMonotonic DEF PlainNames, Plain, Part
  <2>4. PICK rel \in Seq(Plain) : rel = RelPath(p)
    BY <2>2, <2>3, RelPathOf
  <2>5. Tokens(rel) = rel
    <3>1. rel \in Seq(Part)
      BY SeqMonotonic DEF Plain
    <3> QED BY <3>1, TokensAre
  <2>6. PICK r \in Roots : r = vfs_mounts[find_mount(p)].node
    BY <2>2, <2>3, MountFound DEF Roots, MountsOf
  <2>7. vfs_resolve(p) = WalkIn(nodes, r, rel)
    BY <2>2, <2>4, <2>5, <2>6, WalkIs DEF vfs_resolve
  <2>8. /\ nodes[vfs_resolve(p)].fs_fd = Ends(inodes, rel)
        /\ Ends(inodes, rel) \in Inode /\ inodes[Ends(inodes, rel)].type = FILE
    BY <2>1, <2>2, <2>7 DEF Backed
  <2>9. ramfs_find_inode(RelPath(p)) = Ends(inodes, rel)
    BY <2>4, LookupEnds
  <2>10. vfs_stat(p) = [type |-> FILE, size |-> Len(inodes[Ends(inodes, rel)].bytes)]
    BY <2>2, <2>8, <2>9 DEF vfs_stat, ramfs_stat
  <2>11. vfs_stat(p).type = FILE /\ vfs_stat(p) # NULL
    <3>1. vfs_stat(p).type = FILE
      BY <2>10
    <3>2. Len(inodes[Ends(inodes, rel)].bytes) \in Nat
      BY <2>2, <2>8, LenProperties DEF VInv, IInv, TypeOK, InodeRecord
    <3>3. vfs_stat(p) \in [type : {FILE, DIR}, size : Nat]
      BY <2>10, <3>2
    <3>4. vfs_stat(p) # NULL
      BY <3>3, VfsAssumption
    <3> QED BY <3>1, <3>4
  <2> QED BY <2>8, <2>9, <2>11
<1> QED BY <1>1, <1>2, <1>3, PTL DEF VfsSpec
=============================================================================
