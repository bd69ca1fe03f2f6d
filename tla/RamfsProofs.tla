---------------------------- MODULE RamfsProofs ----------------------------
(***************************************************************************)
(* Proofs about Ramfs, for every number of inodes, every set of names,     *)
(* bytes and buffers, and whatever calls are made in whatever order: the   *)
(* invariants of the inode table, and that it implements FsTree.           *)
(***************************************************************************)
EXTENDS RamfsTree, SequenceTheorems, FiniteSetTheorems, TLAPS, LeastNat

-----------------------------------------------------------------------------
(* The shift that removes an entry, and what a lookup along a path finds.  *)

(* The list that the shifting loops of ramfs_unlink and ramfs_rmdir leave. *)
LEMMA RemoveAtProperties ==
  ASSUME NEW S, NEW s \in Seq(S), NEW k \in 1 .. Len(s)
  PROVE  /\ RemoveAt(s, k) \in Seq(S)
         /\ Len(RemoveAt(s, k)) = Len(s) - 1
         /\ \A j \in 1 .. Len(s) - 1 :
              RemoveAt(s, k)[j] = IF j < k THEN s[j] ELSE s[j + 1]
<1> DEFINE front == SubSeq(s, 1, k - 1)
           back  == SubSeq(s, k + 1, Len(s))
<1>0. Len(s) \in Nat /\ k \in Int /\ k - 1 \in Int /\ k + 1 \in Int /\ Len(s) \in Int
  BY LenProperties
<1>1. /\ front \in Seq(S) /\ Len(front) = k - 1
      /\ \A i \in 1 .. k - 1 : front[i] = s[i]
  <2>1. \A i \in 1 .. k - 1 : s[i] \in S
    BY <1>0, ElementOfSeq
  <2> HIDE DEF front
  <2> QED BY <1>0, <2>1, SubSeqProperties DEF front
<1>2. /\ back \in Seq(S) /\ Len(back) = Len(s) - k
      /\ \A i \in 1 .. Len(s) - k : back[i] = s[k + i]
  <2>1. \A i \in k + 1 .. Len(s) : s[i] \in S
    BY <1>0, ElementOfSeq
  <2> QED BY <1>0, <2>1, SubSeqProperties
<1>3. RemoveAt(s, k) = front \o back
  BY DEF RemoveAt
<1> HIDE DEF front, back
<1>4. /\ front \o back \in Seq(S)
      /\ Len(front \o back) = Len(front) + Len(back)
      /\ \A i \in 1 .. Len(front) + Len(back) :
           (front \o back)[i] = IF i <= Len(front) THEN front[i] ELSE back[i - Len(front)]
  BY <1>1, <1>2, ConcatProperties
<1>5. Len(RemoveAt(s, k)) = Len(s) - 1
  BY <1>0, <1>1, <1>2, <1>3, <1>4
<1>6. ASSUME NEW j \in 1 .. Len(s) - 1
      PROVE  RemoveAt(s, k)[j] = IF j < k THEN s[j] ELSE s[j + 1]
  <2>1. RemoveAt(s, k)[j] = IF j <= k - 1 THEN front[j] ELSE back[j - (k - 1)]
    BY <1>0, <1>1, <1>2, <1>3, <1>4
  <2>2. CASE j < k
    BY <2>1, <2>2, <1>0, <1>1
  <2>3. CASE ~(j < k)
    BY <2>1, <2>3, <1>0, <1>2
  <2> QED BY <2>2, <2>3
<1> QED BY <1>3, <1>4, <1>5, <1>6

-----------------------------------------------------------------------------
(* Lookups.  ramfs_find_inode is a recursive function; the inductions      *)
(* below go by the least counterexample.                                   *)

(* The lookup of FindIn and of ramfs_find_inode in a table t.              *)
MatchesIn(t, d, n) ==
  {k \in 1 .. Len(t[d].entries) : t[d].entries[k].name = n}

FirstIn(t, d, n) == CHOOSE k \in MatchesIn(t, d, n) : \A j \in MatchesIn(t, d, n) : k <= j

StepIn(t, d, n) ==
  IF n = Empty THEN d
  ELSE IF d \in Inode /\ t[d].type = DIR /\ MatchesIn(t, d, n) # {}
       THEN t[d].entries[FirstIn(t, d, n)].inode_idx
       ELSE NoInode

Ends(t, p) ==
  LET current[k \in 0 .. Len(p)] == IF k = 0 THEN Root ELSE StepIn(t, current[k - 1], p[k])
  IN current[Len(p)]

(* So that what is shown of any table holds before and after a step.       *)
LEMMA LookupEnds ==
  ASSUME NEW p
  PROVE  /\ ramfs_find_inode(p) = Ends(inodes, p)
         /\ ramfs_find_inode(p)' = Ends(inodes', p)
<1>1. \A d, n : FindIn(d, n) = StepIn(inodes, d, n) /\ FindIn(d, n)' = StepIn(inodes', d, n)
  BY DEF FindIn, HasEntry, IsDir, Matches, FirstMatch, StepIn, MatchesIn, FirstIn
<1> QED BY <1>1 DEF ramfs_find_inode, Ends

Turn(t, f, p, k) == IF k = 0 THEN Root ELSE StepIn(t, f[k - 1], p[k])

IsWalk(t, f, p, n) == f = [k \in 0 .. n |-> Turn(t, f, p, k)]

(* A recursive definition along p defines a function.                      *)
LEMMA WalkExists ==
  ASSUME NEW t, NEW p
  PROVE  \A n \in Nat : \E f : IsWalk(t, f, p, n)
<1> DEFINE Bad == {n \in Nat : ~\E f : IsWalk(t, f, p, n)}
<1>1. SUFFICES ASSUME Bad # {} PROVE FALSE
  OBVIOUS
<1>2. PICK n \in Bad : \A j \in Bad : n <= j
  BY <1>1, LeastNatural
<1>3. CASE n = 0
  <2>1. IsWalk(t, [k \in 0 .. 0 |-> Root], p, 0)
    BY DEF IsWalk, Turn
  <2> QED BY <1>2, <1>3, <2>1
<1>4. CASE n # 0
  <2>1. n - 1 \in Nat /\ n - 1 \notin Bad
    BY <1>2, <1>4
  <2>2. PICK f : IsWalk(t, f, p, n - 1)
    BY <2>1
  <2> DEFINE g == [k \in 0 .. n |-> IF k = n THEN StepIn(t, f[n - 1], p[n]) ELSE f[k]]
  <2>3. \A k \in 0 .. n : g[k] = Turn(t, g, p, k)
    <3>1. \A k \in 0 .. n - 1 : f[k] = Turn(t, f, p, k)
      BY <2>2 DEF IsWalk
    <3> QED BY <3>1, <2>1, <1>4 DEF Turn
  <2>4. IsWalk(t, g, p, n)
    <3> HIDE DEF g
    <3>1. g = [k \in 0 .. n |-> g[k]]
      BY DEF g
    <3> QED BY <2>3, <3>1 DEF IsWalk
  <2> QED BY <1>2, <2>4
<1> QED BY <1>3, <1>4

(* The value of the lookup is where the walk along the path ends.          *)
LEMMA WalkOfPath ==
  ASSUME NEW t, NEW p \in Seq(Name)
  PROVE  \E f : IsWalk(t, f, p, Len(p)) /\ Ends(t, p) = f[Len(p)]
<1>1. \E f : IsWalk(t, f, p, Len(p))
  BY LenProperties, WalkExists
<1>2. Ends(t, p) =
        (CHOOSE f : f = [k \in 0 .. Len(p) |-> IF k = 0 THEN Root
                                               ELSE StepIn(t, f[k - 1], p[k])])[Len(p)]
  BY DEF Ends
<1> QED BY <1>1, <1>2 DEF IsWalk, Turn

(* The parts of two paths that agree are walked alike.                     *)
LEMMA WalksAgree ==
  ASSUME NEW t, NEW p, NEW q, NEW m \in Nat, NEW n \in Nat, m <= n,
         NEW f, IsWalk(t, f, p, m), NEW g, IsWalk(t, g, q, n),
         \A k \in 1 .. m : p[k] = q[k]
  PROVE  \A k \in 0 .. m : f[k] = g[k]
<1> DEFINE Bad == {k \in 0 .. m : f[k] # g[k]}
<1>1. SUFFICES ASSUME Bad # {} PROVE FALSE
  OBVIOUS
<1>2. PICK k \in Bad : \A j \in Bad : k <= j
  <2>1. Bad \in SUBSET Nat
    OBVIOUS
  <2> HIDE DEF Bad
  <2> QED BY <1>1, <2>1, LeastNatural
<1>3. f[k] = Turn(t, f, p, k) /\ g[k] = Turn(t, g, q, k)
  <2>1. k \in 0 .. m /\ k \in 0 .. n
    BY <1>2
  <2>2. \A j \in 0 .. m : f[j] = Turn(t, f, p, j)
    BY DEF IsWalk
  <2>3. \A j \in 0 .. n : g[j] = Turn(t, g, q, j)
    BY DEF IsWalk
  <2> QED BY <2>1, <2>2, <2>3
<1>4. k # 0 /\ k - 1 \in 0 .. m /\ k - 1 \notin Bad
  BY <1>2, <1>3 DEF Turn
<1>5. f[k - 1] = g[k - 1] /\ p[k] = q[k]
  BY <1>2, <1>4
<1> QED BY <1>2, <1>3, <1>4, <1>5 DEF Turn

(* A path leads where its last part leads from where the others lead.      *)
LEMMA EndsLast ==
  ASSUME NEW t, NEW p \in Seq(Name), p # <<>>
  PROVE  Ends(t, p) = StepIn(t, Ends(t, Dirname(p)), Basename(p))
<1>1. /\ Len(p) \in Nat \ {0}
      /\ Dirname(p) \in Seq(Name)
      /\ Len(Dirname(p)) = Len(p) - 1
      /\ \A k \in 1 .. Len(p) - 1 : Dirname(p)[k] = p[k]
      /\ Basename(p) = p[Len(p)]
  <2>1. Len(p) \in Nat \ {0}
    BY EmptySeq
  <2>2. Dirname(p) = SubSeq(p, 1, Len(p) - 1)
    BY DEF Dirname, Front
  <2>3. \A i \in 1 .. Len(p) - 1 : p[i] \in Name
    BY <2>1, ElementOfSeq
  <2>4. /\ SubSeq(p, 1, Len(p) - 1) \in Seq(Name)
        /\ Len(SubSeq(p, 1, Len(p) - 1)) = Len(p) - 1
        /\ \A i \in 1 .. Len(p) - 1 : SubSeq(p, 1, Len(p) - 1)[i] = p[i]
    <3>1. 1 \in Int /\ Len(p) - 1 \in Int
      BY <2>1
    <3>2. /\ SubSeq(p, 1, Len(p) - 1) \in Seq(Name)
          /\ Len(SubSeq(p, 1, Len(p) - 1)) =
               IF 1 <= Len(p) - 1 THEN (Len(p) - 1) - 1 + 1 ELSE 0
          /\ \A i \in 1 .. (Len(p) - 1) - 1 + 1 :
               SubSeq(p, 1, Len(p) - 1)[i] = p[1 + i - 1]
      BY <2>3, <3>1, SubSeqProperties
    <3>3. ASSUME NEW i \in 1 .. Len(p) - 1
          PROVE  i \in 1 .. (Len(p) - 1) - 1 + 1 /\ 1 + i - 1 = i
      BY <2>1
    <3>4. \A i \in 1 .. Len(p) - 1 : SubSeq(p, 1, Len(p) - 1)[i] = p[i]
      BY ONLY <3>2, <3>3
    <3>5. Len(SubSeq(p, 1, Len(p) - 1)) = Len(p) - 1
      <4>1. \A n \in Nat \ {0} : (IF 1 <= n - 1 THEN (n - 1) - 1 + 1 ELSE 0) = n - 1
        OBVIOUS
      <4> QED BY ONLY <2>1, <3>2, <4>1, Zenon
    <3> QED BY <3>2, <3>4, <3>5
  <2> QED BY <2>1, <2>2, <2>4 DEF Basename, Last
<1>2. PICK f : IsWalk(t, f, p, Len(p)) /\ Ends(t, p) = f[Len(p)]
  BY WalkOfPath
<1>3. PICK g : /\ IsWalk(t, g, Dirname(p), Len(p) - 1)
               /\ Ends(t, Dirname(p)) = g[Len(p) - 1]
  BY <1>1, WalkOfPath
<1>4. g[Len(p) - 1] = f[Len(p) - 1]
  <2>1. Len(p) - 1 \in Nat /\ Len(p) \in Nat /\ Len(p) - 1 <= Len(p)
    BY <1>1
  <2>2. IsWalk(t, g, Dirname(p), Len(p) - 1) /\ IsWalk(t, f, p, Len(p))
    BY <1>2, <1>3
  <2>3. \A k \in 0 .. Len(p) - 1 : g[k] = f[k]
    <3> DEFINE q == Dirname(p)
               m == Len(p) - 1
               n == Len(p)
    <3>1. /\ m \in Nat /\ n \in Nat /\ m <= n /\ IsWalk(t, g, q, m) /\ IsWalk(t, f, p, n)
          /\ \A k \in 1 .. m : q[k] = p[k]
      BY <1>1, <2>1, <2>2
    <3> HIDE DEF q, m, n
    <3>2. \A k \in 0 .. m : g[k] = f[k]
      BY ONLY <3>1, WalksAgree
    <3> QED BY <3>2 DEF m
  <2>4. Len(p) - 1 \in 0 .. Len(p) - 1
    BY <2>1
  <2> QED BY ONLY <2>3, <2>4
<1>5. f[Len(p)] = StepIn(t, f[Len(p) - 1], p[Len(p)])
  BY <1>1, <1>2 DEF IsWalk, Turn
<1> QED BY <1>1, <1>2, <1>3, <1>4, <1>5

(* ramfs_rmdir looks the directory up by its whole path and its entry up   *)
(* by the parent's path: the two lookups meet.                             *)
LEMMA LastTurn ==
  ASSUME NEW p \in Seq(Name), p # <<>>
  PROVE  ramfs_find_inode(p) = FindIn(ramfs_find_inode(Dirname(p)), Basename(p))
<1>1. \A d, n : FindIn(d, n) = StepIn(inodes, d, n)
  BY DEF FindIn, HasEntry, IsDir, Matches, FirstMatch, StepIn, MatchesIn, FirstIn
<1> QED BY <1>1, EndsLast, LookupEnds

-----------------------------------------------------------------------------
(* What a lookup gives in a state that is a tree.                          *)

Found(i) == i = NoInode \/ (i \in Inode /\ inodes[i].used)

(* The first entry of a name is an entry of that name.                     *)
LEMMA FirstMatchOK ==
  ASSUME TypeOK, NEW d \in Inode, NEW n, Matches(d, n) # {}
  PROVE  /\ FirstMatch(d, n) \in 1 .. Len(inodes[d].entries)
         /\ inodes[d].entries[FirstMatch(d, n)].name = n
<1>1. inodes[d].entries \in Seq(Dirent)
  BY DEF TypeOK, InodeRecord
<1>2. Matches(d, n) \in SUBSET Nat
  BY <1>1 DEF Matches
<1>3. FirstMatch(d, n) \in Matches(d, n)
  BY <1>2, LeastNatural DEF FirstMatch
<1> QED BY <1>3 DEF Matches

(* A turn of the lookup loop leads to an inode or to NoInode.              *)
LEMMA FindInFinds ==
  ASSUME TypeOK, TreeOK, NEW d, Found(d), NEW n
  PROVE  Found(FindIn(d, n))
<1>1. CASE n # Empty /\ HasEntry(d, n)
  <2>1. d \in Inode /\ Matches(d, n) # {}
    BY <1>1 DEF HasEntry, IsDir
  <2> DEFINE k == FirstMatch(d, n)
  <2>2. k \in Entry(d) /\ inodes[d].entries[k] \in Dirent
    <3>1. inodes[d].entries \in Seq(Dirent)
      BY <2>1 DEF TypeOK, InodeRecord
    <3>2. k \in 1 .. Len(inodes[d].entries)
      BY <2>1, FirstMatchOK
    <3> HIDE DEF k
    <3> QED BY <3>1, <3>2, LenProperties, ElementOfSeq DEF Entry
  <2>3. Target(d, k) \in Inode /\ inodes[Target(d, k)].used
    BY <2>1, <2>2 DEF TreeOK, Target, Dirent
  <2> QED BY <1>1, <2>3 DEF FindIn, Found, Target
<1> QED BY <1>1 DEF FindIn, Found

(* A path leads nowhere or to an inode in use.                             *)
LEMMA LookupFinds ==
  ASSUME TypeOK, TreeOK, NEW p \in Seq(Name)
  PROVE  Found(ramfs_find_inode(p))
<1>1. PICK f : IsWalk(inodes, f, p, Len(p)) /\ ramfs_find_inode(p) = f[Len(p)]
  BY LookupEnds, WalkOfPath
<1>2. Len(p) \in Nat
  BY LenProperties
<1> DEFINE Bad == {k \in 0 .. Len(p) : ~Found(f[k])}
<1>3. SUFFICES ASSUME Bad # {} PROVE FALSE
  BY <1>1, <1>2
<1>4. PICK k \in Bad : \A j \in Bad : k <= j
  <2>1. Bad \in SUBSET Nat
    BY <1>2
  <2> HIDE DEF Bad
  <2> QED BY <1>3, <2>1, LeastNatural
<1>5. f[k] = Turn(inodes, f, p, k)
  BY <1>1, <1>4 DEF IsWalk
<1>6. Found(Root)
  BY TableAssumption DEF Found, TreeOK, Root, Inode
<1>7. k # 0
  BY <1>4, <1>5, <1>6 DEF Turn
<1>8. Found(f[k - 1])
  BY <1>2, <1>4, <1>7
<1>9. Found(StepIn(inodes, f[k - 1], p[k]))
  <2>1. FindIn(f[k - 1], p[k]) = StepIn(inodes, f[k - 1], p[k])
    BY DEF FindIn, HasEntry, IsDir, Matches, FirstMatch, StepIn, MatchesIn, FirstIn
  <2> QED BY <1>8, <2>1, FindInFinds
<1> QED BY <1>4, <1>5, <1>7, <1>9 DEF Turn

-----------------------------------------------------------------------------
(* The steps and the invariant.                                            *)

(* Which slots ramfs_create and ramfs_mkdir change: a free one, f, and the *)
(* directory, which is another because it is in use.                       *)
Added(f, d, n, type) ==
  /\ ~inodes[f].used /\ f # d /\ f # Root /\ d \in Inode
  /\ \A x \in Inode \ {f, d} : inodes'[x] = inodes[x]
  /\ inodes'[f] = FreshInode(TRUE, type)
  /\ \/ inodes'[d] = inodes[d]
     \/ inodes'[d] = [inodes[d] EXCEPT
                        !.entries = Append(@, [name |-> Trunc[n], inode_idx |-> f])]
  /\ inodes' \in [Inode -> InodeRecord]

(* What AddChild does to each slot, stated slot by slot.                   *)
LEMMA AddFacts ==
  ASSUME TypeOK, TreeOK,
         NEW d, IsDir(d), Found(d), NEW n \in Name, FreeInodes # {},
         NEW type \in {FILE, DIR}, NEW success, NEW r,
         AddChild(d, n, type, success, r)
  PROVE  \E f \in Inode : Added(f, d, n, type)
<1> DEFINE f == FirstFree
           ent == [name |-> Trunc[n], inode_idx |-> f]
<1>1. f \in Inode /\ ~inodes[f].used
  <2>1. FreeInodes \in SUBSET Nat
    BY TableAssumption DEF FreeInodes, Inode
  <2>2. FirstFree \in FreeInodes
    BY <2>1, LeastNatural DEF FirstFree
  <2> QED BY <2>2 DEF FreeInodes
<1>2. d \in Inode /\ inodes[d].used /\ f # d /\ f # Root
  BY <1>1 DEF IsDir, Found, TreeOK, NoInode, Inode
<1> HIDE DEF f
<1>3. inodes[d] \in InodeRecord /\ inodes[d].entries \in Seq(Dirent) /\ ent \in Dirent
  BY <1>1, <1>2, NameAssumption DEF TypeOK, InodeRecord, Dirent
<1>4. FreshInode(TRUE, type) \in InodeRecord
  BY EmptySeq DEF FreshInode, InodeRecord
<1>5. Append(inodes[d].entries, ent) \in Seq(Dirent)
  BY <1>3, AppendProperties
<1>6. CASE inodes' = [inodes EXCEPT
                        ![f] = FreshInode(TRUE, type),
                        ![d].entries = Append(@, ent)]
  <2>1. inodes'[d] = [inodes[d] EXCEPT !.entries = Append(@, ent)]
    BY <1>1, <1>2, <1>6 DEF TypeOK
  <2>2. inodes'[d] \in InodeRecord
    BY <1>3, <1>5, <2>1 DEF InodeRecord
  <2>3. inodes'[f] = FreshInode(TRUE, type)
    BY <1>1, <1>2, <1>6 DEF TypeOK
  <2>4. \A x \in Inode \ {f, d} : inodes'[x] = inodes[x]
    BY <1>1, <1>2, <1>6 DEF TypeOK
  <2>5. inodes' \in [Inode -> InodeRecord]
    <3>1. inodes' = [x \in Inode |-> inodes'[x]]
      BY <1>6 DEF TypeOK
    <3>2. \A x \in Inode : inodes'[x] \in InodeRecord
      BY <1>4, <2>2, <2>3, <2>4 DEF TypeOK
    <3> QED BY <3>1, <3>2
  <2> QED BY <1>1, <1>2, <2>1, <2>3, <2>4, <2>5 DEF Added, ent
<1>7. CASE inodes' = [inodes EXCEPT ![f] = FreshInode(TRUE, type)]
  BY <1>1, <1>2, <1>4, <1>7 DEF TypeOK, Added
<1> QED BY <1>6, <1>7 DEF AddChild, f

(* Which slots ramfs_unlink and ramfs_rmdir change.                        *)
LEMMA RemoveFacts ==
  ASSUME TypeOK, NEW d \in Inode, NEW k \in 1 .. Len(inodes[d].entries),
         RemoveChild(d, k, Target(d, k))
  PROVE  /\ Target(d, k) \in Inode
         /\ inodes' \in [Inode -> InodeRecord]
         /\ \A x \in Inode :
              /\ inodes'[x].type = inodes[x].type /\ inodes'[x].data = inodes[x].data
              /\ inodes'[x].bytes = inodes[x].bytes
              /\ inodes'[x].capacity = inodes[x].capacity
              /\ x = Target(d, k) => ~inodes'[x].used
              /\ x # Target(d, k) => inodes'[x].used = inodes[x].used
              /\ x # d => inodes'[x].entries = inodes[x].entries
         /\ inodes'[d].entries = RemoveAt(inodes[d].entries, k)
<1> DEFINE i == Target(d, k)
<1>1. inodes[d].entries \in Seq(Dirent) /\ i \in Inode
  <2>1. inodes[d].entries \in Seq(Dirent)
    BY DEF TypeOK, InodeRecord
  <2>2. inodes[d].entries[k] \in Dirent
    BY <2>1, ElementOfSeq
  <2> QED BY <2>1, <2>2 DEF Target, Dirent
<1>2. RemoveAt(inodes[d].entries, k) \in Seq(Dirent)
  BY <1>1, RemoveAtProperties
<1> HIDE DEF i
<1>3. inodes' = [inodes EXCEPT ![d].entries = RemoveAt(@, k), ![i].used = FALSE]
  BY DEF RemoveChild, i
<1>4. ASSUME NEW x \in Inode
      PROVE  inodes'[x] = [inodes[x] EXCEPT
                             !.entries = IF x = d THEN RemoveAt(@, k) ELSE @,
                             !.used = IF x = i THEN FALSE ELSE @]
  <2>1. inodes[x] \in InodeRecord
    BY DEF TypeOK
  <2> QED BY <1>1, <1>3, <2>1 DEF TypeOK, InodeRecord
<1>5. ASSUME NEW x \in Inode
      PROVE  /\ inodes'[x] \in InodeRecord
             /\ inodes'[x].type = inodes[x].type /\ inodes'[x].data = inodes[x].data
             /\ inodes'[x].bytes = inodes[x].bytes
             /\ inodes'[x].capacity = inodes[x].capacity
             /\ x = i => ~inodes'[x].used
             /\ x # i => inodes'[x].used = inodes[x].used
             /\ x # d => inodes'[x].entries = inodes[x].entries
             /\ x = d => inodes'[x].entries = RemoveAt(inodes[d].entries, k)
  <2>1. inodes[x] \in InodeRecord
    BY DEF TypeOK
  <2> DEFINE ents == IF x = d THEN RemoveAt(inodes[x].entries, k) ELSE inodes[x].entries
             use  == IF x = i THEN FALSE ELSE inodes[x].used
  <2>2. ents \in Seq(Dirent) /\ use \in BOOLEAN
    BY <1>2, <2>1 DEF InodeRecord
  <2>3. inodes'[x] = [inodes[x] EXCEPT !.entries = ents, !.used = use]
    BY <1>4
  <2>4. /\ x = d => ents = RemoveAt(inodes[d].entries, k)
        /\ x # d => ents = inodes[x].entries
        /\ x = i => use = FALSE
        /\ x # i => use = inodes[x].used
    OBVIOUS
  <2> HIDE DEF ents, use
  <2>5. /\ inodes'[x] \in InodeRecord
        /\ inodes'[x].type = inodes[x].type /\ inodes'[x].data = inodes[x].data
        /\ inodes'[x].bytes = inodes[x].bytes
        /\ inodes'[x].capacity = inodes[x].capacity
        /\ inodes'[x].used = use
        /\ inodes'[x].entries = ents
    BY <2>1, <2>2, <2>3 DEF InodeRecord
  <2> QED BY <2>4, <2>5
<1>6. inodes' = [x \in Inode |-> inodes'[x]]
  BY <1>3 DEF TypeOK
<1> QED BY <1>1, <1>5, <1>6 DEF i

-----------------------------------------------------------------------------
(* The inductive invariant, and the three ways a call changes the table.   *)

IInv == TypeOK /\ TreeOK /\ KindOK /\ BuffersOwned /\ SizeFits

(* Adding an entry to a directory keeps IInv.                              *)
LEMMA AddPreserves ==
  ASSUME IInv,
         NEW d, IsDir(d), Found(d), NEW n \in Name, FreeInodes # {},
         NEW type \in {FILE, DIR}, NEW success, NEW r,
         AddChild(d, n, type, success, r), UNCHANGED <<bufs, overrun>>
  PROVE  IInv'
<1>0. TypeOK /\ TreeOK
  BY DEF IInv
<1>a. PICK f \in Inode : Added(f, d, n, type)
  BY <1>0, AddFacts
<1>1. /\ ~inodes[f].used /\ f # d /\ f # Root /\ d \in Inode
      /\ \A x \in Inode \ {f, d} : inodes'[x] = inodes[x]
      /\ inodes'[f] = FreshInode(TRUE, type)
      /\ \/ inodes'[d] = inodes[d]
         \/ inodes'[d] = [inodes[d] EXCEPT
                            !.entries = Append(@, [name |-> Trunc[n], inode_idx |-> f])]
      /\ inodes' \in [Inode -> InodeRecord]
  BY <1>a DEF Added
<1> DEFINE ent == [name |-> Trunc[n], inode_idx |-> f]
<1>2. ent \in Dirent /\ ent.inode_idx = f
  BY <1>1, NameAssumption DEF Dirent
<1> HIDE DEF ent
<1>3. inodes[d] \in InodeRecord /\ inodes[d].entries \in Seq(Dirent)
  BY <1>1 DEF IInv, TypeOK, InodeRecord
<1>4. /\ inodes'[d].used = inodes[d].used /\ inodes'[d].type = inodes[d].type
      /\ inodes'[d].data = inodes[d].data /\ inodes'[d].bytes = inodes[d].bytes
      /\ inodes'[d].capacity = inodes[d].capacity
      /\ \/ inodes'[d].entries = inodes[d].entries
         \/ inodes'[d].entries = Append(inodes[d].entries, ent)
  BY <1>1, <1>3 DEF InodeRecord, ent
<1>5. /\ inodes'[f].used /\ inodes'[f].type = type /\ inodes'[f].data = NULL
      /\ inodes'[f].bytes = <<>> /\ inodes'[f].capacity = 0
      /\ inodes'[f].entries = <<>>
  BY <1>1 DEF FreshInode
<1>6. TypeOK'
  BY <1>1 DEF IInv, TypeOK
(* An old entry is where it was, and the only new one leads to f.          *)
<1>7. ASSUME NEW x \in Inode, NEW k \in Entry(x)'
      PROVE  \/ k \in Entry(x) /\ Target(x, k)' = Target(x, k)
             \/ x = d /\ k = Len(inodes[d].entries) + 1 /\ Target(x, k)' = f
  <2>1. CASE x = f
    BY <1>5, <2>1 DEF Entry
  <2>2. CASE x = d /\ inodes'[d].entries = Append(inodes[d].entries, ent)
    <3>1. Len(inodes[d].entries) \in Nat
      BY <1>3, LenProperties
    <3>2. /\ Len(inodes'[d].entries) = Len(inodes[d].entries) + 1
          /\ inodes'[d].entries \in Seq(Dirent)
          /\ inodes'[d].entries[Len(inodes[d].entries) + 1] = ent
          /\ \A j \in 1 .. Len(inodes[d].entries) :
               inodes'[d].entries[j] = inodes[d].entries[j]
      BY <1>2, <1>3, <2>2, AppendProperties
    <3>3. k \in 1 .. Len(inodes[d].entries) + 1
      BY <2>2, <3>2, LenProperties DEF Entry
    <3>4. Entry(d) = 1 .. Len(inodes[d].entries)
      BY <1>3, LenProperties DEF Entry
    <3>5. CASE k \in 1 .. Len(inodes[d].entries)
      BY <2>2, <3>2, <3>4, <3>5 DEF Target
    <3>6. CASE k = Len(inodes[d].entries) + 1
      BY <1>2, <2>2, <3>2, <3>6 DEF Target
    <3> QED BY <3>1, <3>3, <3>5, <3>6
  <2>3. CASE x # f /\ inodes'[x].entries = inodes[x].entries
    BY <2>3 DEF Entry, Target
  <2> QED BY <1>1, <1>4, <2>1, <2>2, <2>3
<1>8. \A x \in Inode : \A k \in Entry(x) :
        Target(x, k) # f /\ Target(x, k) # Root /\ Target(x, k) \in Inode
  <2>1. ASSUME NEW x \in Inode, NEW k \in Entry(x)
        PROVE  Target(x, k) \in Inode
    <3>1. inodes[x].entries \in Seq(Dirent)
      BY DEF IInv, TypeOK, InodeRecord
    <3>2. inodes[x].entries[k] \in Dirent
      BY <3>1, LenProperties, ElementOfSeq DEF Entry
    <3> QED BY <3>2 DEF Target, Dirent
  <2> QED BY <1>1, <2>1 DEF IInv, TreeOK
<1>9. TreeOK'
  <2>1. inodes'[Root].used /\ inodes'[Root].type = DIR
    BY <1>1, <1>4, TableAssumption DEF IInv, TreeOK, Root, Inode
  <2>2. ASSUME NEW x \in Inode, NEW k \in Entry(x)'
        PROVE  Target(x, k)' # Root /\ inodes'[Target(x, k)'].used
    <3>1. \A y \in Inode : inodes[y].used => inodes'[y].used
      BY <1>1, <1>4
    <3>2. CASE k \in Entry(x) /\ Target(x, k)' = Target(x, k)
      BY <1>8, <3>1, <3>2 DEF IInv, TreeOK
    <3>3. CASE Target(x, k)' = f
      BY <1>1, <1>5, <3>3
    <3> QED BY <1>7, <3>2, <3>3
  <2>3. ASSUME NEW x \in Inode, NEW y \in Inode, NEW j \in Entry(x)', NEW k \in Entry(y)',
               Target(x, j)' = Target(y, k)'
        PROVE  x = y /\ j = k
    BY <1>7, <1>8, <2>3 DEF IInv, TreeOK
  <2> QED BY <2>1, <2>2, <2>3 DEF TreeOK
<1>10. KindOK'
  <2>1. ASSUME NEW x \in Inode
        PROVE  /\ inodes'[x].type = FILE => inodes'[x].entries = <<>>
               /\ inodes'[x].type = DIR => inodes'[x].data = NULL /\ inodes'[x].capacity = 0
    <3>1. CASE x = f
      BY <1>5, <3>1
    <3>2. CASE x = d
      BY <1>4, <3>2 DEF IInv, KindOK, IsDir, FILE, DIR
    <3>3. CASE x # f /\ x # d
      BY <1>1, <3>3 DEF IInv, KindOK
    <3> QED BY <3>1, <3>2, <3>3
  <2> QED BY <2>1 DEF KindOK
<1>11. BuffersOwned'
  <2>1. ASSUME NEW x \in Inode
        PROVE  inodes'[x].used /\ inodes'[x].data # NULL <=> inodes[x].used /\ inodes[x].data # NULL
    <3>1. CASE x = f
      BY <1>1, <1>5, <3>1
    <3>2. CASE x = d
      BY <1>4, <3>2
    <3>3. CASE x # f /\ x # d
      BY <1>1, <3>3
    <3> QED BY <3>1, <3>2, <3>3
  <2>2. Owners' = Owners
    BY <2>1 DEF Owners
  <2>3. \A x \in Owners : inodes'[x].data = inodes[x].data
    BY <1>1, <1>4 DEF Owners
  <2> QED BY <2>2, <2>3 DEF IInv, BuffersOwned
<1>12. SizeFits'
  <2>1. ASSUME NEW x \in Inode
        PROVE  /\ Len(inodes'[x].bytes) <= inodes'[x].capacity
               /\ inodes'[x].used /\ inodes'[x].type = FILE
                    => (inodes'[x].data = NULL <=> inodes'[x].capacity = 0)
    <3>1. CASE x = f
      BY <1>5, <3>1, EmptySeq
    <3>2. CASE x = d
      BY <1>4, <3>2 DEF IInv, SizeFits
    <3>3. CASE x # f /\ x # d
      BY <1>1, <3>3 DEF IInv, SizeFits
    <3> QED BY <3>1, <3>2, <3>3
  <2> QED BY <2>1 DEF SizeFits
<1> QED BY <1>6, <1>9, <1>10, <1>11, <1>12 DEF IInv

(* Removing an entry and freeing its inode keeps IInv.                     *)
LEMMA RemovePreserves ==
  ASSUME IInv,
         NEW d \in Inode, NEW k \in 1 .. Len(inodes[d].entries),
         RemoveChild(d, k, Target(d, k)),
         bufs' = bufs \ {inodes[Target(d, k)].data}, UNCHANGED overrun
  PROVE  IInv'
<1> DEFINE i == Target(d, k)
<1>0. TypeOK
  BY DEF IInv
<1>1. /\ i \in Inode
      /\ inodes' \in [Inode -> InodeRecord]
      /\ \A x \in Inode :
           /\ inodes'[x].type = inodes[x].type /\ inodes'[x].data = inodes[x].data
           /\ inodes'[x].bytes = inodes[x].bytes
           /\ inodes'[x].capacity = inodes[x].capacity
           /\ x = i => ~inodes'[x].used
           /\ x # i => inodes'[x].used = inodes[x].used
           /\ x # d => inodes'[x].entries = inodes[x].entries
      /\ inodes'[d].entries = RemoveAt(inodes[d].entries, k)
  BY <1>0, RemoveFacts
<1>2. k \in Entry(d) /\ inodes[d].entries \in Seq(Dirent)
  <2>1. inodes[d].entries \in Seq(Dirent)
    BY DEF IInv, TypeOK, InodeRecord
  <2> QED BY <2>1, LenProperties DEF Entry
<1>3. i # Root /\ inodes[i].used
  BY <1>2 DEF IInv, TreeOK
<1> HIDE DEF i
<1>4. TypeOK'
  BY <1>1 DEF IInv, TypeOK
(* Where the entry now at index j of directory x was before the shift.     *)
<1> DEFINE old(x, j) == IF x = d /\ j >= k THEN j + 1 ELSE j
<1>5. ASSUME NEW x \in Inode, NEW j \in Entry(x)'
      PROVE  /\ old(x, j) \in Entry(x) /\ Target(x, j)' = Target(x, old(x, j))
             /\ ~(x = d /\ old(x, j) = k)
             /\ x = d => j \in Nat
  <2>1. CASE x = d
    <3> DEFINE s == inodes[d].entries
    <3>0. s \in Seq(Dirent) /\ k \in 1 .. Len(s)
      BY <1>2
    <3>a. /\ inodes'[d].entries = RemoveAt(s, k)
          /\ Entry(d) = DOMAIN s /\ Entry(d)' = DOMAIN RemoveAt(s, k)
          /\ \A m : Target(d, m) = s[m].inode_idx
          /\ Target(d, j)' = RemoveAt(s, k)[j].inode_idx
      BY <1>1 DEF Entry, Target
    <3> HIDE DEF s
    <3>1. /\ RemoveAt(s, k) \in Seq(Dirent)
          /\ Len(RemoveAt(s, k)) = Len(s) - 1
          /\ \A m \in 1 .. Len(s) - 1 :
               RemoveAt(s, k)[m] = IF m < k THEN s[m] ELSE s[m + 1]
      BY <3>0, RemoveAtProperties
    <3>2. Len(s) \in Nat /\ Entry(d) = 1 .. Len(s)
      BY <3>0, <3>a, LenProperties
    <3>3. j \in 1 .. Len(s) - 1
      BY <2>1, <3>1, <3>2, <3>a, LenProperties
    <3>4. /\ old(x, j) \in 1 .. Len(s) /\ old(x, j) # k /\ j \in Nat
          /\ old(x, j) = IF j < k THEN j ELSE j + 1
      BY <2>1, <3>2, <3>3
    <3> HIDE DEF old
    <3>5. RemoveAt(s, k)[j] = s[old(x, j)]
      BY <3>1, <3>3, <3>4
    <3> QED BY <2>1, <3>2, <3>4, <3>5, <3>a
  <2>2. CASE x # d
    BY <1>1, <2>2 DEF Entry, Target
  <2> QED BY <2>1, <2>2
<1>6. TreeOK'
  <2>1. inodes'[Root].used /\ inodes'[Root].type = DIR
    BY <1>1, <1>3, TableAssumption DEF IInv, TreeOK, Root, Inode
  <2>2. ASSUME NEW x \in Inode, NEW j \in Entry(x)'
        PROVE  Target(x, j)' # Root /\ inodes'[Target(x, j)'].used
    <3> DEFINE o == old(x, j)
    <3>1. o \in Entry(x) /\ Target(x, j)' = Target(x, o) /\ ~(x = d /\ o = k)
      BY <1>5
    <3> HIDE DEF o
    <3>2. Target(x, o) # Root /\ inodes[Target(x, o)].used /\ Target(x, o) # i
      BY <1>2, <3>1 DEF IInv, TreeOK, i
    <3>3. Target(x, o) \in Inode
      <4>1. inodes[x].entries \in Seq(Dirent)
        BY DEF IInv, TypeOK, InodeRecord
      <4>2. inodes[x].entries[o] \in Dirent
        BY <3>1, <4>1, LenProperties, ElementOfSeq DEF Entry
      <4> QED BY <4>2 DEF Target, Dirent
    <3> QED BY <1>1, <3>1, <3>2, <3>3
  <2>3. ASSUME NEW x \in Inode, NEW y \in Inode, NEW j \in Entry(x)', NEW m \in Entry(y)',
               Target(x, j)' = Target(y, m)'
        PROVE  x = y /\ j = m
    <3>1. /\ old(x, j) \in Entry(x) /\ old(y, m) \in Entry(y)
          /\ Target(x, old(x, j)) = Target(y, old(y, m))
          /\ x = d => j \in Nat
          /\ y = d => m \in Nat
      BY <1>5, <2>3
    <3> HIDE DEF old
    <3>2. x = y /\ old(x, j) = old(y, m)
      BY <3>1 DEF IInv, TreeOK
    <3> USE DEF old
    <3>3. CASE x = d
      BY <3>1, <3>2, <3>3
    <3>4. CASE x # d
      BY <3>2, <3>4
    <3> QED BY <3>3, <3>4
  <2> QED BY <2>1, <2>2, <2>3 DEF TreeOK
<1>7. KindOK'
  <2>1. ASSUME NEW x \in Inode, inodes[x].entries = <<>>
        PROVE  inodes'[x].entries = <<>>
    <3>1. x # d
      BY <1>2, <2>1 DEF Entry
    <3> QED BY <1>1, <2>1, <3>1
  <2> QED BY <1>1, <2>1 DEF IInv, KindOK
<1>8. BuffersOwned'
  <2>1. Owners' = Owners \ {i}
    BY <1>1 DEF Owners
  <2>2. \A x \in Owners : inodes'[x].data = inodes[x].data
    BY <1>1 DEF Owners
  <2>3. bufs' = {inodes[x].data : x \in Owners'}
    <3>1. bufs' = bufs \ {inodes[i].data}
      BY DEF i
    <3>2. CASE i \in Owners
      <4>1. /\ bufs = {inodes[x].data : x \in Owners}
            /\ \A x, y \in Owners : inodes[x].data = inodes[y].data => x = y
        BY DEF IInv, BuffersOwned
      <4> HIDE DEF Owners
      <4> QED BY <2>1, <3>1, <3>2, <4>1
    <3>3. CASE i \notin Owners
      <4>1. \A x \in Owners : inodes[x].data # inodes[i].data
        BY <1>1, <1>3, <3>3 DEF Owners
      <4>2. bufs = {inodes[x].data : x \in Owners} /\ Owners' = Owners
        BY <2>1, <3>3 DEF IInv, BuffersOwned
      <4> HIDE DEF Owners
      <4>3. inodes[i].data \notin bufs
        BY <4>1, <4>2
      <4> QED BY <3>1, <4>2, <4>3
    <3> QED BY <3>2, <3>3
  <2>4. \A x \in Owners' : x \in Owners /\ inodes'[x].data = inodes[x].data
    BY <2>1, <2>2
  <2>5. bufs' = {inodes'[x].data : x \in Owners'}
    BY <2>3, <2>4
  <2>6. \A x, y \in Owners : inodes[x].data = inodes[y].data => x = y
    BY DEF IInv, BuffersOwned
  <2> QED BY <2>4, <2>5, <2>6 DEF BuffersOwned
<1>9. SizeFits'
  BY <1>1 DEF IInv, SizeFits
<1> QED BY <1>4, <1>6, <1>7, <1>8, <1>9 DEF IInv

(* What a file holds after a write is a sequence of bytes, long enough for *)
(* what was there and for what was written.                                *)
LEMMA PatchProperties ==
  ASSUME NEW bytes \in Seq(Byte), NEW off \in Nat, NEW data \in Seq(Byte)
  PROVE  /\ Patch(bytes, off, data) \in Seq(Byte)
         /\ Len(Patch(bytes, off, data)) =
              IF off + Len(data) > Len(bytes) THEN off + Len(data) ELSE Len(bytes)
<1> DEFINE end  == off + Len(data)
           size == IF end > Len(bytes) THEN end ELSE Len(bytes)
           byte(k) == IF off < k /\ k <= end THEN data[k - off]
                      ELSE IF k <= Len(bytes) THEN bytes[k] ELSE Zero
<1>1. Len(bytes) \in Nat /\ Len(data) \in Nat /\ end \in Nat /\ size \in Nat
  BY LenProperties
<1>2. \A k \in 1 .. size : byte(k) \in Byte
  <2>1. ASSUME NEW k \in 1 .. size
        PROVE  byte(k) \in Byte
    <3>1. CASE off < k /\ k <= end
      <4>1. k - off \in 1 .. Len(data)
        BY <1>1, <3>1
      <4> QED BY <3>1, <4>1, ElementOfSeq
    <3>2. CASE ~(off < k /\ k <= end) /\ k <= Len(bytes)
      <4>1. k \in 1 .. Len(bytes)
        BY <1>1, <3>2
      <4> QED BY <3>2, <4>1, ElementOfSeq
    <3>3. CASE ~(off < k /\ k <= end) /\ ~(k <= Len(bytes))
      BY <3>3, DataAssumption
    <3> QED BY <3>1, <3>2, <3>3
  <2> QED BY <2>1
<1>3. Patch(bytes, off, data) = [k \in 1 .. size |-> byte(k)]
  BY DEF Patch
<1> HIDE DEF size, byte
<1>4. [k \in 1 .. size |-> byte(k)] \in [1 .. size -> Byte]
  BY <1>2
<1>5. Patch(bytes, off, data) \in Seq(Byte)
  BY <1>1, <1>3, <1>4, SeqDef
<1>6. Len(Patch(bytes, off, data)) = size
  <2>1. DOMAIN Patch(bytes, off, data) = 1 .. size
    BY <1>3
  <2>2. DOMAIN Patch(bytes, off, data) = 1 .. Len(Patch(bytes, off, data))
    BY <1>5, LenProperties
  <2>3. Len(Patch(bytes, off, data)) \in Nat
    BY <1>5, LenProperties
  <2> QED BY <1>1, <2>1, <2>2, <2>3
<1> QED BY <1>5, <1>6 DEF size

(* Storing bytes in a file, in its old buffer or a new one, keeps IInv.    *)
LEMMA StorePreserves ==
  ASSUME IInv,
         NEW idx, IsFile(idx), NEW data \in Seq(Byte), NEW off \in Nat,
         NEW buf, NEW cap \in Nat, Store(idx, buf, cap, off, data),
         \/ /\ buf = inodes[idx].data /\ cap = inodes[idx].capacity
            /\ bufs' = bufs
         \/ /\ buf \in Buffers \ bufs /\ cap > inodes[idx].capacity
            /\ bufs' = (bufs \ {inodes[idx].data}) \cup {buf}
  PROVE  IInv'
<1>1. /\ idx \in Inode /\ inodes[idx].used /\ inodes[idx].type = FILE
      /\ inodes[idx] \in InodeRecord
      /\ inodes[idx].bytes \in Seq(Byte) /\ inodes[idx].capacity \in Nat
      /\ inodes[idx].data \in Buffers \cup {NULL}
  BY DEF IsFile, IInv, TypeOK, InodeRecord
<1>2. buf \in Buffers \cup {NULL}
  BY <1>1
<1>3. PICK bytes \in Seq(Byte) :
        /\ Len(bytes) <= cap
        /\ inodes' = [inodes EXCEPT ![idx].bytes = bytes, ![idx].data = buf,
                                    ![idx].capacity = cap]
        /\ overrun' \in BOOLEAN
  <2>1. CASE /\ Fits(inodes[idx].bytes, off, data, cap)
             /\ inodes' = [inodes EXCEPT ![idx].bytes = Patch(@, off, data),
                                         ![idx].data = buf, ![idx].capacity = cap]
             /\ UNCHANGED overrun
    <3> DEFINE bytes == Patch(inodes[idx].bytes, off, data)
    <3>1. bytes \in Seq(Byte) /\ Len(bytes) = IF off + Len(data) > Len(inodes[idx].bytes)
                                             THEN off + Len(data) ELSE Len(inodes[idx].bytes)
      BY <1>1, PatchProperties
    <3>2. Len(data) \in Nat /\ Len(inodes[idx].bytes) \in Nat
      BY <1>1, LenProperties
    <3>3. Len(inodes[idx].bytes) <= cap
      BY <1>1, <3>2 DEF IInv, SizeFits
    <3>4. Len(bytes) <= cap
      <4>1. CASE Len(data) > 0
        BY <2>1, <3>1, <3>2, <3>3, <4>1 DEF Fits
      <4>2. CASE Len(data) = 0
        BY <2>1, <3>1, <3>2, <3>3, <4>2 DEF Fits
      <4> QED BY <3>2, <4>1, <4>2
    <3>5. inodes' = [inodes EXCEPT ![idx].bytes = bytes, ![idx].data = buf,
                                   ![idx].capacity = cap]
      BY <2>1
    <3>6. overrun' \in BOOLEAN
      BY <2>1 DEF IInv, TypeOK
    <3> HIDE DEF bytes
    <3> QED BY <3>1, <3>4, <3>5, <3>6
  <2>2. CASE /\ inodes' = [inodes EXCEPT ![idx].data = buf, ![idx].capacity = cap]
             /\ overrun' = TRUE
    <3>1. inodes' = [inodes EXCEPT ![idx].bytes = inodes[idx].bytes, ![idx].data = buf,
                                   ![idx].capacity = cap]
      BY <1>1, <2>2 DEF IInv, TypeOK, InodeRecord
    <3>2. Len(inodes[idx].bytes) <= cap
      <4>1. Len(inodes[idx].bytes) \in Nat
        BY <1>1, LenProperties
      <4> QED BY <1>1, <4>1 DEF IInv, SizeFits
    <3> QED BY <1>1, <2>2, <3>1, <3>2
  <2> QED BY <2>1, <2>2 DEF Store
<1>4. /\ inodes'[idx].bytes = bytes /\ inodes'[idx].data = buf
      /\ inodes'[idx].capacity = cap
      /\ inodes'[idx].used = inodes[idx].used /\ inodes'[idx].type = inodes[idx].type
      /\ inodes'[idx].entries = inodes[idx].entries
      /\ inodes'[idx] \in InodeRecord
  BY <1>1, <1>2, <1>3 DEF IInv, TypeOK, InodeRecord
<1>5. \A x \in Inode \ {idx} : inodes'[x] = inodes[x]
  BY <1>1, <1>3 DEF IInv, TypeOK
<1>6. TypeOK'
  <2>1. inodes' = [x \in Inode |-> inodes'[x]]
    BY <1>3 DEF IInv, TypeOK
  <2>2. \A x \in Inode : inodes'[x] \in InodeRecord
    BY <1>4, <1>5 DEF IInv, TypeOK
  <2>3. inodes' \in [Inode -> InodeRecord]
    BY <2>1, <2>2
  <2> QED BY <1>3, <2>3 DEF IInv, TypeOK
<1>7. TreeOK' /\ KindOK'
  <2>1. \A x \in Inode : /\ inodes'[x].used = inodes[x].used
                         /\ inodes'[x].type = inodes[x].type
                         /\ inodes'[x].entries = inodes[x].entries
    BY <1>4, <1>5
  <2>2. \A x \in Inode : /\ Entry(x)' = Entry(x)
                         /\ \A k : Target(x, k)' = Target(x, k)
    BY <2>1 DEF Entry, Target
  <2>3. \A x \in Inode : \A k \in Entry(x) : Target(x, k) \in Inode
    <3>1. ASSUME NEW x \in Inode, NEW k \in Entry(x)
          PROVE  Target(x, k) \in Inode
      <4>1. inodes[x].entries \in Seq(Dirent)
        BY DEF IInv, TypeOK, InodeRecord
      <4>2. inodes[x].entries[k] \in Dirent
        BY <4>1, LenProperties, ElementOfSeq DEF Entry
      <4> QED BY <4>2 DEF Target, Dirent
    <3> QED BY <3>1
  <2>4. Root \in Inode
    BY TableAssumption DEF Root, Inode
  <2>5. TreeOK'
    BY <2>1, <2>2, <2>3, <2>4 DEF IInv, TreeOK
  <2>6. KindOK'
    BY <1>1, <1>4, <1>5 DEF IInv, KindOK, FILE, DIR
  <2> QED BY <2>5, <2>6
<1>8. SizeFits'
  <2>1. ASSUME NEW x \in Inode
        PROVE  /\ Len(inodes'[x].bytes) <= inodes'[x].capacity
               /\ inodes'[x].used /\ inodes'[x].type = FILE
                    => (inodes'[x].data = NULL <=> inodes'[x].capacity = 0)
    <3>1. CASE x = idx
      <4>1. buf = NULL <=> cap = 0
        BY <1>1, DataAssumption DEF IInv, SizeFits
      <4> QED BY <1>3, <1>4, <3>1, <4>1
    <3>2. CASE x # idx
      BY <1>5, <3>2 DEF IInv, SizeFits
    <3> QED BY <3>1, <3>2
  <2> QED BY <2>1 DEF SizeFits
<1>9. BuffersOwned'
  <2>1. \A x \in Inode : inodes'[x].used = inodes[x].used
    BY <1>4, <1>5
  <2>2. CASE buf = inodes[idx].data /\ bufs' = bufs
    <3>1. \A x \in Inode : inodes'[x].data = inodes[x].data
      BY <1>4, <1>5, <2>2
    <3>2. Owners' = Owners
      BY <2>1, <3>1 DEF Owners
    <3>3. \A x \in Owners : inodes'[x].data = inodes[x].data
      BY <3>1 DEF Owners
    <3> QED BY <2>2, <3>2, <3>3 DEF IInv, BuffersOwned
  <2>3. CASE buf \in Buffers \ bufs /\ bufs' = (bufs \ {inodes[idx].data}) \cup {buf}
    <3>1. Owners' = Owners \cup {idx}
      BY <1>1, <1>4, <1>5, <2>1, <2>3, DataAssumption DEF Owners
    <3>2. \A x \in Owners \ {idx} : inodes'[x].data = inodes[x].data /\ inodes[x].data \in bufs
      BY <1>5 DEF Owners, IInv, BuffersOwned
    <3>3. idx \in Owners => inodes[idx].data \in bufs
      BY DEF IInv, BuffersOwned
    <3>4. idx \notin Owners => inodes[idx].data = NULL /\ NULL \notin bufs
      BY <1>1, DataAssumption DEF Owners, IInv, TypeOK
    <3>5. \A x \in Owners \ {idx} : inodes[x].data # inodes[idx].data
      BY <1>1 DEF Owners, IInv, BuffersOwned
    <3>6. bufs' = {inodes'[x].data : x \in Owners'}
      <4>1. {inodes'[x].data : x \in Owners'} = {inodes[x].data : x \in Owners \ {idx}} \cup {buf}
        BY <1>4, <3>1, <3>2
      <4>2. bufs \ {inodes[idx].data} = {inodes[x].data : x \in Owners \ {idx}}
        BY <3>4, <3>5 DEF IInv, BuffersOwned
      <4> QED BY <2>3, <4>1, <4>2
    <3>7. \A x, y \in Owners' : inodes'[x].data = inodes'[y].data => x = y
      BY <1>4, <2>3, <3>1, <3>2 DEF IInv, BuffersOwned
    <3> QED BY <3>6, <3>7 DEF BuffersOwned
  <2> QED BY <2>2, <2>3
<1> QED BY <1>6, <1>7, <1>8, <1>9 DEF IInv

-----------------------------------------------------------------------------
(* The invariant holds initially and every call preserves it.              *)

(* The table ramfs_init leaves satisfies IInv.                             *)
LEMMA InitInvariant ==
  ASSUME ramfs_init
  PROVE  IInv
<1>1. \A used \in BOOLEAN, type \in {FILE, DIR} : FreshInode(used, type) \in InodeRecord
  BY EmptySeq DEF FreshInode, InodeRecord
<1>2. Root \in Inode
  BY TableAssumption DEF Root, Inode
<1>3. TypeOK
  BY <1>1 DEF ramfs_init, TypeOK
<1>4. /\ \A x \in Inode : /\ inodes[x].entries = <<>> /\ inodes[x].bytes = <<>>
                         /\ inodes[x].capacity = 0 /\ inodes[x].data = NULL
      /\ inodes[Root].used /\ inodes[Root].type = DIR
  BY <1>2 DEF ramfs_init, FreshInode
<1>5. \A x \in Inode : Entry(x) = {}
  BY <1>4 DEF Entry
<1>6. TreeOK
  BY <1>4, <1>5 DEF TreeOK
<1>7. KindOK
  BY <1>4 DEF KindOK
<1>8. BuffersOwned
  <2>1. Owners = {}
    BY <1>4 DEF Owners
  <2> QED BY <2>1 DEF BuffersOwned, ramfs_init
<1>9. SizeFits
  BY <1>4, EmptySeq DEF SizeFits
<1> QED BY <1>3, <1>6, <1>7, <1>8, <1>9 DEF IInv

(* The two halves of a path are a path and a name.                         *)
LEMMA PathParts ==
  ASSUME NEW p \in Seq(Name)
  PROVE  Dirname(p) \in Seq(Name) /\ Basename(p) \in Name
<1>1. CASE p = <<>>
  BY <1>1, NameAssumption, EmptySeq DEF Dirname, Basename
<1>2. CASE p # <<>>
  <2>1. Len(p) \in Nat \ {0}
    BY <1>2, EmptySeq
  <2>2. \A i \in 1 .. Len(p) - 1 : p[i] \in Name
    BY <2>1, ElementOfSeq
  <2>3. SubSeq(p, 1, Len(p) - 1) \in Seq(Name)
    <3>1. 1 \in Int /\ Len(p) - 1 \in Int
      BY <2>1
    <3> QED BY <2>2, <3>1, SubSeqProperties
  <2>4. p[Len(p)] \in Name
    BY <2>1, ElementOfSeq
  <2> QED BY <1>2, <2>3, <2>4 DEF Dirname, Basename, Front, Last
<1> QED BY <1>1, <1>2

(* The three ways a call changes the table.                                *)
AddStep ==
  \E d, success, r : \E n \in Name, type \in {FILE, DIR} :
    /\ Found(d) /\ CanAdd(d, n) /\ AddChild(d, n, type, success, r)
    /\ UNCHANGED <<bufs, overrun>>

Removal(d, k) ==
  /\ RemoveChild(d, k, Target(d, k))
  /\ bufs' = bufs \ {inodes[Target(d, k)].data}
  /\ UNCHANGED overrun

RemoveStep ==
  \E d \in Inode : \E k \in 1 .. Len(inodes[d].entries) : Removal(d, k)

RemoveLeafStep ==
  \E d \in Inode : \E k \in 1 .. Len(inodes[d].entries) :
    Removal(d, k) /\ inodes[Target(d, k)].entries = <<>>

StoreStep ==
  \E idx, buf : \E cap \in Nat, off \in Nat, data \in Seq(Byte) :
    /\ IsFile(idx) /\ Store(idx, buf, cap, off, data)
    /\ \/ /\ buf = inodes[idx].data /\ cap = inodes[idx].capacity
          /\ bufs' = bufs
       \/ /\ buf \in Buffers \ bufs /\ cap > inodes[idx].capacity
          /\ bufs' = (bufs \ {inodes[idx].data}) \cup {buf}

(* ramfs_create and ramfs_mkdir add an entry or do nothing.                *)
LEMMA CreateStep ==
  ASSUME IInv, NEW p \in Seq(Name), NEW r, ramfs_create(p, r) \/ ramfs_mkdir(p, r)
  PROVE  AddStep \/ UNCHANGED ramfs_vars
<1> DEFINE d == ramfs_find_inode(Dirname(p))
           n == Basename(p)
<1>1. TypeOK /\ TreeOK
  BY DEF IInv
<1>2. Found(d) /\ n \in Name
  BY <1>1, PathParts, LookupFinds
<1> HIDE DEF d, n
<1>3. CASE CanAdd(d, n) /\ AddChild(d, n, FILE, FirstFree, r) /\ UNCHANGED <<bufs, overrun>>
  BY <1>2, <1>3 DEF AddStep
<1>4. CASE CanAdd(d, n) /\ AddChild(d, n, DIR, 0, r) /\ UNCHANGED <<bufs, overrun>>
  BY <1>2, <1>4 DEF AddStep
<1>5. CASE UNCHANGED inodes /\ UNCHANGED <<bufs, overrun>>
  BY <1>5 DEF ramfs_vars
<1> QED BY <1>3, <1>4, <1>5 DEF ramfs_create, ramfs_mkdir, d, n

(* ramfs_unlink removes an entry or does nothing.                          *)
LEMMA UnlinkStep ==
  ASSUME IInv, NEW p \in Seq(Name), NEW r, ramfs_unlink(p, r)
  PROVE  /\ RemoveStep \/ UNCHANGED ramfs_vars
         /\ ~IsDir(ramfs_find_inode(p)) => RemoveLeafStep \/ UNCHANGED ramfs_vars
<1> DEFINE d == ramfs_find_inode(Dirname(p))
           n == Basename(p)
           k == FirstMatch(d, n)
<1>1. CASE /\ HasEntry(d, n)
           /\ RemoveChild(d, k, inodes[d].entries[k].inode_idx)
           /\ bufs' = bufs \ {inodes[inodes[d].entries[k].inode_idx].data}
           /\ UNCHANGED overrun
  <2>1. TypeOK /\ d \in Inode /\ Matches(d, n) # {} /\ IsDir(d)
    BY <1>1 DEF IInv, HasEntry, IsDir
  <2>2. k \in 1 .. Len(inodes[d].entries)
    BY <2>1, FirstMatchOK
  <2>3. inodes[d].entries[k].inode_idx = Target(d, k)
    BY DEF Target
  <2>4. ASSUME ~IsDir(ramfs_find_inode(p))
        PROVE  inodes[Target(d, k)].entries = <<>>
    <3>1. ramfs_find_inode(p) = FindIn(d, n)
      <4>1. CASE p = <<>>
        BY <4>1 DEF Dirname, Basename, FindIn
      <4>2. CASE p # <<>>
        BY <4>2, LastTurn
      <4> QED BY <4>1, <4>2
    <3>2. ~IsDir(Target(d, k))
      <4> HIDE DEF d, n
      <4> QED BY <1>1, <2>1, <2>3, <2>4, <3>1 DEF FindIn
    <3>3. Target(d, k) \in Inode
      <4> HIDE DEF d, k
      <4>1. inodes[d].entries \in Seq(Dirent)
        BY <2>1 DEF TypeOK, InodeRecord
      <4>2. inodes[d].entries[k] \in Dirent
        BY <2>2, <4>1, ElementOfSeq
      <4> QED BY <4>2 DEF Target, Dirent
    <3> QED BY <2>1, <3>2, <3>3 DEF IsDir, IInv, KindOK, TypeOK, InodeRecord
  <2> HIDE DEF d, k
  <2>5. Removal(d, k)
    BY <1>1, <2>3 DEF Removal
  <2> QED BY <2>1, <2>2, <2>4, <2>5 DEF RemoveStep, RemoveLeafStep
<1> QED BY <1>1 DEF ramfs_unlink

(* ramfs_rmdir frees the inode its entry leads to, and it holds no buffer. *)
LEMMA RmdirStep ==
  ASSUME IInv, NEW p \in Seq(Name), NEW r, ramfs_rmdir(p, r)
  PROVE  RemoveLeafStep \/ UNCHANGED ramfs_vars
<1> DEFINE parent == ramfs_find_inode(Dirname(p))
           idx    == ramfs_find_inode(p)
           n      == Basename(p)
           k      == FirstMatch(parent, n)
<1>1. CASE /\ IsDir(idx) /\ inodes[idx].entries = <<>>
           /\ parent \in Inode /\ Matches(parent, n) # {}
           /\ RemoveChild(parent, k, idx)
           /\ UNCHANGED <<bufs, overrun>>
  <2>1. TypeOK /\ TreeOK /\ idx \in Inode
    BY <1>1 DEF IInv, IsDir
  <2>2. k \in 1 .. Len(inodes[parent].entries) /\ inodes[parent].entries # <<>>
    <3>1. inodes[parent].entries \in Seq(Dirent)
      BY <1>1 DEF IInv, TypeOK, InodeRecord
    <3>2. k \in 1 .. Len(inodes[parent].entries)
      BY <1>1, <2>1, FirstMatchOK
    <3> QED BY <3>1, <3>2, EmptySeq
  <2>3. parent # idx
    BY <1>1, <2>2
  <2>4. idx = FindIn(parent, n)
    <3>1. CASE p = <<>>
      BY <2>3, <3>1 DEF Dirname
    <3>2. CASE p # <<>>
      BY <3>2, LastTurn
    <3> QED BY <3>1, <3>2
  <2>5. idx = Target(parent, k)
    <3> HIDE DEF parent, idx, k
    <3>1. idx # NoInode
      BY <2>1, TableAssumption DEF Inode, NoInode
    <3> QED BY <2>3, <2>4, <3>1 DEF FindIn, Target, k
  <2>6. bufs' = bufs \ {inodes[Target(parent, k)].data}
    <3>1. inodes[idx].data = NULL /\ NULL \notin bufs
      BY <1>1, <2>1, DataAssumption DEF IInv, KindOK, TypeOK, IsDir
    <3> QED BY <1>1, <2>5, <3>1
  <2> HIDE DEF parent, idx, k
  <2> QED BY <1>1, <2>2, <2>5, <2>6 DEF RemoveLeafStep, Removal
<1>2. CASE UNCHANGED inodes /\ UNCHANGED <<bufs, overrun>>
  BY <1>2 DEF ramfs_vars
<1> QED BY <1>1, <1>2 DEF ramfs_rmdir

(* ramfs_write stores in a file or does nothing.                           *)
LEMMA StoreOrNothing ==
  ASSUME IInv, NEW data \in Seq(Byte), NEW off \in Nat,
         NEW idx, NEW off2, NEW n, ramfs_write(idx, data, off, off2, n)
  PROVE  StoreStep \/ UNCHANGED ramfs_vars
<1> DEFINE needed == Needed(off, data)
<1>1. needed \in Nat
  <2>1. off + Len(data) \in Nat
    BY LenProperties
  <2> QED BY <2>1, TableAssumption DEF Needed
<1> HIDE DEF needed
<1>2. ASSUME IsFile(idx)
      PROVE  inodes[idx].capacity \in Nat
  BY <1>2 DEF IsFile, IInv, TypeOK, InodeRecord
<1>3. ASSUME IsFile(idx), needed > inodes[idx].capacity, NEW b \in Buffers \ bufs,
             bufs' = (bufs \ {inodes[idx].data}) \cup {b},
             Store(idx, b, needed, off, data)
      PROVE  StoreStep
  BY <1>1, <1>3 DEF StoreStep
<1>4. ASSUME IsFile(idx), UNCHANGED bufs,
             Store(idx, inodes[idx].data, inodes[idx].capacity, off, data)
      PROVE  StoreStep
  BY <1>2, <1>4 DEF StoreStep
<1> QED BY <1>3, <1>4 DEF ramfs_write, needed

(* The writes of callers, with any data, store in a file or do nothing.    *)
LEMMA WriteStep ==
  ASSUME IInv, Write
  PROVE  StoreStep \/ UNCHANGED ramfs_vars
<1>1. PICK idx \in Inode, data \in InData, off \in InOffset :
        \E off2, n : ramfs_write(idx, data, off, off2, n)
  BY DEF Write
<1>2. data \in Seq(Byte) /\ off \in Nat
  BY InputAssumption, TableAssumption
<1> QED BY <1>1, <1>2, StoreOrNothing

(* Every step of Next adds an entry, removes one, or stores in a file.     *)
LEMMA NextSteps ==
  ASSUME IInv, [Next]_ramfs_vars
  PROVE  AddStep \/ RemoveStep \/ StoreStep \/ UNCHANGED ramfs_vars
<1>1. RemoveLeafStep => RemoveStep
  BY DEF RemoveLeafStep, RemoveStep
<1>2. CASE Create \/ Mkdir
  BY <1>2, InputAssumption, CreateStep DEF Create, Mkdir
<1>3. CASE Unlink
  BY <1>3, InputAssumption, UnlinkStep DEF Unlink
<1>4. CASE Rmdir
  BY <1>1, <1>4, InputAssumption, RmdirStep DEF Rmdir
<1>5. CASE Write
  BY <1>5, WriteStep
<1> QED BY <1>2, <1>3, <1>4, <1>5 DEF Next

(* Whoever makes these steps, they keep IInv.                              *)
LEMMA StepInvariant ==
  ASSUME IInv, AddStep \/ RemoveStep \/ StoreStep \/ UNCHANGED ramfs_vars
  PROVE  IInv'
<1>1. CASE AddStep
  BY <1>1, AddPreserves DEF AddStep, CanAdd
<1>2. CASE RemoveStep
  BY <1>2, RemovePreserves DEF RemoveStep, Removal
<1>3. CASE StoreStep
  BY <1>3, StorePreserves DEF StoreStep
<1>4. CASE UNCHANGED ramfs_vars
  BY <1>4 DEF IInv, ramfs_vars, TypeOK, TreeOK, KindOK, BuffersOwned, SizeFits,
              Entry, Target, Owners
<1> QED BY <1>1, <1>2, <1>3, <1>4

(* IInv is inductive.                                                      *)
LEMMA NextInvariant ==
  ASSUME IInv, [Next]_ramfs_vars
  PROVE  IInv'
BY NextSteps, StepInvariant

(* The whole invariant of the table, in every state of every execution.    *)
THEOREM Invariance == Spec => []IInv
<1>1. ramfs_init => IInv
  BY InitInvariant
<1>2. IInv /\ [Next]_ramfs_vars => IInv'
  BY NextInvariant
<1> QED BY <1>1, <1>2, PTL DEF Spec

(* The table, the heap and the flag keep their types.                      *)
THEOREM TypeCorrect == Spec => []TypeOK
<1>1. IInv => TypeOK
  BY DEF IInv
<1> QED BY <1>1, Invariance, PTL

(* The inodes form a tree: whatever is created, removed and reused, no     *)
(* entry dangles and no inode has two names.                               *)
THEOREM TreeCorrect == Spec => []TreeOK
<1>1. IInv => TreeOK
  BY DEF IInv
<1> QED BY <1>1, Invariance, PTL

(* Files have no entries and directories no data.                          *)
THEOREM KindCorrect == Spec => []KindOK
<1>1. IInv => KindOK
  BY DEF IInv
<1> QED BY <1>1, Invariance, PTL

(* Every allocated buffer belongs to one file in use: none is leaked, none *)
(* freed while a file still points to it.                                  *)
THEOREM BuffersCorrect == Spec => []BuffersOwned
<1>1. IInv => BuffersOwned
  BY DEF IInv
<1> QED BY <1>1, Invariance, PTL

(* A file is never longer than its buffer.                                 *)
THEOREM SizeCorrect == Spec => []SizeFits
<1>1. IInv => SizeFits
  BY DEF IInv
<1> QED BY <1>1, Invariance, PTL

(* The entries of a directory are names of different inodes, the root not  *)
(* among them: there are fewer than RAMFS_MAX_FILES.                       *)
LEMMA TreeNeverFull ==
  ASSUME TypeOK, TreeOK
  PROVE  NeverFull
<1> SUFFICES ASSUME NEW d \in Inode, ~(Len(inodes[d].entries) < RAMFS_MAX_FILES)
             PROVE  FALSE
  BY DEF NeverFull
<1> DEFINE S == 1 .. Len(inodes[d].entries)
           T == 1 .. RAMFS_MAX_FILES - 1
           f == [k \in S |-> Target(d, k)]
<1>1. inodes[d].entries \in Seq(Dirent) /\ Len(inodes[d].entries) \in Nat
  <2>1. inodes[d].entries \in Seq(Dirent)
    BY DEF TypeOK, InodeRecord
  <2> QED BY <2>1, LenProperties
<1>2. \A k \in S : k \in Entry(d) /\ Target(d, k) \in T
  <2>1. ASSUME NEW k \in S
        PROVE  k \in Entry(d) /\ Target(d, k) \in T
    <3>1. k \in Entry(d)
      BY <1>1, LenProperties DEF Entry
    <3>2. inodes[d].entries[k] \in Dirent
      BY <1>1, ElementOfSeq
    <3>3. Target(d, k) \in Inode /\ Target(d, k) # Root
      BY <3>1, <3>2 DEF Target, Dirent, TreeOK
    <3> QED BY <3>1, <3>3, TableAssumption DEF Inode, Root
  <2> QED BY <2>1
<1>3. f \in [S -> T]
  BY <1>2
<1>4. IsFiniteSet(S) /\ Cardinality(S) = Len(inodes[d].entries)
  <2>1. IsFiniteSet(S) /\ Cardinality(S) = IF 1 > Len(inodes[d].entries) THEN 0
                                          ELSE Len(inodes[d].entries) - 1 + 1
    <3>1. 1 \in Int /\ Len(inodes[d].entries) \in Int
      BY <1>1
    <3> QED BY <3>1, FS_Interval
  <2> QED BY <1>1, <2>1
<1>5. IsFiniteSet(T) /\ Cardinality(T) = RAMFS_MAX_FILES - 1
  <2>1. 1 \in Int /\ RAMFS_MAX_FILES - 1 \in Int
    BY TableAssumption
  <2>2. IsFiniteSet(T) /\ Cardinality(T) = IF 1 > RAMFS_MAX_FILES - 1 THEN 0
                                          ELSE (RAMFS_MAX_FILES - 1) - 1 + 1
    BY <2>1, FS_Interval
  <2> QED BY <2>2, TableAssumption
<1>6. Cardinality(T) < Cardinality(S)
  BY <1>1, <1>4, <1>5, TableAssumption
<1> HIDE DEF S, T, f
<1>7. PICK x \in S, y \in S : x # y /\ f[x] = f[y]
  BY <1>3, <1>4, <1>5, <1>6, FS_PigeonHole
<1>8. Target(d, x) = Target(d, y)
  BY <1>7 DEF f
<1> QED BY <1>2, <1>7, <1>8 DEF TreeOK

(* No directory ever has RAMFS_MAX_FILES entries, so the 256 slots of      *)
(* entries[] are never used up by 64 inodes and AddChild loses no inode.   *)
THEOREM NeverFullCorrect == Spec => []NeverFull
<1>1. IInv => NeverFull
  BY TreeNeverFull DEF IInv
<1> QED BY <1>1, Invariance, PTL

(* Callers whose offsets and lengths add up to less than 2^32 never make a *)
(* write leave its buffer.                                                 *)
THEOREM NoOverrunCorrect ==
  ASSUME \A off \in InOffset, data \in InData : off + Len(data) < WORD
  PROVE  Spec => []NoOverrun
<1>1. ramfs_init => NoOverrun
  BY DEF ramfs_init, NoOverrun
<1>2. ASSUME IInv, NoOverrun, [Next]_ramfs_vars
      PROVE  NoOverrun'
  <2>1. CASE Write
    <3>1. PICK idx \in Inode, data \in InData, off \in InOffset :
            \E off2, n : ramfs_write(idx, data, off, off2, n)
      BY <2>1 DEF Write
    <3>2. /\ off \in Nat /\ Len(data) \in Nat /\ off + Len(data) < WORD
          /\ data \in Seq(Byte)
      BY InputAssumption, TableAssumption, LenProperties
    <3>3. Needed(off, data) = off + Len(data)
      BY <3>2, TableAssumption DEF Needed
    <3>4. ASSUME NEW cap \in Nat, Needed(off, data) <= cap, NEW buf,
                 Store(idx, buf, cap, off, data), IsFile(idx)
          PROVE  NoOverrun'
      <4>1. Len(inodes[idx].bytes) \in Nat
        BY <3>4, LenProperties DEF IInv, TypeOK, InodeRecord, IsFile
      <4>2. Fits(inodes[idx].bytes, off, data, cap)
        BY <3>2, <3>3, <3>4, <4>1 DEF Fits
      <4> QED BY <1>2, <3>4, <4>2 DEF Store, NoOverrun
    <3>5. ASSUME IsFile(idx)
          PROVE  inodes[idx].capacity \in Nat
      BY <1>2, <3>5 DEF IInv, TypeOK, InodeRecord, IsFile
    <3>6. Needed(off, data) \in Nat /\ Needed(off, data) <= Needed(off, data)
      BY <3>2, <3>3
    <3> QED BY <1>2, <3>1, <3>4, <3>5, <3>6 DEF ramfs_write, ramfs_vars, NoOverrun
  <2>2. CASE UNCHANGED ramfs_vars
    BY <1>2, <2>2 DEF ramfs_vars, NoOverrun
  <2>3. CASE Create \/ Mkdir \/ Unlink \/ Rmdir
    BY <1>2, <2>3 DEF Create, Mkdir, Unlink, Rmdir, ramfs_create, ramfs_mkdir,
                      ramfs_unlink, ramfs_rmdir, ramfs_vars, NoOverrun
  <2> QED BY <1>2, <2>1, <2>2, <2>3 DEF Next
<1> QED BY <1>1, <1>2, Invariance, PTL DEF Spec

-----------------------------------------------------------------------------
(* Names and lost inodes.                                                  *)

(* The entries of the slots after the calls that add one.                  *)
LEMMA AddEntries ==
  ASSUME TypeOK, NEW f \in Inode, NEW d \in Inode, NEW n \in Name, NEW type,
         Added(f, d, n, type)
  PROVE  /\ \A x \in Inode \ {f, d} : inodes'[x] = inodes[x]
         /\ inodes'[f].entries = <<>> /\ inodes'[f].used
         /\ inodes'[d].used = inodes[d].used
         /\ \/ inodes'[d] = inodes[d]
            \/ inodes'[d].entries = Append(inodes[d].entries,
                                          [name |-> Trunc[n], inode_idx |-> f])
  BY DEF Added, FreshInode, TypeOK, InodeRecord

(* A write changes no entry and no type and frees no slot.                 *)
LEMMA StoreKeepsEntries ==
  ASSUME IInv, StoreStep
  PROVE  \A x \in Inode : /\ inodes'[x].entries = inodes[x].entries
                            /\ inodes'[x].used = inodes[x].used
                            /\ inodes'[x].type = inodes[x].type
<1>1. PICK idx, buf, cap, off, data : IsFile(idx) /\ Store(idx, buf, cap, off, data)
  BY DEF StoreStep
<1>2. idx \in Inode /\ inodes[idx] \in InodeRecord /\ inodes \in [Inode -> InodeRecord]
  BY <1>1 DEF IInv, TypeOK, IsFile
<1>3. ASSUME NEW x \in Inode, NEW bytes, NEW rec,
             rec = [inodes[idx] EXCEPT !.bytes = bytes, !.data = buf, !.capacity = cap],
             inodes' = [inodes EXCEPT ![idx] = rec]
      PROVE  /\ inodes'[x].entries = inodes[x].entries /\ inodes'[x].used = inodes[x].used
             /\ inodes'[x].type = inodes[x].type
  <2>1. rec.entries = inodes[idx].entries /\ rec.used = inodes[idx].used /\ rec.type = inodes[idx].type
    BY <1>2, <1>3 DEF InodeRecord
  <2>2. x # idx => inodes'[x] = inodes[x]
    BY <1>2, <1>3
  <2>3. inodes'[idx] = rec
    BY <1>2, <1>3
  <2> QED BY <2>1, <2>2, <2>3
<1>4. CASE inodes' = [inodes EXCEPT ![idx].bytes = Patch(@, off, data), ![idx].data = buf,
                                    ![idx].capacity = cap]
  <2> DEFINE rec == [inodes[idx] EXCEPT !.bytes = Patch(@, off, data), !.data = buf,
                                        !.capacity = cap]
  <2>1. inodes' = [inodes EXCEPT ![idx] = rec]
    BY <1>2, <1>4
  <2> QED BY <1>3, <2>1
<1>5. CASE inodes' = [inodes EXCEPT ![idx].data = buf, ![idx].capacity = cap]
  <2> DEFINE rec == [inodes[idx] EXCEPT !.bytes = inodes[idx].bytes, !.data = buf,
                                        !.capacity = cap]
  <2>1. inodes' = [inodes EXCEPT ![idx] = rec]
    BY <1>2, <1>5 DEF InodeRecord
  <2> QED BY <1>3, <2>1
<1> QED BY <1>1, <1>4, <1>5 DEF Store

(* As long as no name is cut, no call gives a directory two entries of one *)
(* name.                                                                   *)
LEMMA UniqueNamesKept ==
  ASSUME \A n \in Name : Trunc[n] = n, IInv, UniqueNames,
         AddStep \/ RemoveStep \/ StoreStep \/ UNCHANGED ramfs_vars
  PROVE  UniqueNames'
<1>1. ASSUME NEW d, NEW n \in Name, Found(d), CanAdd(d, n),
             NEW type \in {FILE, DIR}, NEW success, NEW r, AddChild(d, n, type, success, r)
      PROVE  UniqueNames'
  <2>0. TypeOK /\ TreeOK /\ IsDir(d) /\ FreeInodes # {} /\ d \in Inode /\ Matches(d, n) = {}
    BY <1>1 DEF IInv, CanAdd, IsDir
  <2>1. PICK f \in Inode : Added(f, d, n, type)
    BY <1>1, <2>0, AddFacts
  <2> DEFINE ent == [name |-> Trunc[n], inode_idx |-> f]
  <2>2. ent \in Dirent /\ ent.name = n
    BY <2>1, NameAssumption DEF Dirent
  <2>3. /\ \A x \in Inode \ {f, d} : inodes'[x] = inodes[x]
        /\ inodes'[f].entries = <<>>
        /\ \/ inodes'[d] = inodes[d]
           \/ inodes'[d].entries = Append(inodes[d].entries, ent)
    BY <2>0, <2>1, AddEntries
  <2> HIDE DEF ent
  <2>4. ASSUME NEW x \in Inode, NEW j \in Entry(x)', NEW k \in Entry(x)',
               inodes'[x].entries[j].name = inodes'[x].entries[k].name
        PROVE  j = k
    <3>1. CASE inodes'[x] = inodes[x]
      BY <1>1, <2>4, <3>1 DEF UniqueNames, Entry
    <3>2. CASE x = f
      BY <2>3, <2>4, <3>2 DEF Entry
    <3>3. CASE x = d /\ inodes'[d].entries = Append(inodes[d].entries, ent)
      <4> DEFINE s == inodes[d].entries
      <4>1. s \in Seq(Dirent) /\ Len(s) \in Nat /\ DOMAIN s = 1 .. Len(s)
        <5>1. s \in Seq(Dirent)
          BY <2>0 DEF TypeOK, InodeRecord
        <5> QED BY <5>1, LenProperties
      <4>2. \A i \in 1 .. Len(s) : s[i].name # n
        BY <2>0 DEF Matches
      <4>3. \A i, m \in 1 .. Len(s) : s[i].name = s[m].name => i = m
        BY <1>1, <2>0, <4>1 DEF UniqueNames, Entry
      <4>4. inodes'[d].entries = Append(s, ent)
        BY <3>3
      <4> HIDE DEF s
      <4>5. /\ Append(s, ent) \in Seq(Dirent) /\ Len(Append(s, ent)) = Len(s) + 1
            /\ \A i \in 1 .. Len(s) : Append(s, ent)[i] = s[i]
            /\ Append(s, ent)[Len(s) + 1] = ent
        BY <2>2, <4>1, AppendProperties
      <4>6. j \in 1 .. Len(s) + 1 /\ k \in 1 .. Len(s) + 1
        BY <2>4, <3>3, <4>4, <4>5, LenProperties DEF Entry
      <4>7. Append(s, ent)[j].name = Append(s, ent)[k].name
        BY <2>4, <3>3, <4>4
      <4> QED BY <2>2, <4>1, <4>2, <4>3, <4>5, <4>6, <4>7
    <3> QED BY <2>3, <3>1, <3>2, <3>3
  <2> QED BY <2>4 DEF UniqueNames
<1>2. ASSUME NEW d \in Inode, NEW k \in 1 .. Len(inodes[d].entries),
             RemoveChild(d, k, Target(d, k))
      PROVE  UniqueNames'
  <2>0. TypeOK
    BY <1>2 DEF IInv
  <2>1. /\ \A x \in Inode \ {d} : inodes'[x].entries = inodes[x].entries
        /\ inodes'[d].entries = RemoveAt(inodes[d].entries, k)
    BY <1>2, <2>0, RemoveFacts
  <2>2. ASSUME NEW x \in Inode, NEW i \in Entry(x)', NEW j \in Entry(x)',
               inodes'[x].entries[i].name = inodes'[x].entries[j].name
        PROVE  i = j
    <3>1. CASE x # d
      BY <1>2, <2>1, <2>2, <3>1 DEF UniqueNames, Entry
    <3>2. CASE x = d
      <4> DEFINE s == inodes[d].entries
      <4>1. s \in Seq(Dirent) /\ Len(s) \in Nat /\ DOMAIN s = 1 .. Len(s)
        <5>1. s \in Seq(Dirent)
          BY <2>0 DEF TypeOK, InodeRecord
        <5> QED BY <5>1, LenProperties
      <4>2. k \in 1 .. Len(s)
        BY <1>2
      <4>3. \A a, b \in 1 .. Len(s) : s[a].name = s[b].name => a = b
        BY <1>2, <4>1 DEF UniqueNames, Entry
      <4>4. inodes'[d].entries = RemoveAt(s, k)
        BY <2>1
      <4> HIDE DEF s
      <4>5. /\ RemoveAt(s, k) \in Seq(Dirent) /\ Len(RemoveAt(s, k)) = Len(s) - 1
            /\ \A m \in 1 .. Len(s) - 1 :
                 RemoveAt(s, k)[m] = IF m < k THEN s[m] ELSE s[m + 1]
        BY <4>1, <4>2, RemoveAtProperties
      <4>6. i \in 1 .. Len(s) - 1 /\ j \in 1 .. Len(s) - 1
        BY <2>2, <3>2, <4>4, <4>5, LenProperties DEF Entry
      <4>7. RemoveAt(s, k)[i].name = RemoveAt(s, k)[j].name
        BY <2>2, <3>2, <4>4
      <4> QED BY <4>1, <4>2, <4>3, <4>5, <4>6, <4>7
    <3> QED BY <3>1, <3>2
  <2> QED BY <2>2 DEF UniqueNames
<1>3. CASE AddStep
  BY <1>1, <1>3 DEF AddStep
<1>4. CASE RemoveStep
  BY <1>2, <1>4 DEF RemoveStep, Removal
<1>5. CASE StoreStep \/ UNCHANGED ramfs_vars
  <2>1. \A x \in Inode : inodes'[x].entries = inodes[x].entries
    BY <1>5, StoreKeepsEntries DEF ramfs_vars
  <2> QED BY <2>1 DEF UniqueNames, Entry
<1> QED BY <1>3, <1>4, <1>5

(* When no name is cut, a directory never gets two entries of one name.    *)
THEOREM UniqueNamesCorrect ==
  ASSUME \A n \in Name : Trunc[n] = n
  PROVE  Spec => []UniqueNames
<1>1. ramfs_init => UniqueNames
  BY DEF ramfs_init, FreshInode, UniqueNames, Entry
<1>2. ASSUME IInv, UniqueNames, [Next]_ramfs_vars
      PROVE  UniqueNames'
  BY <1>2, NextSteps, UniqueNamesKept
<1> QED BY <1>1, <1>2, Invariance, PTL DEF Spec

(* The same of FilesNext, where what is removed has no entries.            *)
LEMMA FilesSteps ==
  ASSUME IInv, [FilesNext]_ramfs_vars
  PROVE  AddStep \/ RemoveLeafStep \/ StoreStep \/ UNCHANGED ramfs_vars
<1>1. CASE Create \/ Mkdir
  BY <1>1, InputAssumption, CreateStep DEF Create, Mkdir
<1>2. CASE UnlinkFile
  BY <1>2, InputAssumption, UnlinkStep DEF UnlinkFile
<1>3. CASE Rmdir
  BY <1>3, InputAssumption, RmdirStep DEF Rmdir
<1>4. CASE Write
  BY <1>4, WriteStep
<1> QED BY <1>1, <1>2, <1>3, <1>4 DEF FilesNext

(* The inodes with an entry in a directory in use.                         *)
Linked(i) == \E d \in Inode : inodes[d].used /\ \E k \in Entry(d) : Target(d, k) = i

(* Adding an entry links the new inode and unlinks none.                   *)
LEMMA AddKeepsLinks ==
  ASSUME IInv, NoOrphans, AddStep, MAX_ENTRIES >= RAMFS_MAX_FILES
  PROVE  NoOrphans'
<1>0. PICK d, success, r : \E n \in Name, type \in {FILE, DIR} :
        Found(d) /\ CanAdd(d, n) /\ AddChild(d, n, type, success, r)
  BY DEF AddStep
<1>1. PICK n \in Name, type \in {FILE, DIR} :
        Found(d) /\ CanAdd(d, n) /\ AddChild(d, n, type, success, r)
  BY <1>0
<1>2. TypeOK /\ TreeOK /\ IsDir(d) /\ d \in Inode /\ inodes[d].used /\ FreeInodes # {}
  BY <1>1 DEF IInv, CanAdd, IsDir, Found, NoInode, Inode
<1>3. inodes[d].entries \in Seq(Dirent) /\ Len(inodes[d].entries) \in Nat
  <2>1. inodes[d].entries \in Seq(Dirent)
    BY <1>2 DEF TypeOK, InodeRecord
  <2> QED BY <2>1, LenProperties
<1>4. Len(inodes[d].entries) < MAX_ENTRIES
  <2>1. Len(inodes[d].entries) < RAMFS_MAX_FILES
    BY <1>2, TreeNeverFull DEF NeverFull
  <2> QED BY <1>3, <2>1, TableAssumption
<1> DEFINE f   == FirstFree
           ent == [name |-> Trunc[n], inode_idx |-> f]
           s   == inodes[d].entries
<1>5. inodes' = [inodes EXCEPT ![f] = FreshInode(TRUE, type), ![d].entries = Append(@, ent)]
  <2>1. ~(Len(inodes[d].entries) >= MAX_ENTRIES)
    BY <1>3, <1>4, TableAssumption
  <2> QED BY <1>1, <2>1 DEF AddChild
<1>6. f \in Inode /\ ~inodes[f].used /\ f # d
  <2>1. FreeInodes \in SUBSET Nat
    BY TableAssumption DEF FreeInodes, Inode
  <2>2. FirstFree \in FreeInodes
    BY <1>2, <2>1, LeastNatural DEF FirstFree
  <2> QED BY <1>2, <2>2 DEF FreeInodes
<1> HIDE DEF f
<1>7. /\ \A x \in Inode \ {f, d} : inodes'[x] = inodes[x]
      /\ inodes'[d] = [inodes[d] EXCEPT !.entries = Append(@, ent)]
  BY <1>2, <1>5, <1>6 DEF TypeOK
<1>8. inodes'[d].used /\ inodes'[d].entries = Append(s, ent)
  BY <1>2, <1>7 DEF TypeOK, InodeRecord
<1>9. ent \in Dirent /\ ent.inode_idx = f
  BY <1>6, NameAssumption DEF Dirent
<1> HIDE DEF ent
<1>10. /\ Append(s, ent) \in Seq(Dirent)
       /\ Len(Append(s, ent)) = Len(s) + 1
       /\ \A i \in 1 .. Len(s) : Append(s, ent)[i] = s[i]
       /\ Append(s, ent)[Len(s) + 1] = ent
  BY <1>3, <1>9, AppendProperties
<1> HIDE DEF s
<1>11. Entry(d) = 1 .. Len(s) /\ Entry(d)' = 1 .. Len(s) + 1
  BY <1>3, <1>8, <1>10, LenProperties DEF Entry, s
<1>12. ASSUME NEW i \in Inode \ {Root}, inodes'[i].used
       PROVE  Linked(i)'
  <2>1. CASE i = f
    <3>1. PICK k \in Nat : k = Len(s) + 1
      BY <1>3
    <3>2. k \in Entry(d)' /\ Target(d, k)' = i
      BY <1>3, <1>8, <1>9, <1>10, <1>11, <2>1, <3>1 DEF Target
    <3> QED BY <1>2, <1>8, <3>2 DEF Linked
  <2>2. CASE i # f
    <3>1. inodes[i].used
      BY <1>2, <1>7, <1>12, <2>2
    <3>2. PICK x \in Inode : inodes[x].used /\ \E k \in Entry(x) : Target(x, k) = i
      BY <3>1 DEF NoOrphans
    <3>3. PICK k \in Entry(x) : Target(x, k) = i
      BY <3>2
    <3>4. CASE x = d
      <4>1. k \in Entry(d)' /\ Target(d, k)' = i
        <5>1. k \in 1 .. Len(s) /\ s[k].inode_idx = i
          BY <1>11, <3>3, <3>4 DEF Target, s
        <5>2. k \in Entry(d)' /\ Append(s, ent)[k] = s[k]
          BY <1>3, <1>10, <1>11, <5>1 DEF s
        <5> QED BY <1>8, <5>1, <5>2 DEF Target
      <4> QED BY <1>2, <1>8, <4>1 DEF Linked
    <3>5. CASE x # d
      <4>1. inodes'[x] = inodes[x]
        BY <1>6, <1>7, <3>2, <3>5
      <4>2. k \in Entry(x)' /\ Target(x, k)' = i /\ inodes'[x].used
        BY <3>2, <3>3, <4>1 DEF Entry, Target
      <4> QED BY <4>2 DEF Linked
    <3> QED BY <3>4, <3>5
  <2> QED BY <2>1, <2>2
<1> QED BY <1>12 DEF NoOrphans, Linked

(* Removing an inode without entries leaves the other inodes linked.       *)
LEMMA RemoveLeafKeepsLinks ==
  ASSUME IInv, NoOrphans, RemoveLeafStep
  PROVE  NoOrphans'
<1>0. PICK d \in Inode : \E k \in 1 .. Len(inodes[d].entries) :
        Removal(d, k) /\ inodes[Target(d, k)].entries = <<>>
  BY DEF RemoveLeafStep
<1>1. PICK k \in 1 .. Len(inodes[d].entries) :
        Removal(d, k) /\ inodes[Target(d, k)].entries = <<>>
  BY <1>0
<1> DEFINE s == inodes[d].entries
<1>2. TypeOK
  BY DEF IInv
<1> DEFINE Changed(x) == /\ x = Target(d, k) => ~inodes'[x].used
                         /\ x # Target(d, k) => inodes'[x].used = inodes[x].used
                         /\ x # d => inodes'[x].entries = inodes[x].entries
<1>3. /\ Target(d, k) \in Inode
      /\ \A x \in Inode : Changed(x)
      /\ inodes'[d].entries = RemoveAt(s, k)
  BY <1>1, <1>2, RemoveFacts DEF Removal
<1> HIDE DEF Changed
<1>a. ASSUME NEW x \in Inode
      PROVE  Changed(x)
  BY <1>3
<1>4. s \in Seq(Dirent) /\ Len(s) \in Nat /\ Entry(d) = 1 .. Len(s) /\ k \in 1 .. Len(s)
  <2>1. s \in Seq(Dirent)
    BY DEF IInv, TypeOK, InodeRecord
  <2> QED BY <1>1, <2>1, LenProperties DEF Entry
<1>5. /\ RemoveAt(s, k) \in Seq(Dirent) /\ Len(RemoveAt(s, k)) = Len(s) - 1
      /\ \A m \in 1 .. Len(s) - 1 : RemoveAt(s, k)[m] = IF m < k THEN s[m] ELSE s[m + 1]
  BY <1>4, RemoveAtProperties
<1>6. Entry(d)' = 1 .. Len(s) - 1
  BY <1>3, <1>5, LenProperties DEF Entry
<1>7. Entry(Target(d, k)) = {}
  BY <1>1 DEF Entry
<1>8. ASSUME NEW i \in Inode \ {Root}, inodes'[i].used
      PROVE  Linked(i)'
  <2>1. inodes[i].used /\ i # Target(d, k)
    <3>1. Changed(i)
      BY <1>a
    <3> QED BY <1>8, <3>1, Zenon DEF Changed
  <2>2. PICK x \in Inode : inodes[x].used /\ \E j \in Entry(x) : Target(x, j) = i
    BY <2>1 DEF NoOrphans
  <2>3. PICK j \in Entry(x) : Target(x, j) = i
    BY <2>2
  <2>4. inodes'[x].used /\ (x # d => inodes'[x].entries = inodes[x].entries)
    <3>1. x # Target(d, k)
      BY <1>7, <2>3
    <3>2. Changed(x)
      BY <1>a
    <3> QED BY <2>2, <3>1, <3>2 DEF Changed
  <2>5. CASE x # d
    <3>1. j \in Entry(x)' /\ Target(x, j)' = i
      BY <2>3, <2>4, <2>5 DEF Entry, Target
    <3> QED BY <2>4, <3>1 DEF Linked
  <2>6. CASE x = d
    <3> DEFINE m == IF j < k THEN j ELSE j - 1
    <3>1. j \in 1 .. Len(s) /\ j # k
      BY <1>4, <2>1, <2>3, <2>6
    <3>2. m \in 1 .. Len(s) - 1 /\ (IF m < k THEN m ELSE m + 1) = j
      BY <1>4, <3>1
    <3> HIDE DEF m
    <3>3. RemoveAt(s, k)[m] = s[j]
      BY <1>5, <3>2
    <3>4. Target(d, m)' = i
      BY <1>3, <2>3, <2>6, <3>3 DEF Target
    <3> QED BY <1>6, <2>4, <2>6, <3>2, <3>4 DEF Linked
  <2> QED BY <2>5, <2>6
<1> QED BY <1>8 DEF NoOrphans, Linked

(* When only files are unlinked and entries[] has a slot for every inode,  *)
(* as 256 has for 64, no inode in use is ever lost.                        *)
THEOREM NoOrphansCorrect ==
  ASSUME MAX_ENTRIES >= RAMFS_MAX_FILES
  PROVE  FilesSpec => []NoOrphans
<1>1. ramfs_init => IInv /\ NoOrphans
  <2>1. ramfs_init => NoOrphans
    BY DEF ramfs_init, NoOrphans, FreshInode
  <2> QED BY <2>1, InitInvariant
<1>2. ASSUME IInv /\ NoOrphans, [FilesNext]_ramfs_vars
      PROVE  (IInv /\ NoOrphans)'
  <2>1. AddStep \/ RemoveLeafStep \/ StoreStep \/ UNCHANGED ramfs_vars
    BY <1>2, FilesSteps
  <2>2. IInv'
    <3>1. FilesNext => Next
      BY DEF FilesNext, Next, UnlinkFile, Unlink
    <3> QED BY <1>2, <3>1, NextInvariant
  <2>3. CASE StoreStep \/ UNCHANGED ramfs_vars
    <3>1. \A x \in Inode : /\ inodes'[x].entries = inodes[x].entries
                           /\ inodes'[x].used = inodes[x].used
      BY <1>2, <2>3, StoreKeepsEntries DEF ramfs_vars
    <3>2. \A x \in Inode : Entry(x)' = Entry(x) /\ \A k : Target(x, k)' = Target(x, k)
      BY <3>1 DEF Entry, Target
    <3>3. NoOrphans'
      BY <1>2, <3>1, <3>2 DEF NoOrphans
    <3> QED BY <2>2, <3>3
  <2>4. CASE AddStep
    BY <1>2, <2>2, <2>4, AddKeepsLinks
  <2>5. CASE RemoveLeafStep
    BY <1>2, <2>2, <2>5, RemoveLeafKeepsLinks
  <2> QED BY <2>1, <2>3, <2>4, <2>5
<1> QED BY <1>1, <1>2, PTL DEF FilesSpec

-----------------------------------------------------------------------------
(* The table as a tree of paths: what FsTree promises.  All is shown of    *)
(* any table t, to hold before and after a step.                           *)

Part == Name \ {Empty}

(* TypeOK, TreeOK and UniqueNames of a table t.                            *)
Sound(t) ==
  /\ t \in [Inode -> InodeRecord]
  /\ t[Root].used /\ t[Root].type = DIR
  /\ \A d \in Inode : \A k \in DOMAIN t[d].entries :
       t[d].entries[k].inode_idx # Root /\ t[t[d].entries[k].inode_idx].used
  /\ \A d1, d2 \in Inode : \A k1 \in DOMAIN t[d1].entries, k2 \in DOMAIN t[d2].entries :
       t[d1].entries[k1].inode_idx = t[d2].entries[k2].inode_idx => d1 = d2 /\ k1 = k2
  /\ \A d \in Inode : \A j, k \in DOMAIN t[d].entries :
       t[d].entries[j].name = t[d].entries[k].name => j = k

(* The invariants say so of the table, before and after a step.            *)
LEMMA SoundTable ==
  /\ IInv /\ UniqueNames => Sound(inodes)
  /\ IInv' /\ UniqueNames' => Sound(inodes')
<1>1. IInv /\ UniqueNames => Sound(inodes)
  BY DEF IInv, TypeOK, TreeOK, UniqueNames, Sound, Entry, Target
<1>2. IInv' /\ UniqueNames' => Sound(inodes')
  BY DEF IInv, TypeOK, TreeOK, UniqueNames, Sound, Entry, Target
<1> QED BY <1>1, <1>2

(* Induction over paths, for what can be said as a set of them.            *)
LEMMA PathInduction ==
  ASSUME NEW N, NEW S, <<>> \in S,
         \A q \in Seq(N), n \in N : q \in S => Append(q, n) \in S
  PROVE  Seq(N) \subseteq S
<1> DEFINE Bad == {k \in Nat : \E q \in Seq(N) : Len(q) = k /\ q \notin S}
<1>1. SUFFICES ASSUME NEW p \in Seq(N), p \notin S PROVE FALSE
  OBVIOUS
<1>2. Len(p) \in Bad
  BY <1>1, LenProperties
<1>3. PICK k \in Bad : \A j \in Bad : k <= j
  <2>1. Bad \in SUBSET Nat /\ Bad # {}
    BY <1>2
  <2> HIDE DEF Bad
  <2> QED BY <2>1, LeastNatural
<1>4. PICK q \in Seq(N) : k \in Nat /\ Len(q) = k /\ q \notin S
  BY <1>3
<1>5. PICK r \in Seq(N), n \in N : q = Append(r, n)
  BY <1>4, SequenceEmptyOrAppend
<1>6. Len(r) \in Nat /\ Len(r) < k
  <2>1. Len(r) \in Nat /\ Len(Append(r, n)) = Len(r) + 1
    BY LenProperties, AppendProperties
  <2> QED BY <1>4, <1>5, <2>1
<1>7. r \notin S
  BY <1>4, <1>5
<1>8. Len(r) \in Bad
  BY <1>6, <1>7
<1> HIDE DEF Bad
<1>9. k <= Len(r)
  BY <1>3, <1>8
<1> QED BY <1>4, <1>6, <1>9

(* strrchr splits a path at its last part.                                 *)
LEMMA LastOfPath ==
  ASSUME NEW p \in Seq(Name), NEW n \in Name
  PROVE  Dirname(Append(p, n)) = p /\ Basename(Append(p, n)) = n
<1>1. /\ Len(p) \in Nat /\ Len(Append(p, n)) = Len(p) + 1 /\ Append(p, n)[Len(p) + 1] = n
      /\ Append(p, n) # <<>>
  BY LenProperties, AppendProperties
<1>2. SubSeq(Append(p, n), 1, Len(p)) = p
  <2>1. Append(p, n) = p \o <<n>> /\ <<n>> \in Seq(Name)
    BY AppendIsConcat
  <2> QED BY <1>1, <2>1, AppendProperties
<1> QED BY <1>1, <1>2 DEF Dirname, Basename, Front, Last

(* The empty path leads to the root, and one part more a turn further.     *)
LEMMA EndsAppend ==
  ASSUME NEW t
  PROVE  /\ Ends(t, <<>>) = Root
         /\ \A p \in Seq(Name), n \in Name : Ends(t, Append(p, n)) = StepIn(t, Ends(t, p), n)
<1>1. Ends(t, <<>>) = Root
  <2>1. <<>> \in Seq(Name) /\ Len(<<>>) = 0
    BY EmptySeq
  <2>2. PICK f : IsWalk(t, f, <<>>, Len(<<>>)) /\ Ends(t, <<>>) = f[Len(<<>>)]
    BY <2>1, WalkOfPath
  <2> QED BY <2>1, <2>2 DEF IsWalk, Turn
<1>2. ASSUME NEW p \in Seq(Name), NEW n \in Name
      PROVE  Ends(t, Append(p, n)) = StepIn(t, Ends(t, p), n)
  <2>1. Append(p, n) \in Seq(Name) /\ Append(p, n) # <<>>
    BY AppendProperties
  <2>2. Dirname(Append(p, n)) = p /\ Basename(Append(p, n)) = n
    BY LastOfPath
  <2> QED BY <2>1, <2>2, EndsLast
<1> QED BY <1>1, <1>2

(* A path without empty parts is a path.                                   *)
LEMMA PartPaths == \A p \in Seq(Part) : p \in Seq(Name)
BY SeqMonotonic DEF Part

(* A turn from a directory of t: the entry of that name, or nowhere.       *)
LEMMA StepInIs ==
  ASSUME NEW t, Sound(t), NEW d \in Inode, t[d].type = DIR, NEW n \in Part
  PROVE  /\ \A k \in DOMAIN t[d].entries :
              t[d].entries[k].name = n => StepIn(t, d, n) = t[d].entries[k].inode_idx
         /\ (\A k \in DOMAIN t[d].entries : t[d].entries[k].name # n) => StepIn(t, d, n) = NoInode
<1>1. t[d].entries \in Seq(Dirent) /\ DOMAIN t[d].entries = 1 .. Len(t[d].entries)
  <2>1. t[d].entries \in Seq(Dirent)
    BY DEF Sound, InodeRecord
  <2> QED BY <2>1, LenProperties
<1>2. n # Empty
  BY DEF Part
<1>3. ASSUME NEW k \in DOMAIN t[d].entries, t[d].entries[k].name = n
      PROVE  StepIn(t, d, n) = t[d].entries[k].inode_idx
  <2>1. MatchesIn(t, d, n) = {k}
    BY <1>1, <1>3 DEF MatchesIn, Sound
  <2>2. FirstIn(t, d, n) = k
    <3>1. k <= k
      BY <1>1, LenProperties
    <3> QED BY <2>1, <3>1 DEF FirstIn
  <2> QED BY <1>2, <2>1, <2>2 DEF StepIn
<1>4. ASSUME \A k \in DOMAIN t[d].entries : t[d].entries[k].name # n
      PROVE  StepIn(t, d, n) = NoInode
  <2>1. MatchesIn(t, d, n) = {}
    BY <1>1, <1>4 DEF MatchesIn
  <2> QED BY <1>2, <2>1 DEF StepIn
<1> QED BY <1>3, <1>4

(* A turn that leads somewhere takes an entry of that name.                *)
LEMMA StepFound ==
  ASSUME NEW t, Sound(t), NEW d, NEW n \in Part, StepIn(t, d, n) # NoInode
  PROVE  /\ d \in Inode /\ t[d].type = DIR
         /\ \E k \in DOMAIN t[d].entries :
              t[d].entries[k].name = n /\ t[d].entries[k].inode_idx = StepIn(t, d, n)
         /\ StepIn(t, d, n) \in Inode \ {Root} /\ t[StepIn(t, d, n)].used
<1>1. d \in Inode /\ t[d].type = DIR
  BY DEF StepIn, Part
<1>2. PICK k \in DOMAIN t[d].entries : t[d].entries[k].name = n
  BY <1>1, StepInIs
<1>3. StepIn(t, d, n) = t[d].entries[k].inode_idx
  BY <1>1, <1>2, StepInIs
<1>4. t[d].entries[k] \in Dirent
  <2>1. t[d].entries \in Seq(Dirent)
    BY <1>1 DEF Sound, InodeRecord
  <2> QED BY <1>2, <2>1, LenProperties, ElementOfSeq
<1>5. t[d].entries[k].inode_idx \in Inode \ {Root} /\ t[t[d].entries[k].inode_idx].used
  BY <1>1, <1>2, <1>4 DEF Sound, Dirent
<1> QED BY <1>1, <1>2, <1>3, <1>5

(* A path leads nowhere or to an inode in use.                             *)
LEMMA EndsUsed ==
  ASSUME NEW t, Sound(t)
  PROVE  \A p \in Seq(Name) :
           Ends(t, p) = NoInode \/ (Ends(t, p) \in Inode /\ t[Ends(t, p)].used)
<1> DEFINE Ok(i) == i = NoInode \/ (i \in Inode /\ t[i].used)
           S == {p \in Seq(Name) : Ok(Ends(t, p))}
<1>1. <<>> \in S
  <2>1. Ok(Root)
    BY TableAssumption DEF Sound, Root, Inode
  <2> QED BY <2>1, EmptySeq, EndsAppend
<1>2. ASSUME NEW p \in Seq(Name), NEW n \in Name, p \in S
      PROVE  Append(p, n) \in S
  <2>1. Append(p, n) \in Seq(Name) /\ Ends(t, Append(p, n)) = StepIn(t, Ends(t, p), n)
    BY AppendProperties, EndsAppend
  <2>2. Ok(StepIn(t, Ends(t, p), n))
    <3>1. CASE n = Empty
      BY <1>2, <3>1 DEF StepIn
    <3>2. CASE n # Empty /\ StepIn(t, Ends(t, p), n) # NoInode
      <4>1. n \in Part
        BY <3>2 DEF Part
      <4> QED BY <3>2, <4>1, StepFound
    <3> QED BY <3>1, <3>2
  <2> QED BY <2>1, <2>2
<1>3. Seq(Name) \subseteq S
  <2> HIDE DEF S
  <2> QED BY <1>1, <1>2, PathInduction
<1> QED BY <1>3

(* strtok skips the empty parts: without them a path leads where it did.   *)
LEMMA CleanPath ==
  ASSUME NEW t
  PROVE  \A p \in Seq(Name) : \E q \in Seq(Part) : Ends(t, q) = Ends(t, p)
<1> DEFINE S == {p \in Seq(Name) : \E q \in Seq(Part) : Ends(t, q) = Ends(t, p)}
<1>1. <<>> \in S
  BY EmptySeq
<1>2. ASSUME NEW p \in Seq(Name), NEW n \in Name, p \in S
      PROVE  Append(p, n) \in S
  <2>1. Append(p, n) \in Seq(Name) /\ Ends(t, Append(p, n)) = StepIn(t, Ends(t, p), n)
    BY AppendProperties, EndsAppend
  <2>2. PICK q \in Seq(Part) : Ends(t, q) = Ends(t, p)
    BY <1>2
  <2>3. CASE n = Empty
    BY <2>1, <2>2, <2>3 DEF StepIn
  <2>4. CASE n \in Part
    <3>1. Append(q, n) \in Seq(Part)
      BY <2>4, AppendProperties
    <3>2. Ends(t, Append(q, n)) = StepIn(t, Ends(t, q), n)
      BY PartPaths, EndsAppend
    <3> QED BY <2>1, <2>2, <3>1, <3>2
  <2> QED BY <2>3, <2>4 DEF Part
<1>3. Seq(Name) \subseteq S
  <2> HIDE DEF S
  <2> QED BY <1>1, <1>2, PathInduction
<1> QED BY <1>3

(* The last turn of a path of parts.                                       *)
LEMMA LastPart ==
  ASSUME NEW t, NEW p \in Seq(Part), NEW n \in Part
  PROVE  Append(p, n) \in Seq(Part) /\ Ends(t, Append(p, n)) = StepIn(t, Ends(t, p), n)
<1>1. p \in Seq(Name) /\ n \in Name
  BY PartPaths DEF Part
<1> QED BY <1>1, AppendProperties, EndsAppend

(* Two paths of parts never lead to the same inode.                        *)
LEMMA PathsDiffer ==
  ASSUME NEW t, Sound(t)
  PROVE  \A p, q \in Seq(Part) : Ends(t, p) = Ends(t, q) /\ Ends(t, p) # NoInode => p = q
<1> DEFINE S == {p \in Seq(Part) : \A q \in Seq(Part) :
                   Ends(t, p) = Ends(t, q) /\ Ends(t, p) # NoInode => p = q}
<1>0. \A p \in Seq(Part), n \in Part :
        Append(p, n) \in Seq(Part) /\ Ends(t, Append(p, n)) = StepIn(t, Ends(t, p), n)
  BY LastPart
<1>1. <<>> \in S
  <2>1. Ends(t, <<>>) = Root /\ <<>> \in Seq(Part)
    BY EndsAppend, EmptySeq
  <2>2. ASSUME NEW q \in Seq(Part), Ends(t, q) = Root
        PROVE  q = <<>>
    <3>1. SUFFICES ASSUME q # <<>> PROVE FALSE
      OBVIOUS
    <3>2. PICK r \in Seq(Part), n \in Part : q = Append(r, n)
      BY <3>1, SequenceEmptyOrAppend
    <3>3. StepIn(t, Ends(t, r), n) = Root /\ Root # NoInode
      BY <1>0, <2>2, <3>2 DEF Root, NoInode
    <3> QED BY <3>3, StepFound
  <2> QED BY <2>1, <2>2
<1>2. ASSUME NEW p \in Seq(Part), NEW n \in Part, p \in S
      PROVE  Append(p, n) \in S
  <2>1. ASSUME NEW q \in Seq(Part), Ends(t, Append(p, n)) = Ends(t, q),
               Ends(t, Append(p, n)) # NoInode
        PROVE  Append(p, n) = q
    <3>1. StepIn(t, Ends(t, p), n) = Ends(t, q) /\ Ends(t, q) # NoInode
      BY <1>0, <2>1
    <3>2. PICK k \in DOMAIN t[Ends(t, p)].entries :
            /\ Ends(t, p) \in Inode /\ Ends(t, q) # Root
            /\ t[Ends(t, p)].entries[k].name = n
            /\ t[Ends(t, p)].entries[k].inode_idx = Ends(t, q)
      BY <3>1, StepFound
    <3>3. PICK r \in Seq(Part), m \in Part : q = Append(r, m)
      <4>1. q # <<>>
        BY <3>2, EndsAppend
      <4> QED BY <4>1, SequenceEmptyOrAppend
    <3>4. StepIn(t, Ends(t, r), m) = Ends(t, q)
      BY <1>0, <3>3
    <3>5. PICK j \in DOMAIN t[Ends(t, r)].entries :
            /\ Ends(t, r) \in Inode
            /\ t[Ends(t, r)].entries[j].name = m
            /\ t[Ends(t, r)].entries[j].inode_idx = Ends(t, q)
      BY <3>1, <3>4, StepFound
    <3>6. Ends(t, p) = Ends(t, r) /\ k = j
      BY <3>2, <3>5 DEF Sound
    <3>7. n = m
      BY <3>2, <3>5, <3>6
    <3>8. Ends(t, p) # NoInode
      BY <3>2, TableAssumption DEF Inode, NoInode
    <3> QED BY <1>2, <3>3, <3>6, <3>7, <3>8
  <2> QED BY <1>0, <2>1
<1>3. Seq(Part) \subseteq S
  <2> HIDE DEF S
  <2> QED BY <1>1, <1>2, PathInduction
<1> QED BY <1>3

(* The inodes along a path are different, so it has less parts than there  *)
(* are inodes.                                                             *)
LEMMA PathsBounded ==
  ASSUME NEW t, Sound(t)
  PROVE  \A p \in Seq(Part) : Ends(t, p) # NoInode => Len(p) <= RAMFS_MAX_FILES - 1
<1> DEFINE Along(p, A) ==
             /\ A \in SUBSET Inode /\ IsFiniteSet(A) /\ Cardinality(A) = Len(p) + 1
             /\ \A i \in A : \E q \in Seq(Part) : Len(q) <= Len(p) /\ Ends(t, q) = i
           S == {p \in Seq(Part) : Ends(t, p) # NoInode => \E A : Along(p, A)}
<1>0. Root \in Inode /\ NoInode \notin Inode
  BY TableAssumption DEF Root, Inode, NoInode
<1>1. <<>> \in S
  <2>1. <<>> \in Seq(Part) /\ Len(<<>>) = 0 /\ Ends(t, <<>>) = Root
    BY EmptySeq, EndsAppend
  <2>2. IsFiniteSet({Root}) /\ Cardinality({Root}) = 1
    BY FS_Singleton
  <2>3. Along(<<>>, {Root})
    <3>1. \E q \in Seq(Part) : Len(q) <= Len(<<>>) /\ Ends(t, q) = Root
      BY <2>1, 0 <= 0
    <3>2. {Root} \in SUBSET Inode /\ Cardinality({Root}) = Len(<<>>) + 1
      BY <1>0, <2>1, <2>2
    <3>3. \A i \in {Root} : i = Root
      OBVIOUS
    <3> QED BY <2>2, <3>1, <3>2, <3>3
  <2> QED BY <2>1, <2>3
<1>2. ASSUME NEW p \in Seq(Part), NEW n \in Part, p \in S
      PROVE  Append(p, n) \in S
  <2> DEFINE e == Ends(t, Append(p, n))
  <2>1. Append(p, n) \in Seq(Part) /\ e = StepIn(t, Ends(t, p), n)
    BY LastPart
  <2>2. Len(p) \in Nat /\ Len(Append(p, n)) = Len(p) + 1
    BY LenProperties, AppendProperties
  <2>3. ASSUME e # NoInode
        PROVE  \E A : Along(Append(p, n), A)
    <3>1. Ends(t, p) # NoInode /\ e \in Inode
      BY <1>0, <2>1, <2>3, StepFound
    <3>2. PICK A : Along(p, A)
      BY <1>2, <3>1
    <3>3. e \notin A
      <4>1. SUFFICES ASSUME e \in A PROVE FALSE
        OBVIOUS
      <4>2. PICK q \in Seq(Part) : Len(q) <= Len(p) /\ Ends(t, q) = e
        BY <3>2, <4>1
      <4>3. q = Append(p, n)
        BY <2>1, <2>3, <4>2, PathsDiffer
      <4> QED BY <2>2, <4>2, <4>3
    <3>4. IsFiniteSet(A \cup {e}) /\ Cardinality(A \cup {e}) = Cardinality(A) + 1
      <4> HIDE DEF e
      <4>1. IsFiniteSet(A)
        BY <3>2
      <4> QED BY <3>3, <4>1, FS_AddElement
    <3>5. ASSUME NEW i \in A \cup {e}
          PROVE  \E q \in Seq(Part) : Len(q) <= Len(Append(p, n)) /\ Ends(t, q) = i
      <4>1. CASE i \in A
        <5>1. PICK q \in Seq(Part) : Len(q) <= Len(p) /\ Ends(t, q) = i
          BY <3>2, <4>1
        <5>2. Len(q) <= Len(Append(p, n))
          <6>1. Len(q) \in Nat
            BY LenProperties
          <6> QED BY <2>2, <5>1, <6>1
        <5> QED BY <5>1, <5>2
      <4>2. CASE i = e
        <5>1. Len(Append(p, n)) <= Len(Append(p, n))
          BY <2>2
        <5> QED BY <2>1, <4>2, <5>1
      <4> QED BY <4>1, <4>2
    <3>6. /\ A \cup {e} \in SUBSET Inode
          /\ Cardinality(A \cup {e}) = Len(Append(p, n)) + 1
      BY <2>2, <3>1, <3>2, <3>4
    <3> HIDE DEF e
    <3>7. Along(Append(p, n), A \cup {e})
      BY <3>4, <3>5, <3>6
    <3> HIDE DEF Along
    <3> QED BY <3>7
  <2> HIDE DEF Along
  <2> QED BY <2>1, <2>3
<1>3. Seq(Part) \subseteq S
  <2> HIDE DEF S
  <2> QED BY <1>1, <1>2, PathInduction
<1>4. IsFiniteSet(Inode) /\ Cardinality(Inode) = RAMFS_MAX_FILES
  <2>1. 0 \in Int /\ RAMFS_MAX_FILES - 1 \in Int
    BY TableAssumption
  <2>2. /\ IsFiniteSet(Inode)
        /\ Cardinality(Inode) = IF 0 > RAMFS_MAX_FILES - 1 THEN 0 ELSE RAMFS_MAX_FILES - 1 - 0 + 1
    BY <2>1, FS_Interval DEF Inode
  <2> QED BY <2>2, TableAssumption
<1>5. ASSUME NEW p \in Seq(Part), Ends(t, p) # NoInode
      PROVE  Len(p) <= RAMFS_MAX_FILES - 1
  <2>1. PICK A : Along(p, A)
    BY <1>3, <1>5
  <2>2. Cardinality(A) <= RAMFS_MAX_FILES
    BY <1>4, <2>1, FS_Subset
  <2>3. Len(p) \in Nat
    BY LenProperties
  <2> QED BY <2>1, <2>2, <2>3, TableAssumption
<1> QED BY <1>5

(* The tree of a table: the paths that lead to an inode, and what it is.   *)
Paths(t) == {p \in Seq(Part) : Ends(t, p) # NoInode}

Shows(i) == [type |-> i.type, bytes |-> i.bytes]

TreeOf(t) == [p \in Paths(t) |-> Shows(t[Ends(t, p)])]

(* The bound on the paths of the refinement mapping leaves none out.       *)
LEMMA PathsAre ==
  ASSUME NEW t, Sound(t)
  PROVE  Paths(t) = {p \in SeqOf(Part, RAMFS_MAX_FILES - 1) : Ends(t, p) # NoInode}
<1>1. ASSUME NEW p \in Seq(Part), Ends(t, p) # NoInode
      PROVE  p \in SeqOf(Part, RAMFS_MAX_FILES - 1)
  <2>1. Len(p) \in Nat /\ p \in [1 .. Len(p) -> Part]
    BY LenProperties
  <2>2. Len(p) \in 0 .. RAMFS_MAX_FILES - 1
    BY <1>1, <2>1, PathsBounded, TableAssumption
  <2> QED BY <2>1, <2>2 DEF SeqOf
<1>2. ASSUME NEW p \in SeqOf(Part, RAMFS_MAX_FILES - 1)
      PROVE  p \in Seq(Part)
  <2>1. PICK m \in 0 .. RAMFS_MAX_FILES - 1 : p \in [1 .. m -> Part]
    BY DEF SeqOf
  <2>2. m \in Nat
    BY TableAssumption
  <2> QED BY <2>1, <2>2, SeqDef
<1> QED BY <1>1, <1>2 DEF Paths

(* The refinement mapping is the tree of the table.                        *)
LEMMA MappingIs ==
  /\ Sound(inodes) => FoundTree = TreeOf(inodes)
  /\ Sound(inodes') => FoundTree' = TreeOf(inodes')
<1>1. /\ \A p : ramfs_find_inode(p) = Ends(inodes, p)
      /\ \A p : ramfs_find_inode(p)' = Ends(inodes', p)
  BY LookupEnds
<1>2. ASSUME Sound(inodes)
      PROVE  FoundTree = TreeOf(inodes)
  <2>1. Paths(inodes) = {p \in SeqOf(Part, RAMFS_MAX_FILES - 1) : Ends(inodes, p) # NoInode}
    BY <1>2, PathsAre
  <2>2. TreePaths = Paths(inodes)
    BY <1>1, <2>1 DEF TreePaths, Part
  <2> QED BY <1>1, <2>2 DEF FoundTree, TreeOf, Shows
<1>3. ASSUME Sound(inodes')
      PROVE  FoundTree' = TreeOf(inodes')
  <2>1. Paths(inodes') = {p \in SeqOf(Part, RAMFS_MAX_FILES - 1) : Ends(inodes', p) # NoInode}
    BY <1>3, PathsAre
  <2>2. TreePaths' = Paths(inodes')
    BY <1>1, <2>1 DEF TreePaths, Part
  <2> QED BY <1>1, <2>2 DEF FoundTree, TreeOf, Shows
<1> QED BY <1>2, <1>3

(* Nothing is below nowhere.                                               *)
LEMMA StepNowhere ==
  ASSUME NEW t, NEW n \in Part
  PROVE  StepIn(t, NoInode, n) = NoInode
<1>1. NoInode \notin Inode /\ n # Empty
  BY TableAssumption DEF Inode, NoInode, Part
<1> QED BY <1>1 DEF StepIn

(* Paths lead where they led if the inodes they led to look as they did.   *)
LEMMA SameEnds ==
  ASSUME NEW t, NEW u,
         \A q \in Seq(Part), n \in Part :
           Ends(t, q) # NoInode => StepIn(u, Ends(t, q), n) = StepIn(t, Ends(t, q), n)
  PROVE  \A q \in Seq(Part) : Ends(u, q) = Ends(t, q)
<1> DEFINE S == {q \in Seq(Part) : Ends(u, q) = Ends(t, q)}
<1>1. <<>> \in S
  BY EmptySeq, EndsAppend
<1>2. ASSUME NEW q \in Seq(Part), NEW n \in Part, q \in S
      PROVE  Append(q, n) \in S
  <2>1. /\ Append(q, n) \in Seq(Part)
        /\ Ends(t, Append(q, n)) = StepIn(t, Ends(t, q), n)
        /\ Ends(u, Append(q, n)) = StepIn(u, Ends(t, q), n)
    BY <1>2, LastPart
  <2>2. CASE Ends(t, q) = NoInode
    BY <2>1, <2>2, StepNowhere
  <2>3. CASE Ends(t, q) # NoInode
    BY <2>1, <2>3
  <2> QED BY <2>2, <2>3
<1>3. Seq(Part) \subseteq S
  <2> HIDE DEF S
  <2> QED BY <1>1, <1>2, PathInduction
<1> QED BY <1>3

(* The tree is the same if they also hold what they held.                  *)
LEMMA SameTree ==
  ASSUME NEW t, NEW u,
         \A q \in Seq(Part), n \in Part :
           Ends(t, q) # NoInode => StepIn(u, Ends(t, q), n) = StepIn(t, Ends(t, q), n),
         \A q \in Seq(Part) :
           Ends(t, q) # NoInode => Shows(u[Ends(t, q)]) = Shows(t[Ends(t, q)])
  PROVE  TreeOf(u) = TreeOf(t)
<1>1. \A q \in Seq(Part) : Ends(u, q) = Ends(t, q)
  BY SameEnds
<1>2. Paths(u) = Paths(t)
  BY <1>1 DEF Paths
<1>3. \A q \in Paths(t) : Shows(u[Ends(u, q)]) = Shows(t[Ends(t, q)])
  BY <1>1 DEF Paths
<1> QED BY <1>2, <1>3 DEF TreeOf

(* In u the part n leads from d to f, an end, and every other turn is that *)
(* of t.                                                                   *)
GainsStep(t, u, d, n, f) ==
  /\ d \in Inode /\ StepIn(t, d, n) = NoInode /\ StepIn(u, d, n) = f
  /\ \A m \in Part \ {n} : StepIn(u, d, m) = StepIn(t, d, m)
  /\ \A m \in Part : StepIn(u, f, m) = NoInode
  /\ \A x \in Inode \ {d, f}, m \in Part : StepIn(u, x, m) = StepIn(t, x, m)

(* A new entry n of the directory that p leads to, for the inode f.        *)
LEMMA EntryAdded ==
  ASSUME NEW t, NEW u, Sound(t), NEW p \in Seq(Part), NEW n \in Part, NEW f \in Inode,
         ~t[f].used, GainsStep(t, u, Ends(t, p), n, f)
  PROVE  \A q \in Seq(Part) : Ends(u, q) = IF q = Append(p, n) THEN f ELSE Ends(t, q)
<1> DEFINE S == {q \in Seq(Part) : Ends(u, q) = IF q = Append(p, n) THEN f ELSE Ends(t, q)}
<1> USE DEF GainsStep
<1>0. /\ Append(p, n) \in Seq(Part) /\ Append(p, n) # <<>>
      /\ Ends(t, Append(p, n)) = NoInode /\ p # Append(p, n) /\ NoInode \notin Inode
  <2>1. Len(p) \in Nat /\ Len(Append(p, n)) = Len(p) + 1
    BY LenProperties, AppendProperties
  <2> QED BY <2>1, LastPart, AppendProperties, TableAssumption DEF Inode, NoInode
<1>1. <<>> \in S
  BY <1>0, EmptySeq, EndsAppend
<1>2. ASSUME NEW q \in Seq(Part), NEW m \in Part, q \in S
      PROVE  Append(q, m) \in S
  <2>1. /\ Append(q, m) \in Seq(Part)
        /\ Ends(t, Append(q, m)) = StepIn(t, Ends(t, q), m)
        /\ Ends(u, Append(q, m)) = StepIn(u, Ends(u, q), m)
        /\ Append(q, m) = Append(p, n) <=> q = p /\ m = n
    BY LastPart, AppendInjective
  <2>2. Ends(u, Append(q, m)) = IF Append(q, m) = Append(p, n) THEN f ELSE Ends(t, Append(q, m))
    <3>1. CASE q = Append(p, n)
      <4>1. Ends(u, q) = f /\ Ends(t, q) = NoInode /\ Append(q, m) # Append(p, n)
        BY <1>0, <1>2, <2>1, <3>1
      <4> QED BY <2>1, <4>1, StepNowhere
    <3>2. CASE q # Append(p, n) /\ Ends(t, q) = NoInode
      <4>1. Ends(u, q) = NoInode /\ q # p
        BY <1>0, <1>2, <3>2
      <4> QED BY <2>1, <3>2, <4>1, StepNowhere
    <3>3. CASE q # Append(p, n) /\ Ends(t, q) # NoInode
      <4>1. Ends(u, q) = Ends(t, q)
        BY <1>2, <3>3
      <4>2. Ends(t, q) \in Inode /\ Ends(t, q) # f
        BY <3>3, EndsUsed, PartPaths
      <4>3. CASE q = p
        BY <2>1, <4>1, <4>3
      <4>4. CASE q # p
        <5>1. Ends(t, q) # Ends(t, p)
          BY <3>3, <4>4, PathsDiffer
        <5> QED BY <2>1, <4>1, <4>2, <4>4, <5>1
      <4> QED BY <4>3, <4>4
    <3> QED BY <3>1, <3>2, <3>3
  <2> QED BY <2>1, <2>2
<1>3. Seq(Part) \subseteq S
  <2> HIDE DEF S
  <2> QED BY <1>1, <1>2, PathInduction
<1> QED BY <1>3

(* Prefixes of a sequence and of one that has one element more.            *)
LEMMA PrefixFacts ==
  ASSUME NEW N, NEW p \in Seq(N)
  PROVE  /\ IsPrefix(p, p)
         /\ p # <<>> => ~IsPrefix(p, <<>>)
         /\ \A q \in Seq(N), m \in N :
              IsPrefix(p, Append(q, m)) <=> IsPrefix(p, q) \/ p = Append(q, m)
<1>1. Len(p) \in Nat /\ Len(<<>>) = 0 /\ (p # <<>> => Len(p) > 0)
  BY EmptySeq, LenProperties
<1>2. IsPrefix(p, p)
  BY <1>1 DEF IsPrefix
<1>3. p # <<>> => ~IsPrefix(p, <<>>)
  BY <1>1 DEF IsPrefix
<1>4. ASSUME NEW q \in Seq(N), NEW m \in N
      PROVE  IsPrefix(p, Append(q, m)) <=> IsPrefix(p, q) \/ p = Append(q, m)
  <2>1. /\ Len(q) \in Nat /\ Append(q, m) \in Seq(N) /\ Len(Append(q, m)) = Len(q) + 1
        /\ \A i \in 1 .. Len(q) : Append(q, m)[i] = q[i]
    BY LenProperties, AppendProperties
  <2>2. ASSUME Len(p) <= Len(q)
        PROVE  SubSeq(Append(q, m), 1, Len(p)) = SubSeq(q, 1, Len(p))
    <3> DEFINE r == Append(q, m)
    <3>1. \A i \in 1 .. Len(p) : r[i] = q[i] /\ q[i] \in N
      BY <1>1, <2>1, <2>2, ElementOfSeq
    <3>2. 1 \in Int /\ Len(p) \in Int
      BY <1>1
    <3> HIDE DEF r
    <3>3. /\ SubSeq(r, 1, Len(p)) \in Seq(N)
          /\ Len(SubSeq(r, 1, Len(p))) = IF 1 <= Len(p) THEN Len(p) - 1 + 1 ELSE 0
          /\ \A i \in 1 .. Len(p) - 1 + 1 : SubSeq(r, 1, Len(p))[i] = r[1 + i - 1]
      BY <3>1, <3>2, SubSeqProperties
    <3>4. /\ SubSeq(q, 1, Len(p)) \in Seq(N)
          /\ Len(SubSeq(q, 1, Len(p))) = IF 1 <= Len(p) THEN Len(p) - 1 + 1 ELSE 0
          /\ \A i \in 1 .. Len(p) - 1 + 1 : SubSeq(q, 1, Len(p))[i] = q[1 + i - 1]
      BY <3>1, <3>2, SubSeqProperties
    <3>5. \A i \in 1 .. Len(p) - 1 + 1 : i \in 1 .. Len(p) /\ 1 + i - 1 = i
      BY <1>1
    <3>6. \A i \in 1 .. Len(p) - 1 + 1 : SubSeq(r, 1, Len(p))[i] = SubSeq(q, 1, Len(p))[i]
      BY <3>1, <3>3, <3>4, <3>5
    <3>7. Len(SubSeq(r, 1, Len(p))) = Len(p) - 1 + 1 /\ Len(SubSeq(q, 1, Len(p))) = Len(p) - 1 + 1
      BY <1>1, <3>3, <3>4
    <3>8. SubSeq(r, 1, Len(p)) = SubSeq(q, 1, Len(p))
      BY <3>3, <3>4, <3>6, <3>7, SeqEqual
    <3> QED BY <3>8 DEF r
  <2>3. CASE Len(p) <= Len(q)
    <3>1. p # Append(q, m) /\ Len(p) <= Len(Append(q, m))
      BY <1>1, <2>1, <2>3
    <3> QED BY <2>2, <2>3, <3>1 DEF IsPrefix
  <2>4. CASE Len(p) = Len(q) + 1
    <3>1. SubSeq(Append(q, m), 1, Len(p)) = Append(q, m) /\ SubSeq(p, 1, Len(p)) = p
      BY <2>1, <2>4, SubSeqFull
    <3>2. ~(Len(p) <= Len(q)) /\ Len(p) <= Len(Append(q, m))
      BY <1>1, <2>1, <2>4
    <3> QED BY <3>1, <3>2 DEF IsPrefix
  <2>5. CASE Len(p) > Len(q) + 1
    <3>1. ~(Len(p) <= Len(q)) /\ ~(Len(p) <= Len(Append(q, m))) /\ p # Append(q, m)
      BY <1>1, <2>1, <2>5
    <3> QED BY <3>1 DEF IsPrefix
  <2> QED BY <1>1, <2>1, <2>3, <2>4, <2>5
<1> QED BY <1>2, <1>3, <1>4

(* The entry n of the directory that p leads to goes.                      *)
LEMMA EntryRemoved ==
  ASSUME NEW t, NEW u, Sound(t), NEW p \in Seq(Part), NEW n \in Part,
         Ends(t, p) \in Inode, StepIn(u, Ends(t, p), n) = NoInode,
         \A m \in Part \ {n} : StepIn(u, Ends(t, p), m) = StepIn(t, Ends(t, p), m),
         \A x \in Inode \ {Ends(t, p)}, m \in Part : StepIn(u, x, m) = StepIn(t, x, m)
  PROVE  \A q \in Seq(Part) :
           Ends(u, q) = IF IsPrefix(Append(p, n), q) THEN NoInode ELSE Ends(t, q)
<1> DEFINE pn == Append(p, n)
           S == {q \in Seq(Part) : Ends(u, q) = IF IsPrefix(pn, q) THEN NoInode ELSE Ends(t, q)}
<1>0. pn \in Seq(Part) /\ pn # <<>> /\ NoInode \notin Inode
  BY AppendProperties, TableAssumption DEF Inode, NoInode
<1>a. \A q \in Seq(Part), m \in Part : pn = Append(q, m) <=> p = q /\ n = m
  BY AppendInjective
<1> HIDE DEF pn
<1>b. /\ ~IsPrefix(pn, <<>>)
      /\ \A q \in Seq(Part), m \in Part :
           IsPrefix(pn, Append(q, m)) <=> IsPrefix(pn, q) \/ (p = q /\ n = m)
  BY <1>0, <1>a, PrefixFacts
<1>1. <<>> \in S
  BY <1>b, EmptySeq, EndsAppend
<1>2. ASSUME NEW q \in Seq(Part), NEW m \in Part, q \in S
      PROVE  Append(q, m) \in S
  <2>1. /\ Append(q, m) \in Seq(Part)
        /\ Ends(t, Append(q, m)) = StepIn(t, Ends(t, q), m)
        /\ Ends(u, Append(q, m)) = StepIn(u, Ends(u, q), m)
        /\ IsPrefix(pn, Append(q, m)) <=> IsPrefix(pn, q) \/ (p = q /\ n = m)
    BY <1>b, LastPart
  <2>2. Ends(u, Append(q, m)) = IF IsPrefix(pn, Append(q, m)) THEN NoInode ELSE Ends(t, Append(q, m))
    <3>1. CASE IsPrefix(pn, q)
      <4>1. Ends(u, q) = NoInode
        BY <1>2, <3>1
      <4> QED BY <2>1, <3>1, <4>1, StepNowhere
    <3>2. CASE ~IsPrefix(pn, q) /\ Ends(t, q) = NoInode
      <4>1. Ends(u, q) = NoInode /\ q # p
        BY <1>0, <1>2, <3>2
      <4> QED BY <2>1, <3>2, <4>1, StepNowhere
    <3>3. CASE ~IsPrefix(pn, q) /\ Ends(t, q) # NoInode
      <4>1. Ends(u, q) = Ends(t, q)
        BY <1>2, <3>3
      <4>2. Ends(t, q) \in Inode
        BY <3>3, EndsUsed, PartPaths
      <4>3. CASE q = p
        BY <2>1, <3>3, <4>1, <4>3
      <4>4. CASE q # p
        <5>1. Ends(t, q) # Ends(t, p)
          BY <3>3, <4>4, PathsDiffer
        <5> QED BY <2>1, <3>3, <4>1, <4>2, <4>4, <5>1
      <4> QED BY <4>3, <4>4
    <3> QED BY <3>1, <3>2, <3>3
  <2> QED BY <2>1, <2>2
<1>3. Seq(Part) \subseteq S
  <2> HIDE DEF S
  <2> QED BY <1>1, <1>2, PathInduction
<1> QED BY <1>3 DEF pn

(* A turn looks at the entries and the type of a directory and no more.    *)
LEMMA SameStep ==
  ASSUME NEW t, NEW u, NEW x, u[x].entries = t[x].entries, u[x].type = t[x].type, NEW n
  PROVE  StepIn(u, x, n) = StepIn(t, x, n)
BY DEF StepIn, MatchesIn, FirstIn

GetsEntry(t, u, f, d, n) ==
  u[d].entries = Append(t[d].entries, [name |-> n, inode_idx |-> f])

(* What adding the inode f to the directory d under the name n does to a   *)
(* table t; a directory that is full does not get the entry.               *)
NewName(t, u, f, d, n, type) ==
  /\ Sound(t) /\ Sound(u) /\ f \in Inode /\ d \in Inode /\ n \in Name /\ f # d
  /\ ~t[f].used /\ t[d].type = DIR
  /\ \A k \in DOMAIN t[d].entries : t[d].entries[k].name # n
  /\ \A x \in Inode \ {f, d} : u[x] = t[x]
  /\ u[f] = FreshInode(TRUE, type)
  /\ u[d].type = t[d].type /\ u[d].bytes = t[d].bytes
  /\ \/ u[d].entries = t[d].entries
     \/ GetsEntry(t, u, f, d, n)

(* The entries of d that were there, and the new one.                      *)
LEMMA NewEntries ==
  ASSUME NEW t, NEW u, NEW f, NEW d, NEW n, NEW type, NewName(t, u, f, d, n, type),
         GetsEntry(t, u, f, d, n)
  PROVE  /\ \A m \in Part : m # n => StepIn(u, d, m) = StepIn(t, d, m)
         /\ n \in Part => StepIn(u, d, n) = f
<1> DEFINE s == t[d].entries
           e == [name |-> n, inode_idx |-> f]
<1>1. u[d].entries = Append(s, e) /\ d \in Inode /\ u[d].type = DIR /\ t[d].type = DIR
  BY DEF NewName, GetsEntry
<1>2. s \in Seq(Dirent) /\ Len(s) \in Nat /\ DOMAIN s = 1 .. Len(s) /\ e \in Dirent
  <2>1. s \in Seq(Dirent)
    BY DEF NewName, Sound, InodeRecord
  <2>2. e \in Dirent
    BY DEF NewName, Dirent
  <2> QED BY <2>1, <2>2, LenProperties
<1> HIDE DEF s
<1>3. /\ DOMAIN Append(s, e) = 1 .. Len(s) + 1
      /\ \A k \in 1 .. Len(s) : Append(s, e)[k] = s[k]
      /\ Append(s, e)[Len(s) + 1] = e
  BY <1>2, AppendProperties, LenProperties
<1>4. e.name = n /\ e.inode_idx = f
  OBVIOUS
<1>5. Sound(t) /\ Sound(u)
  BY DEF NewName
<1> HIDE DEF e
<1>6. ASSUME NEW m \in Part, m # n
      PROVE  StepIn(u, d, m) = StepIn(t, d, m)
  <2>1. CASE \E k \in 1 .. Len(s) : s[k].name = m
    <3>1. PICK k \in 1 .. Len(s) : s[k].name = m
      BY <2>1
    <3>2. StepIn(t, d, m) = s[k].inode_idx
      BY <1>1, <1>2, <1>5, <3>1, StepInIs DEF s
    <3>3. k \in DOMAIN u[d].entries /\ u[d].entries[k] = s[k]
      BY <1>1, <1>2, <1>3
    <3>4. StepIn(u, d, m) = s[k].inode_idx
      BY <1>1, <1>5, <3>1, <3>3, StepInIs
    <3> QED BY <3>2, <3>4
  <2>2. CASE \A k \in 1 .. Len(s) : s[k].name # m
    <3>1. StepIn(t, d, m) = NoInode
      BY <1>1, <1>2, <1>5, <2>2, StepInIs DEF s
    <3>2. \A k \in DOMAIN u[d].entries : u[d].entries[k].name # m
      BY <1>1, <1>2, <1>3, <1>4, <1>6, <2>2
    <3>3. StepIn(u, d, m) = NoInode
      BY <1>1, <1>5, <3>2, StepInIs
    <3> QED BY <3>1, <3>3
  <2> QED BY <2>1, <2>2
<1>7. ASSUME n \in Part
      PROVE  StepIn(u, d, n) = f
  <2>1. /\ Len(s) + 1 \in DOMAIN u[d].entries
        /\ u[d].entries[Len(s) + 1].name = n /\ u[d].entries[Len(s) + 1].inode_idx = f
    BY <1>1, <1>2, <1>3, <1>4
  <2> QED BY <1>1, <1>5, <1>7, <2>1, StepInIs
<1> QED BY <1>6, <1>7

(* If p leads to d, the new name leads from there to f.                    *)
LEMMA NewPath ==
  ASSUME NEW t, NEW u, NEW f, NEW d, NEW n, NEW type, NewName(t, u, f, d, n, type),
         GetsEntry(t, u, f, d, n),
         NEW p \in Seq(Part), Ends(t, p) = d, n \in Part
  PROVE  /\ Ends(t, Append(p, n)) = NoInode
         /\ \A q \in Seq(Part) : Ends(u, q) = IF q = Append(p, n) THEN f ELSE Ends(t, q)
<1>1. /\ Sound(t) /\ d \in Inode /\ f \in Inode /\ ~t[f].used
      /\ \A x \in Inode \ {d, f} : u[x] = t[x]
  BY DEF NewName
<1>2. StepIn(t, d, n) = NoInode
  BY StepInIs DEF NewName
<1>3. \A m \in Part : StepIn(u, f, m) = NoInode
  BY DEF NewName, StepIn, MatchesIn, FreshInode, Part
<1>4. StepIn(u, d, n) = f /\ \A m \in Part \ {n} : StepIn(u, d, m) = StepIn(t, d, m)
  BY NewEntries
<1>5. \A q \in Seq(Part) : Ends(u, q) = IF q = Append(p, n) THEN f ELSE Ends(t, q)
  <2>1. ASSUME NEW x \in Inode \ {d, f}, NEW m \in Part
        PROVE  StepIn(u, x, m) = StepIn(t, x, m)
    <3>1. u[x].entries = t[x].entries /\ u[x].type = t[x].type
      BY <1>1
    <3> QED BY <3>1, SameStep
  <2>2. GainsStep(t, u, Ends(t, p), n, f)
    BY <1>1, <1>2, <1>3, <1>4, <2>1 DEF GainsStep
  <2> QED BY <1>1, <2>2, EntryAdded
<1> QED BY <1>2, <1>5, LastPart

(* Nothing else leads elsewhere than before.                               *)
LEMMA EndsAdded ==
  ASSUME NEW t, NEW u, NEW f, NEW d, NEW n, NEW type, NewName(t, u, f, d, n, type)
  PROVE  \/ \A q \in Seq(Part) : Ends(u, q) = Ends(t, q)
         \/ \E p \in Seq(Part) :
              /\ Ends(t, p) = d /\ n \in Part /\ Ends(t, Append(p, n)) = NoInode
              /\ \A q \in Seq(Part) : Ends(u, q) = IF q = Append(p, n) THEN f ELSE Ends(t, q)
<1>1. Sound(t) /\ ~t[f].used /\ \A x \in Inode \ {f, d} : u[x] = t[x]
  BY DEF NewName
<1>2. \A q \in Seq(Part) : Ends(t, q) = NoInode \/ (Ends(t, q) \in Inode /\ Ends(t, q) # f)
  BY <1>1, PartPaths, EndsUsed
<1>3. ASSUME NEW x \in Inode \ {f, d}, NEW m \in Part
      PROVE  StepIn(u, x, m) = StepIn(t, x, m)
  <2>1. u[x].entries = t[x].entries /\ u[x].type = t[x].type
    BY <1>1
  <2> QED BY <2>1, SameStep
<1>4. CASE \A m \in Part : (\E q \in Seq(Part) : Ends(t, q) = d)
                             => StepIn(u, d, m) = StepIn(t, d, m)
  BY <1>2, <1>3, <1>4, SameEnds
<1>5. ASSUME NEW p \in Seq(Part), NEW m \in Part, Ends(t, p) = d,
             StepIn(u, d, m) # StepIn(t, d, m)
      PROVE  /\ n \in Part /\ Ends(t, Append(p, n)) = NoInode
             /\ \A q \in Seq(Part) : Ends(u, q) = IF q = Append(p, n) THEN f ELSE Ends(t, q)
  <2>1. u[d].type = t[d].type /\ u[d].entries # t[d].entries
    BY <1>5, SameStep DEF NewName
  <2>2. GetsEntry(t, u, f, d, n)
    BY <2>1 DEF NewName
  <2>3. \A i \in Part : i # n => StepIn(u, d, i) = StepIn(t, d, i)
    BY <2>2, NewEntries
  <2>4. n \in Part
    BY <1>5, <2>3
  <2> QED BY <1>5, <2>2, <2>4, NewPath
<1> QED BY <1>4, <1>5

(* For the callers that is a Create, or nothing.                           *)
LEMMA TreeAdded ==
  ASSUME NEW t, NEW u, NEW f, NEW d, NEW n, NEW type \in {FILE, DIR},
         NewName(t, u, f, d, n, type)
  PROVE  TreeOf(u) = TreeOf(t) \/ Tree!Create(TreeOf(t), TreeOf(u))
<1>1. /\ \A q \in Seq(Part) : Ends(t, q) = NoInode \/ (Ends(t, q) \in Inode /\ Ends(t, q) # f)
      /\ \A x \in Inode \ {f} : Shows(u[x]) = Shows(t[x])
  BY PartPaths, EndsUsed DEF NewName, Shows
<1>2. CASE \A q \in Seq(Part) : Ends(u, q) = Ends(t, q)
  <2>1. Paths(u) = Paths(t) /\ \A q \in Paths(t) : Shows(u[Ends(u, q)]) = Shows(t[Ends(t, q)])
    BY <1>1, <1>2 DEF Paths
  <2> QED BY <2>1 DEF TreeOf
<1>3. ASSUME NEW p \in Seq(Part), Ends(t, p) = d, n \in Part, Ends(t, Append(p, n)) = NoInode,
             \A q \in Seq(Part) : Ends(u, q) = IF q = Append(p, n) THEN f ELSE Ends(t, q)
      PROVE  Tree!Create(TreeOf(t), TreeOf(u))
  <2> DEFINE pn == Append(p, n)
  <2>1. /\ pn \in Seq(Part) /\ Ends(t, pn) = NoInode /\ f # NoInode /\ d # NoInode
        /\ t[d].type = DIR
    BY <1>3, AppendProperties, TableAssumption DEF NewName, Inode, NoInode
  <2> HIDE DEF pn
  <2>2. Paths(u) = Paths(t) \cup {pn} /\ pn \notin Paths(t) /\ p \in Paths(t)
    BY <1>3, <2>1 DEF Paths, pn
  <2>3. ASSUME NEW q \in Paths(t)
        PROVE  Shows(u[Ends(u, q)]) = Shows(t[Ends(t, q)])
    <3>1. Ends(u, q) = Ends(t, q) /\ Ends(t, q) \in Inode \ {f}
      BY <1>1, <1>3, <2>2, <2>3 DEF Paths, pn
    <3> QED BY <1>1, <3>1
  <2>4. Shows(u[Ends(u, pn)]) = Tree!Node(type)
    <3>1. Ends(u, pn) = f
      BY <1>3, <2>1 DEF pn
    <3>2. u[f].type = type /\ u[f].bytes = <<>>
      BY DEF NewName, FreshInode
    <3> QED BY <3>1, <3>2 DEF Shows, Tree!Node
  <2>5. TreeOf(u) = [q \in Paths(t) \cup {pn} |->
                       IF q \in Paths(t) THEN TreeOf(t)[q] ELSE Tree!Node(type)]
    BY <2>2, <2>3, <2>4 DEF TreeOf
  <2>6. TreeOf(t)[p].type = "dir" /\ DOMAIN TreeOf(t) = Paths(t)
    BY <1>3, <2>1, <2>2 DEF TreeOf, Shows, DIR
  <2>7. n \in Name \ {Empty} /\ type \in {"file", "dir"}
    BY <1>3 DEF Part, FILE, DIR
  <2> QED BY <2>2, <2>5, <2>6, <2>7 DEF Tree!Create, pn
<1> QED BY <1>2, <1>3, EndsAdded

(* An entry of the directory d goes, and what was below it.                *)
LEMMA TreeRemoved ==
  ASSUME NEW t, NEW u, Sound(t), Sound(u), NEW d \in Inode, NEW k \in DOMAIN t[d].entries,
         \A x \in Inode : u[x].type = t[x].type /\ u[x].bytes = t[x].bytes,
         \A x \in Inode \ {d} : u[x].entries = t[x].entries,
         u[d].entries = RemoveAt(t[d].entries, k), t[d].type = DIR
  PROVE  TreeOf(u) = TreeOf(t) \/ Tree!Unlink(TreeOf(t), TreeOf(u))
<1>1. \A q \in Seq(Part) : Ends(t, q) = NoInode \/ Ends(t, q) \in Inode
  BY PartPaths, EndsUsed
<1>2. \A x \in Inode : Shows(u[x]) = Shows(t[x])
  BY DEF Shows
<1>3. \A x \in Inode \ {d}, m \in Part : StepIn(u, x, m) = StepIn(t, x, m)
  BY SameStep
<1>4. CASE \A m \in Part : (\E q \in Seq(Part) : Ends(t, q) = d)
                             => StepIn(u, d, m) = StepIn(t, d, m)
  BY <1>1, <1>2, <1>3, <1>4, SameTree
<1>5. CASE \E q \in Seq(Part), m \in Part : Ends(t, q) = d /\ StepIn(u, d, m) # StepIn(t, d, m)
  <2>1. PICK p \in Seq(Part) : Ends(t, p) = d
    BY <1>5
  <2> DEFINE s == t[d].entries
             r == RemoveAt(s, k)
             n == s[k].name
  <2>2. s \in Seq(Dirent) /\ Len(s) \in Nat /\ DOMAIN s = 1 .. Len(s)
    <3>1. s \in Seq(Dirent)
      BY DEF Sound, InodeRecord
    <3> QED BY <3>1, LenProperties
  <2>3. u[d].entries = r /\ k \in 1 .. Len(s)
    BY <2>2
  <2>4. \A i, j \in 1 .. Len(s) : s[i].name = s[j].name => i = j
    BY <2>2 DEF Sound
  <2> HIDE DEF s
  <2>5. /\ r \in Seq(Dirent) /\ Len(r) = Len(s) - 1
        /\ \A j \in 1 .. Len(s) - 1 : r[j] = IF j < k THEN s[j] ELSE s[j + 1]
    BY <2>2, <2>3, RemoveAtProperties
  <2>6. DOMAIN r = 1 .. Len(s) - 1
    BY <2>5, LenProperties
  <2> HIDE DEF r
  <2>7. \A j \in DOMAIN r : \E i \in 1 .. Len(s) : i # k /\ r[j] = s[i]
    BY <2>2, <2>3, <2>5, <2>6
  <2>8. ASSUME NEW i \in 1 .. Len(s), i # k
        PROVE  \E j \in DOMAIN r : r[j] = s[i]
    <3>1. CASE i < k
      <4>1. i \in DOMAIN r /\ r[i] = s[i]
        BY <2>2, <2>3, <2>5, <2>6, <3>1
      <4> QED BY <4>1
    <3>2. CASE k < i
      <4>1. i - 1 \in DOMAIN r /\ r[i - 1] = s[i]
        BY <2>2, <2>3, <2>5, <2>6, <3>2
      <4> QED BY <4>1
    <3> QED BY <2>2, <2>3, <2>8, <3>1, <3>2
  <2>9. ASSUME NEW m \in Part, m # n
        PROVE  StepIn(u, d, m) = StepIn(t, d, m)
    <3>1. CASE \E i \in 1 .. Len(s) : s[i].name = m
      <4>1. PICK i \in 1 .. Len(s) : s[i].name = m
        BY <3>1
      <4>2. StepIn(t, d, m) = s[i].inode_idx
        BY <2>2, <4>1, StepInIs DEF s
      <4>3. PICK j \in DOMAIN r : r[j] = s[i]
        BY <2>8, <2>9, <4>1
      <4>4. StepIn(u, d, m) = s[i].inode_idx
        <5>1. j \in DOMAIN u[d].entries /\ u[d].entries[j] = s[i] /\ u[d].type = DIR
          BY <2>3, <4>3
        <5> QED BY <4>1, <5>1, StepInIs
      <4> QED BY <4>2, <4>4
    <3>2. CASE \A i \in 1 .. Len(s) : s[i].name # m
      <4>1. StepIn(t, d, m) = NoInode
        BY <2>2, <3>2, StepInIs DEF s
      <4>2. \A j \in DOMAIN u[d].entries : u[d].entries[j].name # m
        BY <2>3, <2>7, <3>2
      <4>3. StepIn(u, d, m) = NoInode
        BY <4>2, StepInIs
      <4> QED BY <4>1, <4>3
    <3> QED BY <3>1, <3>2
  <2>10. n \in Part
    BY <1>5, <2>9
  <2>11. StepIn(u, d, n) = NoInode
    <3>1. \A j \in DOMAIN u[d].entries : u[d].entries[j].name # n
      <4>1. \A i \in 1 .. Len(s) : i # k => s[i].name # n
        BY <2>3, <2>4
      <4> QED BY <2>3, <2>7, <4>1
    <3> QED BY <2>10, <3>1, StepInIs
  <2>12. StepIn(t, d, n) # NoInode
    <3>1. StepIn(t, d, n) = s[k].inode_idx
      BY <2>10, StepInIs DEF s
    <3>2. s[k] \in Dirent
      BY <2>2, <2>3, ElementOfSeq
    <3> QED BY <3>1, <3>2, TableAssumption DEF Dirent, Inode, NoInode
  <2> HIDE DEF n
  <2>13. \A q \in Seq(Part) : Ends(u, q) = IF IsPrefix(Append(p, n), q) THEN NoInode ELSE Ends(t, q)
    BY <1>3, <2>1, <2>9, <2>10, <2>11, EntryRemoved
  <2> DEFINE pn == Append(p, n)
  <2>14. pn \in Paths(t) /\ pn # <<>>
    BY <2>1, <2>10, <2>12, LastPart, AppendProperties DEF Paths
  <2> HIDE DEF pn
  <2>15. Paths(u) = {q \in Paths(t) : ~IsPrefix(pn, q)}
    BY <2>13 DEF Paths, pn
  <2>16. DOMAIN TreeOf(t) = Paths(t)
    BY DEF TreeOf
  <2>17. Paths(u) = DOMAIN TreeOf(t) \ Tree!Below(TreeOf(t), pn)
    <3>1. \A q : Tree!IsPrefix(pn, q) <=> IsPrefix(pn, q)
      BY DEF Tree!IsPrefix, IsPrefix
    <3> QED BY <2>15, <2>16, <3>1 DEF Tree!Below
  <2>18. ASSUME NEW q \in Paths(u)
         PROVE  Shows(u[Ends(u, q)]) = TreeOf(t)[q]
    <3>1. q \in Paths(t) /\ Ends(u, q) = Ends(t, q) /\ Ends(t, q) \in Inode
      BY <1>1, <2>13, <2>15, <2>18 DEF Paths, pn
    <3> QED BY <1>2, <3>1 DEF TreeOf
  <2>19. TreeOf(u) = Tree!Without(TreeOf(t), pn)
    <3>1. TreeOf(u) = [q \in Paths(u) |-> TreeOf(t)[q]]
      BY <2>18 DEF TreeOf
    <3> QED BY <2>17, <3>1 DEF Tree!Without
  <2>20. pn \in DOMAIN TreeOf(t) \ {<<>>}
    BY <2>14, <2>16
  <2> QED BY <2>19, <2>20 DEF Tree!Unlink
<1> QED BY <1>4, <1>5

(* What FsTree says ramfs_write leaves in a file.                          *)
Extended(old, off, data) ==
  LET size == IF off + Len(data) > Len(old) THEN off + Len(data) ELSE Len(old)
  IN [k \in 1 .. size |-> IF k - off \in DOMAIN data THEN data[k - off]
                          ELSE IF k \in DOMAIN old THEN old[k] ELSE Zero]

(* ramfs_write leaves it.                                                  *)
LEMMA PatchIs ==
  ASSUME NEW old \in Seq(Byte), NEW data \in Seq(Byte), NEW off \in Nat
  PROVE  Patch(old, off, data) = Extended(old, off, data)
<1> DEFINE size == IF off + Len(data) > Len(old) THEN off + Len(data) ELSE Len(old)
<1>1. /\ Len(data) \in Nat /\ Len(old) \in Nat /\ size \in Nat
      /\ DOMAIN data = 1 .. Len(data) /\ DOMAIN old = 1 .. Len(old)
  BY LenProperties
<1>2. ASSUME NEW k \in 1 .. size
      PROVE  /\ off < k /\ k <= off + Len(data) <=> k - off \in DOMAIN data
             /\ k <= Len(old) <=> k \in DOMAIN old
  BY <1>1
<1>3. Patch(old, off, data) =
        [k \in 1 .. size |-> IF off < k /\ k <= off + Len(data) THEN data[k - off]
                             ELSE IF k <= Len(old) THEN old[k] ELSE Zero]
  BY DEF Patch
<1> HIDE DEF size
<1>4. Patch(old, off, data) =
        [k \in 1 .. size |-> IF k - off \in DOMAIN data THEN data[k - off]
                             ELSE IF k \in DOMAIN old THEN old[k] ELSE Zero]
  BY <1>2, <1>3
<1> QED BY <1>4 DEF size, Extended

(* So patching the bytes at a path is a Write of FsTree.                   *)
LEMMA WriteMeans ==
  ASSUME NEW t, NEW u, NEW p \in DOMAIN t, NEW data \in InData, NEW off \in InOffset,
         t[p].type = "file", t[p].bytes \in Seq(Byte), data \in Seq(Byte), off \in Nat,
         u = [t EXCEPT ![p].bytes = Patch(t[p].bytes, off, data)]
  PROVE  Tree!Write(t, u)
<1>1. u = [t EXCEPT ![p].bytes = Extended(t[p].bytes, off, data)]
  BY PatchIs
<1>2. \E q \in DOMAIN t, o \in InOffset, x \in InData :
        t[q].type = "file" /\ u = [t EXCEPT ![q].bytes = Extended(t[q].bytes, o, x)]
  <2> WITNESS p \in DOMAIN t, off \in InOffset, data \in InData
  <2> QED BY <1>1
<1> QED BY <1>2 DEF Extended, Tree!Write

(* New bytes in the file idx.                                              *)
LEMMA TreeWritten ==
  ASSUME NEW t, NEW u, Sound(t), NEW idx \in Inode, t[idx].type = FILE,
         NEW data \in InData, NEW off \in InOffset,
         \A x \in Inode : u[x].type = t[x].type /\ u[x].entries = t[x].entries,
         \A x \in Inode \ {idx} : u[x].bytes = t[x].bytes,
         u[idx].bytes = t[idx].bytes \/ u[idx].bytes = Patch(t[idx].bytes, off, data)
  PROVE  TreeOf(u) = TreeOf(t) \/ Tree!Write(TreeOf(t), TreeOf(u))
<1>1. \A q \in Seq(Part) : Ends(t, q) = NoInode \/ Ends(t, q) \in Inode
  BY PartPaths, EndsUsed
<1>2. \A x \in Inode \ {idx} : Shows(u[x]) = Shows(t[x])
  BY DEF Shows
<1>3. \A x \in Inode, m \in Part : StepIn(u, x, m) = StepIn(t, x, m)
  BY SameStep
<1>4. CASE Shows(u[idx]) = Shows(t[idx]) \/ (\A q \in Seq(Part) : Ends(t, q) # idx)
  BY <1>1, <1>2, <1>3, <1>4, SameTree
<1>5. CASE Shows(u[idx]) # Shows(t[idx]) /\ (\E q \in Seq(Part) : Ends(t, q) = idx)
  <2>1. PICK p \in Seq(Part) : Ends(t, p) = idx
    BY <1>5
  <2> DEFINE new == Patch(t[idx].bytes, off, data)
  <2>2. u[idx].bytes = new
    BY <1>5 DEF Shows
  <2> HIDE DEF new
  <2>3. \A q \in Seq(Part) : Ends(u, q) = Ends(t, q)
    BY <1>1, <1>3, SameEnds
  <2>4. p \in Paths(t) /\ Paths(u) = Paths(t)
    BY <2>1, <2>3, TableAssumption DEF Paths, Inode, NoInode
  <2>5. \A q \in Paths(t) \ {p} : Ends(t, q) \in Inode \ {idx}
    BY <1>1, <2>1, PathsDiffer DEF Paths
  <2>6. TreeOf(t)[p] = [type |-> FILE, bytes |-> t[idx].bytes]
    BY <2>1, <2>4 DEF TreeOf, Shows
  <2>7. \A q \in Paths(t) \ {p} : TreeOf(u)[q] = TreeOf(t)[q]
    BY <1>2, <2>3, <2>4, <2>5 DEF TreeOf, Paths
  <2>8. TreeOf(u)[p] = [type |-> FILE, bytes |-> new]
    BY <2>1, <2>2, <2>3, <2>4 DEF TreeOf, Shows
  <2>9. TreeOf(u) = [TreeOf(t) EXCEPT ![p].bytes = new]
    <3>1. /\ TreeOf(t) = [q \in Paths(t) |-> TreeOf(t)[q]]
          /\ TreeOf(u) = [q \in Paths(t) |-> TreeOf(u)[q]]
      BY <2>4 DEF TreeOf
    <3>2. [TreeOf(t)[p] EXCEPT !.bytes = new] = [type |-> FILE, bytes |-> new]
      BY <2>6
    <3> QED BY <2>4, <2>7, <2>8, <3>1, <3>2
  <2>10. /\ p \in DOMAIN TreeOf(t) /\ TreeOf(t)[p].type = "file"
         /\ TreeOf(t)[p].bytes = t[idx].bytes
    BY <2>4, <2>6 DEF TreeOf, FILE
  <2>11. t[idx].bytes \in Seq(Byte) /\ data \in Seq(Byte) /\ off \in Nat
    BY InputAssumption, TableAssumption DEF Sound, InodeRecord
  <2>12. TreeOf(u) = [TreeOf(t) EXCEPT ![p].bytes = Patch(TreeOf(t)[p].bytes, off, data)]
    BY <2>9, <2>10 DEF new
  <2> QED BY <2>10, <2>11, <2>12, WriteMeans, ZenonT(40)
<1> QED BY <1>4, <1>5

(* The calls that add an entry, when no name is cut.                       *)
LEMMA AddIsNewName ==
  ASSUME \A m \in Name : Trunc[m] = m, IInv, UniqueNames, Sound(inodes'),
         NEW d, NEW n \in Name, NEW type \in {FILE, DIR}, NEW success, NEW r,
         Found(d), CanAdd(d, n), AddChild(d, n, type, success, r)
  PROVE  \E f \in Inode : NewName(inodes, inodes', f, d, n, type)
<1>1. /\ TypeOK /\ TreeOK /\ IsDir(d) /\ d \in Inode /\ FreeInodes # {}
      /\ inodes[d].type = DIR /\ Matches(d, n) = {}
  BY DEF IInv, CanAdd, IsDir
<1>2. PICK f \in Inode : Added(f, d, n, type)
  BY <1>1, AddFacts
<1>3. Sound(inodes)
  BY SoundTable
<1>4. \A k \in DOMAIN inodes[d].entries : inodes[d].entries[k].name # n
  <2>1. inodes[d].entries \in Seq(Dirent)
    BY <1>1 DEF TypeOK, InodeRecord
  <2> QED BY <1>1, <2>1, LenProperties DEF Matches
<1>5. /\ inodes'[d].type = inodes[d].type /\ inodes'[d].bytes = inodes[d].bytes
      /\ \/ inodes'[d].entries = inodes[d].entries
         \/ inodes'[d].entries = Append(inodes[d].entries, [name |-> n, inode_idx |-> f])
  <2> DEFINE e == [name |-> Trunc[n], inode_idx |-> f]
  <2>1. inodes[d] \in InodeRecord /\ e = [name |-> n, inode_idx |-> f]
    BY <1>1 DEF TypeOK
  <2>2. inodes'[d] = inodes[d] \/ inodes'[d] = [inodes[d] EXCEPT !.entries = Append(@, e)]
    BY <1>2 DEF Added
  <2> HIDE DEF e
  <2>3. inodes'[d] = [inodes[d] EXCEPT !.entries = Append(@, e)]
          => /\ inodes'[d].type = inodes[d].type /\ inodes'[d].bytes = inodes[d].bytes
             /\ inodes'[d].entries = Append(inodes[d].entries, e)
    BY <2>1 DEF InodeRecord
  <2> QED BY <2>1, <2>2, <2>3
<1>6. /\ ~inodes[f].used /\ f # d /\ inodes'[f] = FreshInode(TRUE, type)
      /\ \A x \in Inode \ {f, d} : inodes'[x] = inodes[x]
  BY <1>2 DEF Added
<1> QED BY <1>1, <1>2, <1>3, <1>4, <1>5, <1>6 DEF NewName, GetsEntry

(* An entry added is a file or directory created.                          *)
LEMMA AddIsCreate ==
  ASSUME \A m \in Name : Trunc[m] = m, IInv, UniqueNames, Sound(inodes'), AddStep
  PROVE  \/ TreeOf(inodes') = TreeOf(inodes)
         \/ Tree!Create(TreeOf(inodes), TreeOf(inodes'))
<1>1. PICK d, success, r, n, type :
        /\ n \in Name /\ type \in {FILE, DIR}
        /\ Found(d) /\ CanAdd(d, n) /\ AddChild(d, n, type, success, r)
  BY DEF AddStep
<1>2. PICK f \in Inode : NewName(inodes, inodes', f, d, n, type)
  BY <1>1, AddIsNewName
<1> QED BY <1>1, <1>2, TreeAdded

(* The calls that remove one.                                              *)
LEMMA RemoveIsUnlink ==
  ASSUME IInv, UniqueNames, Sound(inodes'), RemoveStep
  PROVE  \/ TreeOf(inodes') = TreeOf(inodes)
         \/ Tree!Unlink(TreeOf(inodes), TreeOf(inodes'))
<1>1. PICK d, k : d \in Inode /\ k \in 1 .. Len(inodes[d].entries) /\ RemoveChild(d, k, Target(d, k))
  BY DEF RemoveStep, Removal
<1>2. TypeOK /\ Sound(inodes)
  BY SoundTable DEF IInv
<1>3. /\ \A x \in Inode : inodes'[x].type = inodes[x].type /\ inodes'[x].bytes = inodes[x].bytes
      /\ \A x \in Inode \ {d} : inodes'[x].entries = inodes[x].entries
      /\ inodes'[d].entries = RemoveAt(inodes[d].entries, k)
  BY <1>1, <1>2, RemoveFacts
<1>4. k \in DOMAIN inodes[d].entries /\ inodes[d].type = DIR
  <2>1. inodes[d].entries \in Seq(Dirent) /\ inodes[d].type \in {FILE, DIR}
    BY <1>1, <1>2 DEF TypeOK, InodeRecord
  <2>2. k \in DOMAIN inodes[d].entries /\ inodes[d].entries # <<>>
    BY <1>1, <2>1, LenProperties, EmptySeq
  <2> QED BY <1>1, <2>1, <2>2 DEF IInv, KindOK
<1> QED BY <1>1, <1>2, <1>3, <1>4, TreeRemoved

(* The calls that write.                                                   *)
LEMMA StoreIsWrite ==
  ASSUME IInv, UniqueNames, Write
  PROVE  \/ TreeOf(inodes') = TreeOf(inodes)
         \/ Tree!Write(TreeOf(inodes), TreeOf(inodes'))
<1>1. PICK idx \in Inode, data \in InData, off \in InOffset :
        \E off2, n : ramfs_write(idx, data, off, off2, n)
  BY DEF Write
<1>2. Sound(inodes) /\ inodes \in [Inode -> InodeRecord] /\ inodes[idx] \in InodeRecord
  BY SoundTable DEF Sound
<1>3. CASE UNCHANGED inodes
  BY <1>3
<1>4. CASE IsFile(idx) /\ \E buf, cap : Store(idx, buf, cap, off, data)
  <2>1. PICK buf, cap : Store(idx, buf, cap, off, data)
    BY <1>4
  <2>2. PICK bytes :
          /\ bytes = inodes[idx].bytes \/ bytes = Patch(inodes[idx].bytes, off, data)
          /\ inodes' = [inodes EXCEPT ![idx].bytes = bytes, ![idx].data = buf,
                                      ![idx].capacity = cap]
    <3>1. CASE inodes' = [inodes EXCEPT ![idx].bytes = Patch(@, off, data),
                                        ![idx].data = buf, ![idx].capacity = cap]
      BY <3>1
    <3>2. CASE inodes' = [inodes EXCEPT ![idx].data = buf, ![idx].capacity = cap]
      <4>1. inodes' = [inodes EXCEPT ![idx].bytes = inodes[idx].bytes, ![idx].data = buf,
                                     ![idx].capacity = cap]
        BY <1>2, <3>2 DEF InodeRecord
      <4> QED BY <4>1
    <3> QED BY <2>1, <3>1, <3>2 DEF Store
  <2>3. /\ inodes'[idx].bytes = bytes
        /\ inodes'[idx].type = inodes[idx].type /\ inodes'[idx].entries = inodes[idx].entries
    BY <1>2, <2>2 DEF InodeRecord
  <2>4. \A x \in Inode \ {idx} : inodes'[x] = inodes[x]
    BY <1>2, <2>2
  <2>5. inodes[idx].type = FILE
    BY <1>4 DEF IsFile
  <2>6. \A x \in Inode : /\ inodes'[x].type = inodes[x].type
                         /\ inodes'[x].entries = inodes[x].entries
    BY <2>3, <2>4
  <2>7. \A x \in Inode \ {idx} : inodes'[x].bytes = inodes[x].bytes
    BY <2>4
  <2>8. \/ inodes'[idx].bytes = inodes[idx].bytes
        \/ inodes'[idx].bytes = Patch(inodes[idx].bytes, off, data)
    BY <2>2, <2>3
  <2> QED BY <1>1, <1>2, <2>5, <2>6, <2>7, <2>8, TreeWritten
<1> QED BY <1>1, <1>3, <1>4 DEF ramfs_write, ramfs_vars

(* Every call is a step of the tree or a stutter.                          *)
LEMMA NextIsTreeNext ==
  ASSUME \A n \in Name : Trunc[n] = n,
         IInv, UniqueNames, IInv', UniqueNames', [Next]_ramfs_vars
  PROVE  [Tree!Next]_FoundTree
<1> DEFINE t == TreeOf(inodes)
           u == TreeOf(inodes')
<1>1. Sound(inodes) /\ Sound(inodes')
  BY SoundTable
<1>2. FoundTree = t /\ FoundTree' = u
  BY <1>1, MappingIs
<1>3. \/ u = t
      \/ Tree!Create(t, u) \/ Tree!Unlink(t, u) \/ Tree!Write(t, u)
  <2>1. AddStep => u = t \/ Tree!Create(t, u)
    BY <1>1, AddIsCreate
  <2>2. RemoveStep => u = t \/ Tree!Unlink(t, u)
    BY <1>1, RemoveIsUnlink
  <2>3. RemoveLeafStep => RemoveStep
    BY DEF RemoveLeafStep, RemoveStep
  <2>4. UNCHANGED ramfs_vars => u = t
    BY DEF ramfs_vars
  <2> HIDE DEF t, u
  <2>5. CASE Create \/ Mkdir
    BY <2>1, <2>4, <2>5, InputAssumption, CreateStep DEF Create, Mkdir
  <2>6. CASE Unlink
    BY <2>2, <2>4, <2>6, InputAssumption, UnlinkStep DEF Unlink
  <2>7. CASE Rmdir
    BY <2>2, <2>3, <2>4, <2>7, InputAssumption, RmdirStep DEF Rmdir
  <2>8. CASE Write
    BY <2>8, StoreIsWrite DEF t, u
  <2> QED BY <2>4, <2>5, <2>6, <2>7, <2>8 DEF Next
<1> HIDE DEF t, u
<1>4. u = t \/ \E a \in {FoundTree}, b \in {FoundTree'} :
                 Tree!Create(a, b) \/ Tree!Unlink(a, b) \/ Tree!Rmdir(a, b) \/ Tree!Write(a, b)
  BY <1>2, <1>3
<1> QED BY <1>2, <1>4 DEF Tree!Next

(* The tree of the table that ramfs_init leaves is the root directory.     *)
LEMMA InitIsTreeInit ==
  ASSUME ramfs_init
  PROVE  Tree!Init
<1>1. IInv /\ UniqueNames
  <2>1. UniqueNames
    BY DEF ramfs_init, FreshInode, UniqueNames, Entry
  <2> QED BY <2>1, InitInvariant
<1>2. Sound(inodes) /\ FoundTree = TreeOf(inodes)
  BY <1>1, SoundTable, MappingIs
<1>3. inodes[Root].type = DIR /\ inodes[Root].bytes = <<>> /\ Root # NoInode
  BY TableAssumption DEF ramfs_init, FreshInode, Root, Inode, NoInode
<1>4. \A d \in Inode : inodes[d].entries = <<>>
  BY DEF ramfs_init, FreshInode
<1>5. <<>> \in Paths(inodes) /\ Ends(inodes, <<>>) = Root
  BY <1>3, EmptySeq, EndsAppend DEF Paths
<1>6. ASSUME NEW q \in Paths(inodes)
      PROVE  q = <<>>
  <2>1. SUFFICES ASSUME q # <<>> PROVE FALSE
    OBVIOUS
  <2>2. PICK r \in Seq(Part), n \in Part : q = Append(r, n)
    BY <1>6, <2>1, SequenceEmptyOrAppend DEF Paths
  <2>3. StepIn(inodes, Ends(inodes, r), n) # NoInode
    BY <1>6, <2>2, LastPart DEF Paths
  <2>4. PICK d \in Inode : \E k \in DOMAIN inodes[d].entries : TRUE
    BY <1>2, <2>3, StepFound
  <2> QED BY <1>4, <2>4
<1>7. Paths(inodes) = {<<>>}
  BY <1>5, <1>6
<1>8. TreeOf(inodes) = [p \in {<<>>} |-> Tree!Node("dir")]
  BY <1>3, <1>5, <1>7 DEF TreeOf, Shows, Tree!Node, DIR
<1> QED BY <1>2, <1>8 DEF Tree!Init

(* When no name is cut, the inode table implements the tree of FsTree: no  *)
(* call of ramfs.c shows its callers anything but a tree on which it did   *)
(* what its name says, or nothing.                                         *)
THEOREM TreeImplemented ==
  ASSUME \A n \in Name : Trunc[n] = n
  PROVE  Spec => ImplementsTree
<1>1. ramfs_init => Tree!Init
  BY InitIsTreeInit
<1>2. IInv /\ UniqueNames /\ IInv' /\ UniqueNames' /\ [Next]_ramfs_vars => [Tree!Next]_FoundTree
  BY NextIsTreeNext
<1>3. Spec => []UniqueNames
  BY UniqueNamesCorrect
<1> QED BY <1>1, <1>2, <1>3, Invariance, PTL DEF Spec, ImplementsTree, Tree!Spec
=============================================================================
