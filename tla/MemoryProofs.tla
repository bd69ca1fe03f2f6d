---------------------------- MODULE MemoryProofs ----------------------------
(***************************************************************************)
(* Proofs about Pmm, for every number of frames; about Heap and the frames *)
(* under it, for any sizes of pages, headers and requests, as long as no   *)
(* request is so large that adding to it wraps; and about the pages under  *)
(* the blocks, as long as a request takes at most a page.                  *)
(***************************************************************************)
EXTENDS Heap, FiniteSetTheorems, LeastNat

-----------------------------------------------------------------------------
(* The page count of Pmm.                                                  *)

(* A bitmap of whole words: 16MB are 4096 frames, 128 words.               *)
WholeWords == TotalPages % WordBits = 0

(* Loops that clear whole words then clear the word of every frame.        *)
LEMMA WordOfFrame ==
  ASSUME WholeWords, NEW p \in Page
  PROVE  p \div WordBits < TotalPages \div WordBits
<1> DEFINE P == p \div WordBits
           T == TotalPages \div WordBits
           i == p % WordBits
<1>1. WordBits \in Nat /\ WordBits > 0 /\ TotalPages \in Nat /\ p \in Nat /\ p < TotalPages
  BY PmmAssumption DEF Page
<1>2. p = WordBits * P + i /\ 0 <= i /\ P \in Int /\ i \in Int
  BY <1>1
<1>3. TotalPages = WordBits * T /\ T \in Int
  BY <1>1 DEF WholeWords
<1> HIDE DEF P, T, i
<1>4. ASSUME P >= T
      PROVE  FALSE
  <2>1. PICK d \in Nat : P = T + d
    <3>1. P - T \in Nat /\ P = T + (P - T)
      BY <1>2, <1>3, <1>4
    <3> QED BY <3>1
  <2>2. WordBits * P = WordBits * T + WordBits * d /\ WordBits * d >= 0
    BY <1>1, <1>3, <2>1
  <2> QED BY <1>1, <1>2, <1>3, <2>2
<1>5. P < T
  BY <1>2, <1>3, <1>4
<1> QED BY <1>5 DEF P, T

(* What is inductive: the count, of a bitmap of frames that exist.         *)
LEMMA PmmStep == CountAgrees /\ [PmmNext]_pmm_vars => CountAgrees'
<1> SUFFICES ASSUME CountAgrees, [PmmNext]_pmm_vars
             PROVE  CountAgrees'
  OBVIOUS
<1>1. IsFiniteSet(bitmap)
  <2>1. IsFiniteSet(Page)
    BY FS_Interval, PmmAssumption DEF Page
  <2> QED BY <2>1, FS_Subset DEF CountAgrees
<1>2. ASSUME NEW r \in Page, pmm_alloc_page(r)
      PROVE  CountAgrees'
  <2>1. CASE CanGrant
    <3>1. LowestFree \in Page \ bitmap
      <4>1. FreePages \in SUBSET Nat /\ FreePages # {}
        BY <2>1, PmmAssumption DEF CanGrant, FreePages, Page
      <4>2. \E p \in FreePages : \A q \in FreePages : p <= q
        BY <4>1, LeastNatural
      <4> QED BY <4>2 DEF LowestFree, FreePages
    <3>2. Cardinality(bitmap \cup {LowestFree}) = Cardinality(bitmap) + 1
      BY <1>1, <3>1, FS_AddElement
    <3> QED BY <1>2, <2>1, <3>1, <3>2 DEF pmm_alloc_page, CountAgrees
  <2>2. CASE ~CanGrant
    BY <1>2, <2>2 DEF pmm_alloc_page, pmm_vars, CountAgrees
  <2> QED BY <2>1, <2>2
<1>3. ASSUME NEW p \in 0 .. TotalPages, pmm_free_page(p)
      PROVE  CountAgrees'
  <2>1. CASE p \in bitmap
    <3>1. Cardinality(bitmap \ {p}) = Cardinality(bitmap) - 1
      BY <1>1, <2>1, FS_RemoveElement
    <3> QED BY <1>3, <2>1, <3>1 DEF pmm_free_page, pmm_vars, CountAgrees
  <2>2. CASE p \notin bitmap
    BY <1>3, <2>2 DEF pmm_free_page, pmm_vars, CountAgrees
  <2> QED BY <2>1, <2>2
<1>4. CASE UNCHANGED pmm_vars
  BY <1>4 DEF pmm_vars, CountAgrees
<1> QED BY <1>2, <1>3, <1>4 DEF PmmNext

(* used_pages counts the frames that are taken, whatever callers free.     *)
THEOREM CountCorrect == ASSUME WholeWords PROVE PmmSpec => []CountAgrees
<1>1. pmm_init => CountAgrees
  <2> SUFFICES ASSUME pmm_init PROVE CountAgrees
    OBVIOUS
  <2>1. bitmap = {}
    <3>1. \A p \in Stale : ~(p \div WordBits >= TotalPages \div WordBits)
      <4> SUFFICES ASSUME NEW p \in Stale
                   PROVE  ~(p \div WordBits >= TotalPages \div WordBits)
        OBVIOUS
      <4>1. p \in Page
        BY PmmAssumption DEF Page
      <4>2. p \div WordBits < TotalPages \div WordBits
        BY <4>1, WordOfFrame
      <4> QED BY <4>1, <4>2, PmmAssumption DEF Page
    <3> QED BY <3>1 DEF pmm_init
  <2>2. Cardinality({}) = 0
    BY FS_EmptySet
  <2> QED BY <2>1, <2>2 DEF pmm_init, CountAgrees
<1> QED BY <1>1, PmmStep, PTL DEF PmmSpec

-----------------------------------------------------------------------------
(* The heap: its list of blocks and its break.                             *)

(* No sum of sizes in kmalloc or sbrk reaches 2^32.                        *)
NoWrap ==
  /\ HEAP_END + PAGE_SIZE < WORD
  /\ \A n \in InSize : HEAP_END + HeaderSize + Align + n < WORD

(* There are frames for the directory, and for each page the first table   *)
(* maps to itself.                                                         *)
FramesForInit == 2 <= TotalPages /\ TableSize <= TotalPages

-----------------------------------------------------------------------------
(* What the steps keep of a list of headers h that ends at the address end.*)

(* Blocks do not overlap.                                                  *)
Apart(h) == \A b, c \in DOMAIN h : b < c => b + h[b].size <= c

(* next leads to the block that begins where this one ends.                *)
NextTo(h, b, end) ==
  \/ b + h[b].size = end /\ h[b].next = Null
  \/ b + h[b].size < end /\ b + h[b].size \in DOMAIN h /\ h[b].next = b + h[b].size

(* prev leads to the block that ends where this one begins.                *)
PrevTo(h, b) ==
  \/ b = HEAP_START /\ h[b].prev = Null
  \/ h[b].prev \in DOMAIN h /\ h[b].prev + h[h[b].prev].size = b

Tiled(h, end) ==
  /\ h \in [DOMAIN h -> Header] /\ IsFiniteSet(DOMAIN h)
  /\ \A b \in DOMAIN h : b \in Nat /\ HEAP_START <= b /\ h[b].size > 0
  /\ Apart(h)
  /\ \A b \in DOMAIN h : NextTo(h, b, end) /\ PrevTo(h, b)
  /\ DOMAIN h # {} => HEAP_START \in DOMAIN h /\ \E b \in DOMAIN h : b + h[b].size = end
  /\ DOMAIN h = {} => end = HEAP_START

Used(h) == {b \in DOMAIN h : ~h[b].is_free}

(* No free block is followed by another.                                   *)
Merged(h) == \A b \in DOMAIN h : h[b].is_free /\ h[b].next # Null => ~h[h[b].next].is_free

(* The same, whatever is next to block b.                                  *)
MergedBut(h, b) ==
  \A x \in DOMAIN h \ {b} :
    h[x].is_free /\ h[x].next # Null /\ h[x].next # b => ~h[h[x].next].is_free

(* What kmalloc and kheap_init know while they are inside sbrk.            *)
SbrkInv ==
  \/ call = Idle
  \/ /\ call \in [for : {"kheap_init", "kmalloc"}, size : Nat, request : Nat, addr : Nat,
                  page : Page, old : Nat]
     /\ call.size > 0 /\ heap_current_break = call.old + call.size
     /\ HEAP_START <= call.old
     /\ call.for = "kheap_init" => Block = {}
     /\ call.for = "kmalloc" => call.request \in InSize /\ Needed(call.request) <= call.size

FramesShape ==
  /\ bitmap \subseteq Page /\ used_pages \in Nat
  /\ directory \in [PdIndex -> Page \cup {Absent}]
  /\ entries \in [VPage -> Page \cup {Absent}]

ListInv ==
  /\ heap_current_break \in HEAP_START .. HEAP_END
  /\ heap_start = IF Block = {} THEN Null ELSE HEAP_START
  /\ Tiled(header, BlocksEnd)
  /\ Merged(header)
  /\ held \in [DOMAIN held -> InSize] /\ DOMAIN held \subseteq Nat
  /\ HeldFits
  /\ SbrkInv

HInv == FramesShape /\ ListInv

-----------------------------------------------------------------------------
(* Facts about lists that are tiled.                                       *)

(* Where next and prev lead.                                               *)
LEMMA Neighbours ==
  ASSUME NEW h, NEW end \in Nat, Tiled(h, end)
  PROVE  /\ 0 \notin DOMAIN h /\ HEAP_START \in Nat
         /\ \A b \in DOMAIN h : b \in Nat /\ HEAP_START <= b /\ h[b].size \in Nat /\ h[b].size > 0
                             /\ b + h[b].size <= end
         /\ \A b, c \in DOMAIN h : b < c => b + h[b].size <= c
         /\ \A b, c \in DOMAIN h : b + h[b].size = c <=> h[b].next = c
         /\ \A b, c \in DOMAIN h : b + h[b].size = c <=> h[c].prev = b
         /\ \A b \in DOMAIN h : h[b].next = Null \/ h[b].next \in DOMAIN h
         /\ \A b \in DOMAIN h : h[b].prev = Null \/ h[b].prev \in DOMAIN h
         /\ \A b \in DOMAIN h : h[b].next = Null <=> b + h[b].size = end
<1>1. HEAP_START \in Nat /\ HEAP_START > 0
  BY HeapAssumption
<1>2. \A b \in DOMAIN h : /\ b \in Nat /\ HEAP_START <= b /\ h[b].size > 0
                          /\ h[b].size \in Nat /\ h[b].next \in Nat /\ h[b].prev \in Nat
  BY DEF Tiled, Header
<1>3. \A b, c \in DOMAIN h : b < c => b + h[b].size <= c
  BY DEF Tiled, Apart
<1>4. \A b \in DOMAIN h : NextTo(h, b, end) /\ PrevTo(h, b)
  BY DEF Tiled
<1>5. 0 \notin DOMAIN h
  BY <1>1, <1>2
<1>6. \A b \in DOMAIN h : b + h[b].size <= end
  BY <1>2, <1>4 DEF NextTo
<1>7. \A b \in DOMAIN h : h[b].next = Null \/ h[b].next \in DOMAIN h
  BY <1>4 DEF NextTo
<1>8. \A b \in DOMAIN h : h[b].prev = Null \/ h[b].prev \in DOMAIN h
  BY <1>4 DEF PrevTo
<1>9. \A b \in DOMAIN h : h[b].next = Null <=> b + h[b].size = end
  BY <1>2, <1>4, <1>5 DEF NextTo, Null
<1>10. ASSUME NEW b \in DOMAIN h, NEW c \in DOMAIN h
       PROVE  b + h[b].size = c <=> h[b].next = c
  <2>1. NextTo(h, b, end) /\ c + h[c].size <= end /\ h[c].size > 0 /\ c # Null
    BY <1>2, <1>4, <1>5, <1>6 DEF Null
  <2> QED BY <1>2, <2>1 DEF NextTo
<1>11. ASSUME NEW b \in DOMAIN h, NEW c \in DOMAIN h
       PROVE  b + h[b].size = c <=> h[c].prev = b
  <2>1. CASE h[c].prev = Null /\ c = HEAP_START
    <3>1. h[c].prev # b /\ b + h[b].size # c
      BY <1>1, <1>2, <1>5, <2>1 DEF Null
    <3> QED BY <3>1
  <2>2. CASE h[c].prev \in DOMAIN h /\ h[c].prev + h[h[c].prev].size = c
    <3> DEFINE p == h[c].prev
    <3>1. p \in DOMAIN h /\ p + h[p].size = c
      BY <2>2
    <3> HIDE DEF p
    <3>2. b + h[b].size = c => b = p
      BY <1>2, <1>3, <3>1
    <3> QED BY <3>1, <3>2 DEF p
  <2> QED BY <1>4, <2>1, <2>2 DEF PrevTo
<1> QED BY <1>1, <1>2, <1>3, <1>5, <1>6, <1>7, <1>8, <1>9, <1>10, <1>11

(* What split_block and is_free = 0 leave in each header.                  *)
LEMMA SplitFacts ==
  ASSUME NEW h, NEW end \in Nat, Tiled(h, end), NEW b \in DOMAIN h, NEW size \in Nat,
         h[b].size > size + HeaderSize + Slack, size > 0
  PROVE  LET g == split_block(h, b, size)
             r == b + size
         IN /\ r \notin DOMAIN h /\ r \in Nat
            /\ g \in [DOMAIN h \cup {r} -> Header]
            /\ g[r].size = h[b].size - size /\ g[r].is_free /\ g[r].next = h[b].next /\ g[r].prev = b
            /\ g[b].size = size /\ ~g[b].is_free /\ g[b].next = r /\ g[b].prev = h[b].prev
            /\ \A x \in DOMAIN h \ {b} :
                 /\ g[x].size = h[x].size /\ g[x].is_free = h[x].is_free /\ g[x].next = h[x].next
                 /\ g[x].prev = IF x = h[b].next THEN r ELSE h[x].prev
<1> DEFINE r == b + size
           n == h[b].next
           rest == [size |-> h[b].size - size, is_free |-> TRUE, next |-> n, prev |-> b]
           put == Put(h, r, rest)
           linked == SetPrev(put, n, r)
           g == [linked EXCEPT ![b] = [@ EXCEPT !.size = size, !.next = r, !.is_free = FALSE]]
<1>1. /\ h \in [DOMAIN h -> Header] /\ HeaderSize \in Nat /\ Slack \in Nat
      /\ b \in Nat /\ h[b].size \in Nat /\ h[b] \in Header
  BY HeapAssumption DEF Tiled, Header
<1>2. r \in Nat /\ b < r /\ r < b + h[b].size
  BY <1>1
<1>3. r \notin DOMAIN h
  <2> HIDE DEF r
  <2> QED BY <1>1, <1>2, Neighbours
<1>4. rest \in Header /\ n \in Nat
  BY <1>1 DEF Header
<1>5. /\ n = Null \/ n \in DOMAIN h
      /\ n # b /\ n # r /\ b # r /\ Null \notin DOMAIN h
  <2>1. n = Null \/ n \in DOMAIN h
    BY Neighbours
  <2>2. n # b
    <3>1. b + h[b].size # b
      BY <1>1, <1>2
    <3> QED BY <3>1, Neighbours
  <2>3. Null \notin DOMAIN h /\ Null # r
    BY <1>1, <1>2, Neighbours DEF Null
  <2> QED BY <1>2, <1>3, <2>1, <2>2, <2>3
<1>6. split_block(h, b, size) = g
  BY <1>1 DEF split_block
<1> HIDE DEF r, n
<1>7. /\ put \in [DOMAIN h \cup {r} -> Header] /\ put[r] = rest
      /\ \A x \in DOMAIN h : put[x] = h[x]
  BY <1>1, <1>3, <1>4 DEF Put
<1> HIDE DEF put
<1>8. /\ linked \in [DOMAIN h \cup {r} -> Header]
      /\ linked[r] = rest /\ linked[b] = h[b]
      /\ \A x \in DOMAIN h \ {b} :
           linked[x] = IF x = n THEN [h[x] EXCEPT !.prev = r] ELSE h[x]
  <2>1. CASE n = Null
    <3>1. linked = put
      BY <2>1 DEF SetPrev
    <3> QED BY <1>5, <1>7, <2>1, <3>1
  <2>2. CASE n # Null
    <3>1. linked = [put EXCEPT ![n].prev = r] /\ n \in DOMAIN h
      BY <1>5, <2>2 DEF SetPrev
    <3>2. put[n] \in Header /\ put[n] = h[n]
      BY <1>7, <3>1
    <3>3. [put[n] EXCEPT !.prev = r] \in Header
      BY <1>2, <3>2 DEF Header
    <3>4. linked = [put EXCEPT ![n] = [put[n] EXCEPT !.prev = r]]
      BY <3>1
    <3> HIDE DEF linked, rest
    <3> QED BY <1>5, <1>7, <3>1, <3>2, <3>3, <3>4
  <2> QED BY <2>1, <2>2
<1> HIDE DEF linked
<1>9. /\ g \in [DOMAIN h \cup {r} -> Header]
      /\ g[r] = rest
      /\ g[b] = [h[b] EXCEPT !.size = size, !.next = r, !.is_free = FALSE]
      /\ \A x \in DOMAIN h \ {b} : g[x] = linked[x]
  <2>1. [h[b] EXCEPT !.size = size, !.next = r, !.is_free = FALSE] \in Header
    BY <1>1, <1>2 DEF Header
  <2>2. g = [linked EXCEPT ![b] = [h[b] EXCEPT !.size = size, !.next = r, !.is_free = FALSE]]
    BY <1>8
  <2> HIDE DEF rest, g
  <2> QED BY <1>5, <1>8, <2>1, <2>2
<1> HIDE DEF g
<1>10. /\ g[r].size = h[b].size - size /\ g[r].is_free /\ g[r].next = n /\ g[r].prev = b
       /\ g[b].size = size /\ ~g[b].is_free /\ g[b].next = r /\ g[b].prev = h[b].prev
  BY <1>1, <1>9 DEF Header
<1>11. ASSUME NEW x \in DOMAIN h \ {b}
       PROVE  /\ g[x].size = h[x].size /\ g[x].is_free = h[x].is_free /\ g[x].next = h[x].next
              /\ g[x].prev = IF x = n THEN r ELSE h[x].prev
  <2>1. h[x] \in Header /\ g[x] = IF x = n THEN [h[x] EXCEPT !.prev = r] ELSE h[x]
    BY <1>1, <1>8, <1>9
  <2> QED BY <2>1 DEF Header
<1> QED BY <1>2, <1>3, <1>6, <1>9, <1>10, <1>11 DEF r, n

(* A free block that is given is used; what may be left of it is a free    *)
(* block behind it.                                                        *)
LEMMA SplitKeeps ==
  ASSUME NEW h, NEW end \in Nat, Tiled(h, end), NEW b \in DOMAIN h, h[b].is_free,
         MergedBut(h, b), ~NextIsFree(h, b), NEW size \in Nat, size > 0, size <= h[b].size
  PROVE  LET g == split_block(h, b, size)
         IN /\ Tiled(g, end) /\ Merged(g) /\ Used(g) = Used(h) \cup {b}
            /\ DOMAIN h \subseteq DOMAIN g /\ g[b].size >= size
            /\ \A x \in Used(h) : g[x].size = h[x].size
<1> DEFINE g == split_block(h, b, size)
           r == b + size
<1>1. /\ h \in [DOMAIN h -> Header] /\ HeaderSize \in Nat /\ Slack \in Nat /\ IsFiniteSet(DOMAIN h)
      /\ h[b] \in Header /\ b \in Nat /\ h[b].size \in Nat
  BY HeapAssumption DEF Tiled, Header
<1>2. CASE ~(h[b].size > size + HeaderSize + Slack)
  <2>1. g = [h EXCEPT ![b] = [h[b] EXCEPT !.is_free = FALSE]]
    BY <1>1, <1>2 DEF split_block
  <2>2. [h[b] EXCEPT !.is_free = FALSE] \in Header
    BY <1>1 DEF Header
  <2>3. /\ g \in [DOMAIN h -> Header] /\ ~g[b].is_free
        /\ \A x \in DOMAIN h : g[x].size = h[x].size /\ g[x].next = h[x].next /\ g[x].prev = h[x].prev
        /\ \A x \in DOMAIN h \ {b} : g[x].is_free = h[x].is_free
    <3>1. g \in [DOMAIN h -> Header]
      BY <1>1, <2>1, <2>2
    <3>2. g[b] = [h[b] EXCEPT !.is_free = FALSE] /\ \A x \in DOMAIN h \ {b} : g[x] = h[x]
      BY <1>1, <2>1
    <3>3. /\ ~g[b].is_free /\ g[b].size = h[b].size
          /\ g[b].next = h[b].next /\ g[b].prev = h[b].prev
      BY <1>1, <3>2 DEF Header
    <3> QED BY <3>1, <3>2, <3>3
  <2> HIDE DEF g
  <2>4. DOMAIN g = DOMAIN h
    BY <2>3
  <2>5. Tiled(g, end)
    <3>1. Apart(g)
      BY <2>3, <2>4, Neighbours DEF Apart
    <3>2. ASSUME NEW x \in DOMAIN h
          PROVE  NextTo(g, x, end) /\ PrevTo(g, x)
      <4>1. NextTo(h, x, end) /\ PrevTo(h, x)
        BY DEF Tiled
      <4>2. NextTo(g, x, end)
        BY <2>3, <2>4, <4>1 DEF NextTo
      <4>3. PrevTo(g, x)
        BY <2>3, <2>4, <4>1 DEF PrevTo
      <4> QED BY <4>2, <4>3
    <3>3. \A x \in DOMAIN h : x \in Nat /\ HEAP_START <= x /\ g[x].size > 0
      BY <2>3, Neighbours
    <3>4. HEAP_START \in DOMAIN h /\ \E x \in DOMAIN h : x + g[x].size = end
      BY <2>3 DEF Tiled
    <3> QED BY <1>1, <2>3, <2>4, <3>1, <3>2, <3>3, <3>4 DEF Tiled
  <2>6. Merged(g)
    BY <2>3, <2>4, Neighbours DEF Merged, MergedBut
  <2>7. Used(g) = Used(h) \cup {b}
    BY <2>3, <2>4 DEF Used
  <2>8. \A x \in Used(h) : g[x].size = h[x].size
    BY <2>3 DEF Used
  <2>9. g[b].size >= size
    BY <1>1, <2>3
  <2> QED BY <2>4, <2>5, <2>6, <2>7, <2>8, <2>9 DEF g
<1>3. CASE h[b].size > size + HeaderSize + Slack
  <2>1. /\ r \notin DOMAIN h /\ r \in Nat
        /\ g \in [DOMAIN h \cup {r} -> Header]
        /\ g[r].size = h[b].size - size /\ g[r].is_free /\ g[r].next = h[b].next /\ g[r].prev = b
        /\ g[b].size = size /\ ~g[b].is_free /\ g[b].next = r /\ g[b].prev = h[b].prev
        /\ \A x \in DOMAIN h \ {b} :
             /\ g[x].size = h[x].size /\ g[x].is_free = h[x].is_free /\ g[x].next = h[x].next
             /\ g[x].prev = IF x = h[b].next THEN r ELSE h[x].prev
    BY <1>3, SplitFacts
  <2> HIDE DEF g
  <2>2. DOMAIN g = DOMAIN h \cup {r}
    BY <2>1
  <2>3. b < r /\ r + g[r].size = b + h[b].size
    BY <1>1, <1>3, <2>1
  <2> HIDE DEF r
  <2>4. IsFiniteSet(DOMAIN g)
    BY <1>1, <2>2, FS_AddElement
  <2>5. \A x \in DOMAIN g : x \in Nat /\ HEAP_START <= x /\ g[x].size > 0
    <3>1. g[r].size > 0
      BY <1>1, <1>3, <2>1
    <3> QED BY <2>1, <2>2, <2>3, <3>1, Neighbours
  <2>6. Apart(g)
    <3> SUFFICES ASSUME NEW x \in DOMAIN g, NEW y \in DOMAIN g, x < y
                 PROVE  x + g[x].size <= y
      BY DEF Apart
    <3>1. x \in Nat /\ y \in Nat
      BY <2>5
    <3>2. CASE x = r
      <4>1. y \in DOMAIN h /\ b < y
        BY <2>2, <2>3, <3>1, <3>2, <2>1, <1>1
      <4>2. b + h[b].size <= y
        BY <4>1, Neighbours
      <4> QED BY <2>3, <3>2, <4>2
    <3>3. CASE x # r /\ y = r
      <4>1. x \in DOMAIN h
        BY <2>2, <3>3
      <4>2. CASE x = b
        BY <2>1, <3>3, <4>2 DEF r
      <4>3. CASE x # b
        <5>1. g[x].size = h[x].size
          BY <2>1, <4>1, <4>3
        <5>2. x < b
          <6>1. x > b => b + h[b].size <= x
            BY <4>1, Neighbours
          <6>2. r < b + h[b].size
            BY <1>1, <1>3 DEF r
          <6> QED BY <1>1, <2>1, <3>1, <3>3, <4>3, <6>1, <6>2
        <5>3. x + h[x].size <= b /\ h[x].size \in Nat
          BY <4>1, <5>2, Neighbours
        <5> QED BY <1>1, <2>1, <2>3, <3>1, <3>3, <5>1, <5>3
      <4> QED BY <4>2, <4>3
    <3>4. CASE x # r /\ y # r
      <4>1. x \in DOMAIN h /\ y \in DOMAIN h
        BY <2>2, <3>4
      <4>2. x + h[x].size <= y /\ h[x].size \in Nat
        BY <4>1, Neighbours
      <4>3. g[x].size = h[x].size \/ (x = b /\ g[x].size = size)
        BY <2>1, <4>1
      <4> QED BY <1>1, <3>1, <4>2, <4>3
    <3> QED BY <3>2, <3>3, <3>4
  <2>7. \A x \in DOMAIN g : NextTo(g, x, end)
    <3>1. NextTo(g, b, end)
      <4>1. b + g[b].size = r /\ r < end
        <5>1. b + h[b].size <= end
          BY Neighbours
        <5> QED BY <1>1, <1>3, <2>1, <5>1 DEF r
      <4> QED BY <2>1, <2>2, <4>1 DEF NextTo
    <3>2. NextTo(g, r, end)
      <4>1. NextTo(h, b, end)
        BY DEF Tiled
      <4> QED BY <2>1, <2>2, <2>3, <4>1 DEF NextTo
    <3>3. ASSUME NEW x \in DOMAIN h, x # b
          PROVE  NextTo(g, x, end)
      <4>1. NextTo(h, x, end)
        BY DEF Tiled
      <4> QED BY <2>1, <2>2, <3>3, <4>1 DEF NextTo
    <3> QED BY <2>2, <3>1, <3>2, <3>3
  <2>8. \A x \in DOMAIN g : PrevTo(g, x)
    <3>1. PrevTo(g, r)
      BY <2>1, <2>2 DEF PrevTo, r
    <3>2. ASSUME NEW x \in DOMAIN h, x # h[b].next
          PROVE  PrevTo(g, x)
      <4>1. PrevTo(h, x) /\ g[x].prev = h[x].prev
        BY <2>1, <3>2 DEF Tiled
      <4>2. h[x].prev # b
        BY <3>2, Neighbours
      <4>3. h[x].prev \in DOMAIN h => g[h[x].prev].size = h[h[x].prev].size
        BY <2>1, <4>2
      <4> QED BY <2>2, <4>1, <4>3 DEF PrevTo
    <3>3. ASSUME NEW x \in DOMAIN h, x = h[b].next
          PROVE  PrevTo(g, x)
      <4>1. x # b /\ b + h[b].size = x
        BY <1>1, <1>3, <3>3, Neighbours
      <4>2. g[x].prev = r /\ r + g[r].size = x
        BY <2>1, <2>3, <3>3, <4>1
      <4> QED BY <2>2, <4>2 DEF PrevTo
    <3> QED BY <2>2, <3>1, <3>2, <3>3
  <2>9. HEAP_START \in DOMAIN g /\ \E x \in DOMAIN g : x + g[x].size = end
    <3>1. PICK x \in DOMAIN h : x + h[x].size = end /\ HEAP_START \in DOMAIN h
      BY DEF Tiled
    <3>2. CASE x = b
      BY <2>2, <2>3, <3>1, <3>2
    <3>3. CASE x # b
      BY <2>1, <2>2, <3>1, <3>3
    <3> QED BY <3>2, <3>3, <3>1, <2>2
  <2>10. Tiled(g, end)
    <3>1. g \in [DOMAIN g -> Header] /\ DOMAIN g # {}
      BY <2>1, <2>2
    <3> QED BY <2>4, <2>5, <2>6, <2>7, <2>8, <2>9, <3>1 DEF Tiled
  <2>11. Merged(g)
    <3> SUFFICES ASSUME NEW x \in DOMAIN g, g[x].is_free, g[x].next # Null
                 PROVE  ~g[g[x].next].is_free
      BY DEF Merged
    <3>1. PICK y \in DOMAIN h : h[y].is_free /\ g[x].next = h[y].next /\ y # h[y].next
      <4>1. \A y \in DOMAIN h : y # h[y].next
        <5>1. \A y \in DOMAIN h : y + h[y].size # y
          BY Neighbours
        <5> QED BY <5>1, Neighbours
      <4> QED BY <2>1, <2>2, <4>1
    <3>2. h[y].next \in DOMAIN h /\ (h[y].next = b \/ ~h[h[y].next].is_free)
      BY <3>1, Neighbours DEF MergedBut, NextIsFree
    <3> QED BY <2>1, <3>1, <3>2
  <2>12. Used(g) = Used(h) \cup {b}
    BY <2>1, <2>2 DEF Used
  <2>13. \A x \in Used(h) : g[x].size = h[x].size
    BY <2>1 DEF Used
  <2>14. g[b].size >= size
    BY <2>1
  <2> QED BY <2>2, <2>10, <2>11, <2>12, <2>13, <2>14 DEF g
<1> QED BY <1>2, <1>3

(* What taking over the next block leaves in each header.                  *)
LEMMA AbsorbFacts ==
  ASSUME NEW h, NEW end \in Nat, Tiled(h, end), NEW b \in DOMAIN h, NEW n \in DOMAIN h,
         h[b].next = n
  PROVE  LET g == Absorb(h, b, n)
         IN /\ g \in [DOMAIN h \ {n} -> Header] /\ b # n /\ b + h[b].size = n
            /\ g[b].size = h[b].size + h[n].size /\ g[b].next = h[n].next
            /\ \A x \in DOMAIN h \ {b, n} : g[x].size = h[x].size /\ g[x].next = h[x].next
            /\ \A x \in DOMAIN h \ {n} :
                 /\ g[x].is_free = h[x].is_free
                 /\ g[x].prev = IF x = h[n].next THEN b ELSE h[x].prev
<1> DEFINE m == h[n].next
           grown == [h[b] EXCEPT !.size = @ + h[n].size, !.next = m]
           k == [h EXCEPT ![b] = grown]
           linked == SetPrev(k, m, b)
           g == Absorb(h, b, n)
<1>1. /\ h \in [DOMAIN h -> Header] /\ h[b] \in Header /\ h[n] \in Header
      /\ b \in Nat /\ n \in Nat /\ h[b].size \in Nat /\ h[n].size \in Nat
      /\ h[b].size > 0 /\ h[n].size > 0
  BY DEF Tiled, Header
<1>2. b + h[b].size = n /\ b # n
  <2>1. b + h[b].size = n
    BY Neighbours
  <2> QED BY <1>1, <2>1
<1>3. (m = Null \/ m \in DOMAIN h) /\ m # b /\ m # n /\ m \in Nat
  <2>1. m = Null \/ m \in DOMAIN h
    BY Neighbours
  <2>2. Null \notin DOMAIN h
    BY Neighbours DEF Null
  <2>3. m \in DOMAIN h => n + h[n].size = m
    BY Neighbours
  <2> QED BY <1>1, <1>2, <2>1, <2>2, <2>3 DEF Header
<1>4. g = Drop(linked, n)
  BY DEF Absorb
<1> HIDE DEF m, g
<1>5. grown \in Header
  <2>1. h[b].size + h[n].size \in Nat /\ h[b] \in Header /\ m \in Nat
    BY <1>1, <1>3
  <2>2. grown = [h[b] EXCEPT !.size = h[b].size + h[n].size, !.next = m]
    BY <2>1 DEF Header
  <2> QED BY <2>1, <2>2 DEF Header
<1>6. /\ grown.size = h[b].size + h[n].size /\ grown.next = m
      /\ grown.is_free = h[b].is_free /\ grown.prev = h[b].prev
  BY <1>1 DEF Header
<1> HIDE DEF grown
<1>7. k \in [DOMAIN h -> Header] /\ k[b] = grown /\ \A x \in DOMAIN h \ {b} : k[x] = h[x]
  BY <1>1, <1>5
<1> HIDE DEF k
<1>8. /\ linked \in [DOMAIN h -> Header]
      /\ \A x \in DOMAIN h : linked[x] = IF x = m THEN [k[x] EXCEPT !.prev = b] ELSE k[x]
  <2>1. CASE m = Null
    <3>1. linked = k /\ m \notin DOMAIN h
      BY <2>1, Neighbours DEF SetPrev, Null
    <3> QED BY <1>7, <3>1
  <2>2. CASE m # Null
    <3>1. linked = [k EXCEPT ![m] = [k[m] EXCEPT !.prev = b]] /\ m \in DOMAIN h
      BY <1>3, <2>2 DEF SetPrev
    <3>2. k[m] \in Header
      BY <1>7, <3>1
    <3>3. [k[m] EXCEPT !.prev = b] \in Header
      BY <1>1, <3>2 DEF Header
    <3> HIDE DEF linked
    <3> QED BY <1>7, <3>1, <3>3
  <2> QED BY <2>1, <2>2
<1> HIDE DEF linked
<1>9. g \in [DOMAIN h \ {n} -> Header] /\ \A x \in DOMAIN h \ {n} : g[x] = linked[x]
  <2>1. DOMAIN linked = DOMAIN h
    BY <1>8
  <2> QED BY <1>4, <1>8, <2>1 DEF Drop
<1>10. ASSUME NEW x \in DOMAIN h \ {n}
       PROVE  /\ g[x].size = k[x].size /\ g[x].next = k[x].next /\ g[x].is_free = k[x].is_free
              /\ g[x].prev = IF x = m THEN b ELSE k[x].prev
  <2>1. k[x] \in Header /\ g[x] = IF x = m THEN [k[x] EXCEPT !.prev = b] ELSE k[x]
    BY <1>7, <1>8, <1>9
  <2> QED BY <2>1 DEF Header
<1>11. \A x \in DOMAIN h \ {n} : k[x].is_free = h[x].is_free /\ k[x].prev = h[x].prev
  BY <1>6, <1>7
<1>12. \A x \in DOMAIN h \ {n} : /\ g[x].is_free = h[x].is_free
                                 /\ g[x].prev = IF x = m THEN b ELSE h[x].prev
  BY <1>10, <1>11
<1>13. g[b].size = h[b].size + h[n].size /\ g[b].next = m
  BY <1>2, <1>6, <1>7, <1>10
<1>14. \A x \in DOMAIN h \ {b, n} : g[x].size = h[x].size /\ g[x].next = h[x].next
  BY <1>7, <1>10
<1> QED BY <1>2, <1>9, <1>12, <1>13, <1>14 DEF m, g

(* Taking over the next block leaves the list tiled.                       *)
LEMMA AbsorbTiles ==
  ASSUME NEW h, NEW end \in Nat, Tiled(h, end), NEW b \in DOMAIN h, NEW n \in DOMAIN h,
         h[b].next = n
  PROVE  Tiled(Absorb(h, b, n), end)
<1> DEFINE g == Absorb(h, b, n)
           D == DOMAIN h \ {n}
<1>1. /\ g \in [DOMAIN h \ {n} -> Header] /\ b # n /\ b + h[b].size = n
      /\ g[b].size = h[b].size + h[n].size /\ g[b].next = h[n].next
      /\ \A x \in DOMAIN h \ {b, n} : g[x].size = h[x].size /\ g[x].next = h[x].next
      /\ \A x \in DOMAIN h \ {n} :
           /\ g[x].is_free = h[x].is_free
           /\ g[x].prev = IF x = h[n].next THEN b ELSE h[x].prev
  BY AbsorbFacts
<1> HIDE DEF g
<1>2. DOMAIN g = D /\ IsFiniteSet(D)
  BY <1>1, FS_Subset DEF Tiled
<1>3. \A x \in DOMAIN h : x \in Nat /\ HEAP_START <= x /\ h[x].size \in Nat /\ h[x].size > 0
  BY Neighbours
<1>4. b + g[b].size = n + h[n].size
  BY <1>1, <1>3
<1>5. \A x \in D : g[x].size > 0
  <2>1. g[b].size > 0
    BY <1>1, <1>3
  <2> QED BY <1>1, <1>3, <2>1
<1>6. Apart(g)
  <2> SUFFICES ASSUME NEW x \in D, NEW y \in D, x < y
               PROVE  x + g[x].size <= y
    BY <1>2 DEF Apart
  <2>1. x + h[x].size <= y
    BY Neighbours
  <2>2. CASE x = b
    <3>1. n <= y /\ n # y
      BY <1>1, <2>1, <2>2
    <3>2. n + h[n].size <= y
      BY <1>3, <3>1, Neighbours
    <3> QED BY <1>4, <2>2, <3>2
  <2>3. CASE x # b
    BY <1>1, <2>1, <2>3
  <2> QED BY <2>2, <2>3
<1>7. ASSUME NEW x \in D
      PROVE  NextTo(g, x, end)
  <2>1. CASE x = b
    <3>1. NextTo(h, n, end)
      BY DEF Tiled
    <3>2. n + h[n].size # n
      BY <1>3
    <3> QED BY <1>1, <1>2, <1>4, <2>1, <3>1, <3>2 DEF NextTo
  <2>2. CASE x # b
    <3>1. NextTo(h, x, end) /\ g[x].size = h[x].size /\ g[x].next = h[x].next
      BY <1>1, <2>2 DEF Tiled
    <3>2. x + h[x].size # n
      <4>1. x + h[x].size = n => h[n].prev = x
        BY Neighbours
      <4>2. h[n].prev = b
        BY <1>1, Neighbours
      <4> QED BY <2>2, <4>1, <4>2
    <3> QED BY <1>2, <3>1, <3>2 DEF NextTo
  <2> QED BY <2>1, <2>2
<1>8. ASSUME NEW x \in D
      PROVE  PrevTo(g, x)
  <2>1. CASE x = h[n].next
    <3>1. n + h[n].size = x
      BY <2>1, Neighbours
    <3>2. g[x].prev = b /\ b \in D
      BY <1>1, <2>1
    <3> QED BY <1>2, <1>4, <3>1, <3>2 DEF PrevTo
  <2>2. CASE x # h[n].next
    <3>1. PrevTo(h, x) /\ g[x].prev = h[x].prev
      BY <1>1, <2>2 DEF Tiled
    <3>2. h[x].prev # n
      BY <2>2, Neighbours
    <3>3. h[x].prev # b
      <4>1. h[b].next # x
        BY <1>1
      <4> QED BY <4>1, Neighbours
    <3>4. h[x].prev \in DOMAIN h => h[x].prev \in D /\ g[h[x].prev].size = h[h[x].prev].size
      BY <1>1, <3>2, <3>3
    <3> QED BY <1>2, <3>1, <3>4 DEF PrevTo
  <2> QED BY <2>1, <2>2
<1>9. b \in D /\ HEAP_START \in D /\ \E x \in D : x + g[x].size = end
  <2>1. b \in D
    BY <1>1
  <2>2. HEAP_START \in D
    <3>1. HEAP_START \in DOMAIN h
      BY DEF Tiled
    <3>2. HEAP_START < n
      BY <1>1, <1>3, Neighbours
    <3>3. HEAP_START # n
      BY <1>3, <3>2, Neighbours
    <3> QED BY <3>1, <3>3
  <2>3. PICK x \in DOMAIN h : x + h[x].size = end
    BY DEF Tiled
  <2>4. CASE x = n
    BY <1>4, <2>1, <2>2, <2>3, <2>4
  <2>5. CASE x # n
    <3>1. x # b
      <4>1. n + h[n].size <= end
        BY Neighbours
      <4> QED BY <1>1, <1>3, <2>3, <4>1
    <3> QED BY <1>1, <2>1, <2>2, <2>3, <2>5, <3>1
  <2> QED BY <2>4, <2>5
<1> QED BY <1>1, <1>2, <1>3, <1>5, <1>6, <1>7, <1>8, <1>9 DEF Tiled, g

(* The headers with the block sbrk makes behind the last one.              *)
Appended(h, end, size, last) ==
  LET new == [size |-> size, is_free |-> TRUE, next |-> Null, prev |-> last]
  IN Put(IF last = Null THEN h ELSE [h EXCEPT ![last].next = end], end, new)

GrownBy(g, h, end, size) ==
  /\ Tiled(g, end + size) /\ MergedBut(g, end) /\ ~NextIsFree(g, end)
  /\ DOMAIN g = DOMAIN h \cup {end} /\ Used(g) = Used(h)
  /\ g[end].is_free /\ g[end].size = size
  /\ \A x \in DOMAIN h : g[x].size = h[x].size

(* They are tiled up to the end of the new block.                          *)
LEMMA AppendKeeps ==
  ASSUME NEW h, NEW end \in Nat, Tiled(h, end), Merged(h), NEW size \in Nat, size > 0, NEW last,
         DOMAIN h = {} => last = Null,
         DOMAIN h # {} => last \in DOMAIN h /\ h[last].next = Null
  PROVE  GrownBy(Appended(h, end, size, last), h, end, size)
<1> DEFINE new == [size |-> size, is_free |-> TRUE, next |-> Null, prev |-> last]
           k == IF last = Null THEN h ELSE [h EXCEPT ![last].next = end]
           g == Put(k, end, new)
<1>1. /\ h \in [DOMAIN h -> Header] /\ IsFiniteSet(DOMAIN h) /\ Null \notin DOMAIN h
      /\ \A x \in DOMAIN h : x \in Nat /\ HEAP_START <= x /\ h[x].size \in Nat /\ h[x].size > 0
      /\ HEAP_START \in Nat /\ HEAP_START > 0
  BY Neighbours, HeapAssumption DEF Tiled, Null
<1>2. last = Null \/ last \in DOMAIN h
  OBVIOUS
<1>3. end \notin DOMAIN h
  <2>1. \A x \in DOMAIN h : x + h[x].size <= end
    BY Neighbours
  <2>2. \A x \in DOMAIN h : x # end
    BY <1>1, <2>1
  <2> QED BY <2>2
<1>4. last \in DOMAIN h => last + h[last].size = end
  BY <1>1, Neighbours
<1>5. /\ k \in [DOMAIN h -> Header]
      /\ \A x \in DOMAIN h :
           /\ k[x].size = h[x].size /\ k[x].is_free = h[x].is_free /\ k[x].prev = h[x].prev
           /\ k[x].next = IF x = last THEN end ELSE h[x].next
  <2>1. CASE last = Null
    BY <1>1, <2>1
  <2>2. CASE last \in DOMAIN h
    <3>1. h[last] \in Header
      BY <1>1, <2>2
    <3>2. k = [h EXCEPT ![last] = [h[last] EXCEPT !.next = end]]
      BY <1>1, <2>2
    <3>3. [h[last] EXCEPT !.next = end] \in Header
      BY <3>1 DEF Header
    <3> HIDE DEF k
    <3>4. /\ k \in [DOMAIN h -> Header] /\ k[last] = [h[last] EXCEPT !.next = end]
          /\ \A x \in DOMAIN h \ {last} : k[x] = h[x]
      BY <1>1, <2>2, <3>2, <3>3
    <3>5. /\ k[last].size = h[last].size /\ k[last].is_free = h[last].is_free
          /\ k[last].prev = h[last].prev /\ k[last].next = end
      BY <3>1, <3>4 DEF Header
    <3> QED BY <3>4, <3>5
  <2> QED BY <1>2, <2>1, <2>2
<1> HIDE DEF k
<1>6. /\ g \in [DOMAIN h \cup {end} -> Header] /\ g[end] = new
      /\ \A x \in DOMAIN h : g[x] = k[x]
  <2>1. new \in Header
    BY <1>1, <1>2 DEF Header, Null
  <2>2. DOMAIN k = DOMAIN h
    BY <1>5
  <2> HIDE DEF new
  <2> QED BY <1>3, <1>5, <2>1, <2>2 DEF Put
<1>7. /\ g[end].size = size /\ g[end].is_free /\ g[end].next = Null /\ g[end].prev = last
      /\ \A x \in DOMAIN h :
           /\ g[x].size = h[x].size /\ g[x].is_free = h[x].is_free /\ g[x].prev = h[x].prev
           /\ g[x].next = IF x = last THEN end ELSE h[x].next
  <2> HIDE DEF g
  <2>1. /\ g[end].size = size /\ g[end].is_free /\ g[end].next = Null /\ g[end].prev = last
    BY <1>6
  <2> HIDE DEF new
  <2> QED BY <1>5, <1>6, <2>1
<1> HIDE DEF g
<1>8. DOMAIN g = DOMAIN h \cup {end} /\ IsFiniteSet(DOMAIN g)
  BY <1>1, <1>6, FS_AddElement
<1>9. Apart(g)
  <2> SUFFICES ASSUME NEW x \in DOMAIN g, NEW y \in DOMAIN g, x < y
               PROVE  x + g[x].size <= y
    BY DEF Apart
  <2>1. \A z \in DOMAIN h : z + h[z].size <= end /\ z < end
    <3>1. \A z \in DOMAIN h : z + h[z].size <= end
      BY Neighbours
    <3> QED BY <1>1, <3>1
  <2>2. x \in DOMAIN h
    BY <1>1, <1>8, <2>1
  <2>3. CASE y = end
    BY <1>7, <2>1, <2>2, <2>3
  <2>4. CASE y \in DOMAIN h
    BY <1>7, <2>2, <2>4, Neighbours
  <2> QED BY <1>8, <2>3, <2>4
<1>10. \A x \in DOMAIN g : NextTo(g, x, end + size)
  <2>1. NextTo(g, end, end + size)
    BY <1>7 DEF NextTo
  <2>2. ASSUME NEW x \in DOMAIN h
        PROVE  NextTo(g, x, end + size)
    <3>1. NextTo(h, x, end)
      BY DEF Tiled
    <3>2. CASE x = last
      BY <1>4, <1>7, <1>8, <3>2 DEF NextTo
    <3>3. CASE x # last
      <4>1. x + h[x].size # end
        <5>1. last \in DOMAIN h
          BY <1>1
        <5>2. x < last \/ last < x
          BY <1>1, <3>3, <5>1
        <5>3. x + h[x].size <= last \/ last + h[last].size <= x
          BY <5>1, <5>2, Neighbours
        <5> QED BY <1>1, <1>4, <5>1, <5>3
      <4>2. x + h[x].size < end + size /\ x + h[x].size \in DOMAIN h /\ h[x].next = x + h[x].size
        BY <1>1, <3>1, <4>1 DEF NextTo
      <4> QED BY <1>7, <1>8, <3>3, <4>2 DEF NextTo
    <3> QED BY <3>2, <3>3
  <2> QED BY <1>8, <2>1, <2>2
<1>11. \A x \in DOMAIN g : PrevTo(g, x)
  <2>1. PrevTo(g, end)
    <3>1. CASE DOMAIN h = {}
      BY <1>7, <3>1 DEF PrevTo, Tiled
    <3>2. CASE DOMAIN h # {}
      BY <1>4, <1>7, <1>8, <3>2 DEF PrevTo
    <3> QED BY <3>1, <3>2
  <2>2. ASSUME NEW x \in DOMAIN h
        PROVE  PrevTo(g, x)
    <3>1. PrevTo(h, x)
      BY DEF Tiled
    <3> QED BY <1>7, <1>8, <3>1 DEF PrevTo
  <2> QED BY <1>8, <2>1, <2>2
<1>12. /\ \A x \in DOMAIN g : x \in Nat /\ HEAP_START <= x /\ g[x].size > 0
       /\ HEAP_START \in DOMAIN g
  <2>1. HEAP_START <= end
    <3>1. CASE DOMAIN h = {}
      BY <1>1, <3>1 DEF Tiled
    <3>2. CASE DOMAIN h # {}
      BY <1>1, <1>4, <3>2
    <3> QED BY <3>1, <3>2
  <2>2. HEAP_START \in DOMAIN g
    BY <1>8 DEF Tiled
  <2> QED BY <1>1, <1>7, <1>8, <2>1, <2>2
<1>13. \E x \in DOMAIN g : x + g[x].size = end + size
  BY <1>7, <1>8
<1>14. Tiled(g, end + size)
  BY <1>6, <1>8, <1>9, <1>10, <1>11, <1>12, <1>13 DEF Tiled
<1>15. MergedBut(g, end)
  <2> SUFFICES ASSUME NEW x \in DOMAIN h, g[x].is_free, g[x].next # Null, g[x].next # end
               PROVE  ~g[g[x].next].is_free
    BY <1>8 DEF MergedBut
  <2>1. h[x].is_free /\ g[x].next = h[x].next
    BY <1>7
  <2>2. h[x].next \in DOMAIN h /\ ~h[h[x].next].is_free
    BY <2>1, Neighbours DEF Merged
  <2> QED BY <1>7, <2>1, <2>2
<1>16. ~NextIsFree(g, end)
  BY <1>7 DEF NextIsFree
<1>17. Used(g) = Used(h)
  BY <1>7, <1>8 DEF Used
<1>18. Appended(h, end, size, last) = g
  BY DEF Appended, g, k
<1> QED BY <1>7, <1>8, <1>14, <1>15, <1>16, <1>17, <1>18 DEF GrownBy

(* A block whose pointer is freed is free where it is.                     *)
LEMMA FreeTiles ==
  ASSUME NEW h, NEW end \in Nat, Tiled(h, end), Merged(h), NEW b \in DOMAIN h
  PROVE  LET g == [h EXCEPT ![b].is_free = TRUE]
         IN /\ Tiled(g, end) /\ DOMAIN g = DOMAIN h /\ g[b].is_free
            /\ Used(g) = Used(h) \ {b} /\ \A x \in DOMAIN h : g[x].size = h[x].size
            /\ MergedBut(g, b) /\ (NextIsFree(g, b) => ~NextIsFree(g, g[b].next))
<1> DEFINE g == [h EXCEPT ![b].is_free = TRUE]
<1>1. h \in [DOMAIN h -> Header] /\ IsFiniteSet(DOMAIN h) /\ h[b] \in Header
  BY DEF Tiled
<1>2. /\ g \in [DOMAIN h -> Header] /\ g[b].is_free
      /\ \A x \in DOMAIN h : g[x].size = h[x].size /\ g[x].next = h[x].next /\ g[x].prev = h[x].prev
      /\ \A x \in DOMAIN h \ {b} : g[x].is_free = h[x].is_free
  <2>1. g = [h EXCEPT ![b] = [h[b] EXCEPT !.is_free = TRUE]]
    BY <1>1
  <2>2. [h[b] EXCEPT !.is_free = TRUE] \in Header
    BY <1>1 DEF Header
  <2> HIDE DEF g
  <2>3. /\ g \in [DOMAIN h -> Header] /\ g[b] = [h[b] EXCEPT !.is_free = TRUE]
        /\ \A x \in DOMAIN h \ {b} : g[x] = h[x]
    BY <1>1, <2>1, <2>2
  <2>4. /\ g[b].is_free /\ g[b].size = h[b].size
        /\ g[b].next = h[b].next /\ g[b].prev = h[b].prev
    BY <1>1, <2>3 DEF Header
  <2> QED BY <2>3, <2>4
<1> HIDE DEF g
<1>3. DOMAIN g = DOMAIN h
  BY <1>2
<1>4. Tiled(g, end)
  <2>1. Apart(g)
    BY <1>2, <1>3, Neighbours DEF Apart
  <2>2. ASSUME NEW x \in DOMAIN h
        PROVE  NextTo(g, x, end) /\ PrevTo(g, x)
    <3>1. NextTo(h, x, end) /\ PrevTo(h, x)
      BY DEF Tiled
    <3>2. NextTo(g, x, end)
      BY <1>2, <1>3, <3>1 DEF NextTo
    <3>3. PrevTo(g, x)
      BY <1>2, <1>3, <3>1 DEF PrevTo
    <3> QED BY <3>2, <3>3
  <2>3. \A x \in DOMAIN h : x \in Nat /\ HEAP_START <= x /\ g[x].size > 0
    BY <1>2, Neighbours
  <2>4. HEAP_START \in DOMAIN h /\ \E x \in DOMAIN h : x + g[x].size = end
    BY <1>2 DEF Tiled
  <2> QED BY <1>1, <1>2, <1>3, <2>1, <2>2, <2>3, <2>4 DEF Tiled
<1>5. Used(g) = Used(h) \ {b}
  BY <1>2, <1>3 DEF Used
<1>6. MergedBut(g, b)
  BY <1>2, <1>3, Neighbours DEF MergedBut, Merged
<1>7. NextIsFree(g, b) => ~NextIsFree(g, g[b].next)
  <2> SUFFICES ASSUME NextIsFree(g, b)
               PROVE  ~NextIsFree(g, g[b].next)
    OBVIOUS
  <2> DEFINE n == g[b].next
             m == g[n].next
  <2>1. n \in DOMAIN h /\ g[n].is_free /\ b + h[b].size = n
    BY <1>2, Neighbours DEF NextIsFree
  <2>2. CASE m = Null
    BY <2>2 DEF NextIsFree
  <2>3. CASE m # Null
    <3>1. m \in DOMAIN h /\ n + h[n].size = m
      BY <1>2, <2>1, <2>3, Neighbours
    <3>2. b # n /\ b # m
      BY <2>1, <3>1, Neighbours
    <3>3. ~g[m].is_free
      <4> HIDE DEF n, m
      <4>1. m = h[n].next /\ h[n].is_free /\ n \in DOMAIN h
        BY <1>2, <2>1, <3>2 DEF m
      <4> QED BY <1>2, <2>3, <3>1, <3>2, <4>1 DEF Merged
    <3> QED BY <3>3 DEF NextIsFree
  <2> QED BY <2>2, <2>3
<1> QED BY <1>2, <1>3, <1>4, <1>5, <1>6, <1>7 DEF g

(* The turns of merge_free_blocks: at most the first one merges.           *)
MergedAt(f, h, b, k) ==
  IF k = 0 THEN h
  ELSE IF NextIsFree(f[k - 1], b) THEN Absorb(f[k - 1], b, f[k - 1][b].next) ELSE f[k - 1]

IsMerging(f, h, b) ==
  f = [k \in 0 .. Cardinality(DOMAIN h) |-> MergedAt(f, h, b, k)]

FirstTurn(h, b) == IF NextIsFree(h, b) THEN Absorb(h, b, h[b].next) ELSE h

(* The loop ends where its first turn leaves the list.                     *)
LEMMA MergeNextOnce ==
  ASSUME NEW h, IsFiniteSet(DOMAIN h), NEW b \in DOMAIN h, ~NextIsFree(FirstTurn(h, b), b)
  PROVE  merge_next(h, b) = FirstTurn(h, b)
<1> DEFINE c == Cardinality(DOMAIN h)
           M == FirstTurn(h, b)
           f == [k \in 0 .. c |-> IF k = 0 THEN h ELSE M]
           g == CHOOSE e : IsMerging(e, h, b)
<1>1. c \in Nat /\ c > 0
  BY FS_CardinalityType, FS_EmptySet
<1>2. merge_next(h, b) = g[c]
  BY DEF merge_next, IsMerging, MergedAt
<1>3. ASSUME NEW e, NEW k \in 1 .. c, e[k - 1] = h \/ e[k - 1] = M
      PROVE  MergedAt(e, h, b, k) = M
  <2>1. k # 0
    BY <1>1
  <2> QED BY <1>3, <2>1 DEF MergedAt, FirstTurn
<1> HIDE DEF c, M
<1>4. IsMerging(f, h, b)
  <2>1. ASSUME NEW k \in 0 .. c
        PROVE  f[k] = MergedAt(f, h, b, k)
    <3>1. CASE k = 0
      BY <3>1 DEF MergedAt
    <3>2. CASE k # 0
      <4>1. k \in 1 .. c /\ k - 1 \in 0 .. c
        BY <1>1, <3>2
      <4>2. f[k - 1] = h \/ f[k - 1] = M
        BY <4>1
      <4>3. f[k] = M
        BY <3>2
      <4> HIDE DEF f
      <4> QED BY <1>3, <4>1, <4>2, <4>3
    <3> QED BY <3>1, <3>2
  <2>2. f = [k \in 0 .. c |-> f[k]]
    OBVIOUS
  <2> HIDE DEF f
  <2> QED BY <2>1, <2>2 DEF IsMerging, c
<1>5. IsMerging(g, h, b)
  BY <1>4
<1> HIDE DEF g
<1>6. g[0] = h /\ \A k \in 0 .. c : g[k] = MergedAt(g, h, b, k)
  <2>1. \A k \in 0 .. c : g[k] = MergedAt(g, h, b, k)
    BY <1>5 DEF IsMerging, c
  <2>2. 0 \in 0 .. c
    BY <1>1
  <2> QED BY <2>1, <2>2 DEF MergedAt
<1> DEFINE bad == {k \in 1 .. c : g[k] # M}
<1>7. bad = {}
  <2> SUFFICES ASSUME bad # {} PROVE FALSE
    OBVIOUS
  <2>1. bad \in SUBSET Nat
    BY <1>1
  <2>2. PICK k \in bad : \A j \in bad : k <= j
    <3> HIDE DEF bad
    <3> QED BY <2>1, LeastNatural
  <2>3. k \in 1 .. c /\ g[k] # M
    OBVIOUS
  <2>4. g[k - 1] = h \/ g[k - 1] = M
    <3>1. CASE k = 1
      BY <1>6, <3>1
    <3>2. CASE k # 1
      <4>1. k - 1 \in 1 .. c /\ k - 1 < k
        BY <1>1, <2>3, <3>2
      <4>2. k - 1 \notin bad
        <5> HIDE DEF bad
        <5> QED BY <1>1, <2>2, <2>3, <4>1
      <4> QED BY <4>1, <4>2
    <3> QED BY <3>1, <3>2
  <2>5. g[k] = MergedAt(g, h, b, k)
    BY <1>1, <1>6, <2>3
  <2>6. MergedAt(g, h, b, k) = M
    BY <1>3, <2>3, <2>4
  <2> QED BY <2>3, <2>5, <2>6
<1>8. g[c] = M
  <2>1. c \in 1 .. c
    BY <1>1
  <2> QED BY <1>7, <2>1
<1> QED BY <1>2, <1>8 DEF c, M, g

(* Merging a block with its free neighbours leaves none of them free.      *)
LEMMA MergeKeeps ==
  ASSUME NEW h, NEW end \in Nat, Tiled(h, end), NEW b \in DOMAIN h, h[b].is_free,
         MergedBut(h, b), NextIsFree(h, b) => ~NextIsFree(h, h[b].next)
  PROVE  LET g == merge_free_blocks(h, b)
         IN /\ Tiled(g, end) /\ Merged(g) /\ Used(g) = Used(h)
            /\ DOMAIN g # {} /\ \A x \in Used(h) : g[x].size = h[x].size
<1> DEFINE k == FirstTurn(h, b)
           n == h[b].next
<1>1. /\ Tiled(k, end) /\ b \in DOMAIN k /\ k[b].is_free /\ MergedBut(k, b) /\ ~NextIsFree(k, b)
      /\ Used(k) = Used(h) /\ \A x \in Used(h) : k[x].size = h[x].size
  <2>1. CASE ~NextIsFree(h, b)
    <3>1. k = h
      BY <2>1 DEF FirstTurn
    <3> QED BY <2>1, <3>1
  <2>2. CASE NextIsFree(h, b)
    <3>1. k = Absorb(h, b, n) /\ n \in DOMAIN h /\ h[n].is_free
      BY <2>2, Neighbours DEF FirstTurn, NextIsFree
    <3>2. Tiled(k, end)
      BY <3>1, AbsorbTiles
    <3>3. /\ k \in [DOMAIN h \ {n} -> Header] /\ b # n
          /\ k[b].next = h[n].next
          /\ \A x \in DOMAIN h \ {b, n} : k[x].size = h[x].size /\ k[x].next = h[x].next
          /\ \A x \in DOMAIN h \ {n} : k[x].is_free = h[x].is_free
      <4> HIDE DEF k, n
      <4> QED BY <3>1, AbsorbFacts DEF n
    <3> HIDE DEF k
    <3>4. DOMAIN k = DOMAIN h \ {n} /\ b \in DOMAIN k /\ k[b].is_free
      BY <3>3
    <3>5. ~NextIsFree(k, b)
      <4>1. ~NextIsFree(h, n) /\ (h[n].next = Null \/ h[n].next \in DOMAIN h) /\ h[n].next # n
        <5>1. n + h[n].size # n /\ (h[n].next = Null \/ h[n].next \in DOMAIN h)
          BY <3>1, Neighbours
        <5>2. h[n].next # n
          BY <3>1, <5>1, Neighbours
        <5> QED BY <2>2, <5>1, <5>2
      <4> HIDE DEF n
      <4> QED BY <3>3, <4>1 DEF NextIsFree
    <3>6. MergedBut(k, b)
      <4> SUFFICES ASSUME NEW x \in DOMAIN h \ {n, b}, h[x].is_free, h[x].next # Null, h[x].next # b
                   PROVE  ~k[h[x].next].is_free
        BY <3>3, <3>4 DEF MergedBut
      <4>1. ~h[h[x].next].is_free /\ h[x].next \in DOMAIN h
        BY Neighbours DEF MergedBut
      <4> QED BY <3>1, <3>3, <4>1
    <3>7. Used(k) = Used(h) /\ \A x \in Used(h) : k[x].size = h[x].size
      BY <3>1, <3>3, <3>4 DEF Used
    <3> QED BY <3>2, <3>4, <3>5, <3>6, <3>7
  <2> QED BY <2>1, <2>2
<1>2. merge_next(h, b) = k
  <2>1. IsFiniteSet(DOMAIN h)
    BY DEF Tiled
  <2> HIDE DEF k
  <2> QED BY <1>1, <2>1, MergeNextOnce DEF k
<1> HIDE DEF k
<1> DEFINE g == merge_prev(k, b)
           p == k[b].prev
<1>3. merge_free_blocks(h, b) = g
  BY <1>2 DEF merge_free_blocks
<1>4. CASE ~PrevIsFree(k, b)
  <2>1. g = k
    BY <1>4 DEF merge_prev
  <2>2. Merged(k)
    <3> SUFFICES ASSUME NEW x \in DOMAIN k, k[x].is_free, k[x].next # Null
                 PROVE  ~k[k[x].next].is_free
      BY DEF Merged
    <3>1. CASE x = b
      BY <1>1, <3>1 DEF NextIsFree
    <3>2. CASE k[x].next = b
      <4>1. k[b].prev = x /\ x # Null
        BY <1>1, <3>2, Neighbours DEF Null
      <4> QED BY <1>4, <4>1 DEF PrevIsFree
    <3>3. CASE x # b /\ k[x].next # b
      BY <1>1, <3>3 DEF MergedBut
    <3> QED BY <3>1, <3>2, <3>3
  <2> HIDE DEF g
  <2> QED BY <1>1, <1>3, <2>1, <2>2
<1>5. CASE PrevIsFree(k, b)
  <2>1. g = Absorb(k, p, b) /\ p \in DOMAIN k /\ k[p].is_free /\ k[p].next = b
    <3>1. p \in DOMAIN k /\ k[p].is_free
      BY <1>1, <1>5, Neighbours DEF PrevIsFree
    <3>2. k[p].next = b
      BY <1>1, <3>1, Neighbours
    <3> QED BY <1>5, <3>1, <3>2 DEF merge_prev
  <2> HIDE DEF g, p
  <2>2. Tiled(g, end)
    BY <1>1, <2>1, AbsorbTiles
  <2>3. /\ g \in [DOMAIN k \ {b} -> Header] /\ p # b
        /\ g[p].next = k[b].next
        /\ \A x \in DOMAIN k \ {p, b} : g[x].size = k[x].size /\ g[x].next = k[x].next
        /\ \A x \in DOMAIN k \ {b} : g[x].is_free = k[x].is_free
    <3>1. Tiled(k, end) /\ b \in DOMAIN k /\ p \in DOMAIN k /\ k[p].next = b
      BY <1>1, <2>1
    <3>2. g = Absorb(k, p, b)
      BY <2>1
    <3> QED BY <3>1, <3>2, AbsorbFacts
  <2>4. DOMAIN g = DOMAIN k \ {b} /\ p \in DOMAIN g
    BY <2>1, <2>3
  <2>5. Merged(g)
    <3> SUFFICES ASSUME NEW x \in DOMAIN g, g[x].is_free, g[x].next # Null
                 PROVE  ~g[g[x].next].is_free
      BY DEF Merged
    <3>1. \A y \in DOMAIN k : k[y].next # y /\ (k[y].next = Null \/ k[y].next \in DOMAIN k)
      <4>1. \A y \in DOMAIN k : y + k[y].size # y /\ (k[y].next = Null \/ k[y].next \in DOMAIN k)
        BY <1>1, Neighbours
      <4> QED BY <1>1, <4>1, Neighbours
    <3>2. CASE x = p
      <4>1. g[x].next \in DOMAIN k \ {b} /\ ~k[g[x].next].is_free
        BY <1>1, <2>3, <3>1, <3>2 DEF NextIsFree
      <4> QED BY <2>3, <4>1
    <3>3. CASE x # p
      <4>1. x \in DOMAIN k \ {p, b} /\ k[x].is_free /\ g[x].next = k[x].next
        BY <2>3, <2>4, <3>3
      <4>2. k[x].next # b
        <5>1. k[x].next = b => k[b].prev = x
          BY <1>1, <4>1, Neighbours
        <5>2. k[b].prev = p
          BY DEF p
        <5> QED BY <3>3, <5>1, <5>2
      <4>3. k[x].next \in DOMAIN k /\ ~k[k[x].next].is_free
        BY <1>1, <3>1, <4>1, <4>2 DEF MergedBut
      <4> QED BY <2>3, <4>1, <4>2, <4>3
    <3> QED BY <3>2, <3>3
  <2>6. Used(g) = Used(k) /\ \A x \in Used(k) : g[x].size = k[x].size
    BY <1>1, <2>1, <2>3, <2>4 DEF Used
  <2> QED BY <1>1, <1>3, <2>2, <2>4, <2>5, <2>6
<1> QED BY <1>4, <1>5

-----------------------------------------------------------------------------
(* The steps.                                                              *)

(* What a request takes has room for it and for the header.                *)
LEMMA NeededFacts ==
  ASSUME NoWrap, NEW n \in InSize
  PROVE  Needed(n) \in Nat /\ n \in Nat /\ Needed(n) >= n + HeaderSize /\ HEAP_END + Needed(n) < WORD
<1> DEFINE m == n + Align - 1
           q == m \div Align
           r == m % Align
<1>1. /\ n \in Nat /\ Align \in Nat /\ Align > 0 /\ HeaderSize \in Nat /\ WORD \in Nat /\ HEAP_END \in Nat
      /\ HEAP_END + HeaderSize + Align + n < WORD
  BY HeapAssumption DEF NoWrap
<1>2. m \in Nat /\ m < WORD /\ m % WORD = m
  BY <1>1
<1>3. Needed(n) = (q * Align + HeaderSize) % WORD
  BY <1>2 DEF Needed
<1>4. m = Align * q + r /\ q \in Nat /\ r \in Nat /\ r < Align
  BY <1>1, <1>2
<1> HIDE DEF q, r
<1>5. PICK a \in Nat : a = q * Align /\ a = Align * q
  BY <1>1, <1>4
<1>6. n <= a /\ a <= m
  BY <1>1, <1>4, <1>5
<1>7. (a + HeaderSize) % WORD = a + HeaderSize
  BY <1>1, <1>6
<1> QED BY <1>1, <1>3, <1>5, <1>6, <1>7

(* A search that finds a block finds a free one that is big enough.        *)
LEMMA FindFits ==
  ASSUME NEW size, IsFiniteSet(Block), find_free_block(size) # Null
  PROVE  LET b == find_free_block(size)
         IN b \in Block /\ header[b].is_free /\ header[b].size >= size
<1>1. Fit(size) \in SUBSET Nat /\ Fit(size) # {}
  <2>1. Cardinality(Block) \in Nat
    BY FS_CardinalityType
  <2> QED BY <2>1 DEF Fit, find_free_block
<1>2. \E k \in Fit(size) : \A j \in Fit(size) : k <= j
  BY <1>1, LeastNatural
<1>3. PICK k \in Fit(size) : find_free_block(size) = Nth(k)
  BY <1>1, <1>2 DEF find_free_block
<1> QED BY <1>3 DEF Fit

(* HeldFits of a list of headers and of the pointers the callers hold.     *)
Fits(h) ==
  /\ held \in [DOMAIN held -> InSize] /\ DOMAIN held \subseteq Nat
  /\ Used(h) = {p - HeaderSize : p \in DOMAIN held}
  /\ \A p \in DOMAIN held : h[p - HeaderSize].size >= held[p] + HeaderSize

(* The end of kmalloc.                                                     *)
LEMMA GiveKeeps ==
  ASSUME NoWrap, NEW h, NEW end \in Nat, Tiled(h, end), NEW b \in DOMAIN h, h[b].is_free,
         MergedBut(h, b), ~NextIsFree(h, b), Fits(h),
         NEW n \in InSize, Needed(n) <= h[b].size, Give(h, b, n)
  PROVE  /\ Tiled(header', end) /\ Merged(header') /\ Fits(header)'
         /\ DOMAIN h \subseteq DOMAIN header'
<1>1. /\ Needed(n) \in Nat /\ Needed(n) > 0 /\ Needed(n) >= n + HeaderSize
      /\ HeaderSize \in Nat /\ n \in Nat
  <2>1. Needed(n) \in Nat /\ Needed(n) >= n + HeaderSize /\ n \in Nat
    BY NeededFacts
  <2>2. HeaderSize \in Nat /\ HeaderSize > 0
    BY HeapAssumption
  <2> QED BY <2>1, <2>2
<1>2. header' = split_block(h, b, Needed(n))
  BY DEF Give
<1>3. /\ Tiled(header', end) /\ Merged(header') /\ Used(header') = Used(h) \cup {b}
      /\ DOMAIN h \subseteq DOMAIN header' /\ header'[b].size >= Needed(n)
      /\ \A x \in Used(h) : header'[x].size = h[x].size
  BY <1>1, <1>2, SplitKeeps
<1>4. b \in Nat /\ header'[b].size \in Nat
  <2>1. b \in DOMAIN header'
    BY <1>3
  <2> QED BY <1>3, <2>1, Neighbours
<1> DEFINE q == b + HeaderSize
<1>5. q \in Nat /\ q - HeaderSize = b
  BY <1>1, <1>4
<1> HIDE DEF q
<1>6. /\ DOMAIN held' = DOMAIN held \cup {q} /\ held'[q] = n
      /\ held' \in [DOMAIN held' -> InSize]
      /\ \A p \in DOMAIN held : p # q => held'[p] = held[p]
  BY DEF Give, Put, Fits, q
<1>7. Used(header)' = {p - HeaderSize : p \in DOMAIN held'}
  BY <1>3, <1>5, <1>6 DEF Fits
<1>8. ASSUME NEW p \in DOMAIN held'
      PROVE  header'[p - HeaderSize].size >= held'[p] + HeaderSize
  <2>1. CASE p = q
    BY <1>1, <1>3, <1>4, <1>5, <1>6, <2>1
  <2>2. CASE p # q
    <3>1. p \in DOMAIN held /\ held'[p] = held[p]
      BY <1>6, <2>2
    <3>2. p - HeaderSize \in Used(h) /\ h[p - HeaderSize].size >= held[p] + HeaderSize
      BY <3>1 DEF Fits
    <3> QED BY <1>3, <3>1, <3>2
  <2> QED BY <2>1, <2>2
<1>9. DOMAIN held' \subseteq Nat
  BY <1>5, <1>6 DEF Fits
<1> QED BY <1>3, <1>6, <1>7, <1>8, <1>9 DEF Fits

(* Where the list ends.                                                    *)
LEMMA EndFacts ==
  ASSUME ListInv
  PROVE  BlocksEnd \in Nat /\ BlocksEnd <= heap_current_break /\ Fits(header)
<1>1. heap_current_break \in Nat
  BY HeapAssumption DEF ListInv
<1>2. BlocksEnd \in Nat /\ BlocksEnd <= heap_current_break
  <2>1. CASE call = Idle
    BY <1>1, <2>1 DEF BlocksEnd, InSbrk
  <2>2. CASE call # Idle
    BY <1>1, <2>2 DEF BlocksEnd, InSbrk, ListInv, SbrkInv
  <2> QED BY <2>1, <2>2
<1>3. Fits(header)
  BY DEF ListInv, HeldFits, Fits, Used, Block
<1> QED BY <1>2, <1>3

(* A request the list serves.                                              *)
LEMMA MallocKeeps ==
  ASSUME NoWrap, HInv, NEW n \in InSize, kmalloc(n)
  PROVE  HInv'
<1> DEFINE b == find_free_block(Needed(n))
<1>1. call = Idle /\ call' = Idle /\ b # Null /\ Give(header, b, n)
  BY DEF kmalloc
<1>2. Tiled(header, BlocksEnd) /\ Merged(header) /\ Fits(header) /\ BlocksEnd \in Nat
  BY EndFacts DEF HInv, ListInv
<1>3. b \in Block /\ header[b].is_free /\ header[b].size >= Needed(n) /\ header[b].size \in Nat
  <2>1. IsFiniteSet(Block)
    BY <1>2 DEF Tiled, Block
  <2>2. b \in Block /\ header[b].is_free /\ header[b].size >= Needed(n)
    BY <1>1, <2>1, FindFits
  <2> HIDE DEF b
  <2>3. header[b].size \in Nat
    BY <1>2, <2>2, Neighbours DEF Block
  <2> QED BY <2>2, <2>3
<1> HIDE DEF b
<1>4. MergedBut(header, b) /\ ~NextIsFree(header, b)
  <2>1. \A x \in Block : header[x].next = Null \/ header[x].next \in Block
    BY <1>2, Neighbours DEF Block
  <2> QED BY <1>2, <1>3, <2>1 DEF Merged, MergedBut, NextIsFree, Block
<1>5. Needed(n) <= header[b].size
  BY <1>3, NeededFacts
<1>6. /\ Tiled(header', BlocksEnd) /\ Merged(header') /\ Fits(header)' /\ Block \subseteq Block'
  BY <1>1, <1>2, <1>3, <1>4, <1>5, GiveKeeps DEF Block
<1>7. BlocksEnd' = BlocksEnd /\ UNCHANGED <<heap_start, heap_current_break>>
  BY <1>1 DEF BlocksEnd, InSbrk, kmalloc
<1>8. FramesShape'
  BY DEF HInv, FramesShape, kmalloc
<1>9. Block # {} /\ Block' # {}
  BY <1>3, <1>6
<1>10. HeldFits' /\ held' \in [DOMAIN held' -> InSize] /\ DOMAIN held' \subseteq Nat
  BY <1>6 DEF Fits, HeldFits, Used, Block
<1>11. SbrkInv'
  BY <1>1 DEF SbrkInv
<1> QED BY <1>6, <1>7, <1>8, <1>9, <1>10, <1>11 DEF HInv, ListInv

(* A pointer that is given back.                                           *)
LEMMA FreeKeeps ==
  ASSUME HInv, NEW p \in DOMAIN held, kfree(p)
  PROVE  HInv'
<1> DEFINE b == p - HeaderSize
           h == [header EXCEPT ![b].is_free = TRUE]
<1>1. /\ call = Idle /\ call' = Idle /\ header' = merge_free_blocks(h, b)
      /\ held' = Drop(held, p) /\ UNCHANGED <<heap_start, heap_current_break>>
  BY DEF kfree
<1>2. Tiled(header, BlocksEnd) /\ Merged(header) /\ Fits(header) /\ BlocksEnd \in Nat
  BY EndFacts DEF HInv, ListInv
<1>3. b \in Used(header) /\ b \in DOMAIN header
  BY <1>2 DEF Fits, Used
<1>4. /\ Tiled(h, BlocksEnd) /\ DOMAIN h = DOMAIN header /\ h[b].is_free
      /\ Used(h) = Used(header) \ {b} /\ \A x \in DOMAIN header : h[x].size = header[x].size
      /\ MergedBut(h, b) /\ (NextIsFree(h, b) => ~NextIsFree(h, h[b].next))
  <2> HIDE DEF b
  <2> QED BY <1>2, <1>3, FreeTiles
<1> HIDE DEF h
<1>5. /\ Tiled(header', BlocksEnd) /\ Merged(header') /\ Used(header') = Used(h)
      /\ DOMAIN header' # {} /\ \A x \in Used(h) : header'[x].size = h[x].size
  <2> HIDE DEF b
  <2> QED BY <1>1, <1>2, <1>3, <1>4, MergeKeeps
<1>6. BlocksEnd' = BlocksEnd
  BY <1>1 DEF BlocksEnd, InSbrk
<1>7. FramesShape' /\ SbrkInv'
  BY <1>1 DEF HInv, FramesShape, kfree, SbrkInv
<1>8. /\ DOMAIN held' = DOMAIN held \ {p} /\ DOMAIN held' \subseteq Nat
      /\ held' \in [DOMAIN held' -> InSize] /\ \A q \in DOMAIN held' : held'[q] = held[q]
  BY <1>1, <1>2 DEF Drop, Fits
<1>9. Used(header') = {q - HeaderSize : q \in DOMAIN held'}
  <2>1. HeaderSize \in Nat /\ p \in Nat /\ \A q \in DOMAIN held : q \in Nat
    BY <1>2, HeapAssumption DEF Fits
  <2>2. \A q \in DOMAIN held : q - HeaderSize = b <=> q = p
    BY <2>1
  <2>3. Used(header') = {q - HeaderSize : q \in DOMAIN held} \ {b}
    BY <1>2, <1>4, <1>5 DEF Fits
  <2> HIDE DEF b
  <2> QED BY <1>8, <2>2, <2>3
<1>10. \A q \in DOMAIN held' : header'[q - HeaderSize].size >= held'[q] + HeaderSize
  <2> SUFFICES ASSUME NEW q \in DOMAIN held'
               PROVE  header'[q - HeaderSize].size >= held'[q] + HeaderSize
    OBVIOUS
  <2>1. header[q - HeaderSize].size >= held[q] + HeaderSize /\ held'[q] = held[q]
    BY <1>2, <1>8 DEF Fits
  <2>2. q - HeaderSize \in Used(h) /\ q - HeaderSize \in DOMAIN header
    BY <1>4, <1>5, <1>9 DEF Used
  <2> QED BY <1>4, <1>5, <2>1, <2>2
<1>11. HeldFits'
  BY <1>9, <1>10 DEF HeldFits, Used, Block
<1>12. heap_start' = IF Block' = {} THEN Null ELSE HEAP_START
  BY <1>1, <1>3, <1>5 DEF HInv, ListInv, Block
<1> QED BY <1>1, <1>5, <1>6, <1>7, <1>8, <1>11, <1>12 DEF HInv, ListInv

(* A request that makes the heap grow: the list does not change.           *)
LEMMA GrowKeeps ==
  ASSUME NoWrap, HInv, NEW n \in InSize, kmalloc_sbrk(n)
  PROVE  HInv'
<1> DEFINE need == Needed(n)
           size == IF need > PAGE_SIZE THEN need ELSE PAGE_SIZE
<1>1. /\ call = Idle /\ (heap_current_break + size) % WORD <= HEAP_END
      /\ heap_current_break' = (heap_current_break + size) % WORD
      /\ call' = [for |-> "kmalloc", size |-> size, request |-> n,
                  addr |-> heap_current_break, page |-> NoPage, old |-> heap_current_break]
      /\ UNCHANGED <<bitmap, used_pages, directory, entries, stopped, heap_start, header, held>>
  BY DEF kmalloc_sbrk
<1>2. /\ HEAP_START \in Nat /\ HEAP_END \in Nat /\ WORD \in Nat /\ PAGE_SIZE \in Nat /\ PAGE_SIZE > 0
      /\ HEAP_END + PAGE_SIZE < WORD
      /\ heap_current_break \in Nat /\ heap_current_break <= HEAP_END
      /\ HEAP_START <= heap_current_break
  BY HeapAssumption DEF NoWrap, HInv, ListInv
<1>3. need \in Nat /\ HEAP_END + need < WORD /\ n \in Nat
  BY NeededFacts
<1> HIDE DEF need
<1>4. size \in Nat /\ size > 0 /\ need <= size /\ HEAP_END + size < WORD
  BY <1>2, <1>3
<1> HIDE DEF size
<1>5. (heap_current_break + size) % WORD = heap_current_break + size
  BY <1>2, <1>4
<1>6. heap_current_break' = heap_current_break + size /\ heap_current_break' \in HEAP_START .. HEAP_END
  BY <1>1, <1>2, <1>4, <1>5
<1>7. BlocksEnd' = BlocksEnd
  <2>1. call'.for = "kmalloc" /\ call'.old = heap_current_break
    BY <1>1
  <2>2. call' # Idle
    BY <2>1 DEF Idle
  <2> QED BY <1>1, <2>1, <2>2 DEF BlocksEnd, InSbrk, Idle
<1>8. SbrkInv'
  <2>1. NoPage \in Page
    BY PmmAssumption DEF NoPage, Page
  <2>2. call' \in [for : {"kheap_init", "kmalloc"}, size : Nat, request : Nat, addr : Nat,
                   page : Page, old : Nat]
    BY <1>1, <1>2, <1>3, <1>4, <2>1
  <2>3. /\ call'.size = size /\ call'.old = heap_current_break /\ call'.for = "kmalloc"
        /\ call'.request = n
    BY <1>1
  <2> QED BY <1>2, <1>4, <1>6, <2>2, <2>3 DEF SbrkInv, need
<1>9. /\ FramesShape' /\ Tiled(header', BlocksEnd') /\ Merged(header') /\ HeldFits'
      /\ held' \in [DOMAIN held' -> InSize] /\ DOMAIN held' \subseteq Nat
      /\ heap_start' = IF Block' = {} THEN Null ELSE HEAP_START
  <2>1. Tiled(header', BlocksEnd') /\ Merged(header')
    BY <1>1, <1>7 DEF HInv, ListInv
  <2> QED BY <1>1, <2>1 DEF HInv, ListInv, FramesShape, HeldFits, Block
<1> QED BY <1>6, <1>8, <1>9 DEF HInv, ListInv

(* sbrk takes a frame, or moves the break back.                            *)
LEMMA AllocKeeps ==
  ASSUME HInv, SbrkAlloc
  PROVE  HInv'
<1>1. PICK r \in Page :
        /\ pmm_alloc_page(r)
        /\ \/ r # NoPage /\ call' = [call EXCEPT !.page = r] /\ UNCHANGED heap_current_break
           \/ r = NoPage /\ call' = Idle /\ heap_current_break' = call.old
  BY DEF SbrkAlloc
<1>2. /\ call # Idle /\ UNCHANGED <<directory, entries, stopped, heap_start, header, held>>
  BY DEF SbrkAlloc, InSbrk
<1>3. FramesShape'
  <2>1. bitmap' \subseteq Page /\ used_pages' \in Nat
    BY <1>1 DEF HInv, FramesShape, pmm_alloc_page, pmm_vars
  <2> QED BY <1>2, <2>1 DEF HInv, FramesShape
<1>4. /\ call \in [for : {"kheap_init", "kmalloc"}, size : Nat, request : Nat, addr : Nat,
                   page : Page, old : Nat]
      /\ call.size > 0 /\ heap_current_break = call.old + call.size /\ HEAP_START <= call.old
      /\ call.for = "kheap_init" => Block = {}
      /\ call.for = "kmalloc" => call.request \in InSize /\ Needed(call.request) <= call.size
  BY <1>2 DEF HInv, ListInv, SbrkInv
<1>5. BlocksEnd = call.old /\ heap_current_break \in HEAP_START .. HEAP_END
  BY <1>2 DEF BlocksEnd, InSbrk, HInv, ListInv
<1>6. SbrkInv' /\ BlocksEnd' = BlocksEnd /\ heap_current_break' \in HEAP_START .. HEAP_END
  <2>1. CASE call' = [call EXCEPT !.page = r] /\ UNCHANGED heap_current_break
    <3>1. /\ call' \in [for : {"kheap_init", "kmalloc"}, size : Nat, request : Nat, addr : Nat,
                        page : Page, old : Nat]
          /\ call'.for = call.for /\ call'.size = call.size /\ call'.request = call.request
          /\ call'.old = call.old
      BY <1>4, <2>1
    <3>2. call' # Idle
      <4>1. call'.for # "none"
        BY <1>4, <3>1
      <4> QED BY <4>1 DEF Idle
    <3>3. SbrkInv'
      BY <1>2, <1>4, <2>1, <3>1 DEF SbrkInv, Block
    <3> QED BY <1>5, <2>1, <3>1, <3>2, <3>3 DEF BlocksEnd, InSbrk
  <2>2. CASE call' = Idle /\ heap_current_break' = call.old
    <3>1. call.old \in HEAP_START .. HEAP_END
      BY <1>4, <1>5, HeapAssumption
    <3> QED BY <1>5, <2>2, <3>1 DEF BlocksEnd, InSbrk, SbrkInv
  <2> QED BY <1>1, <2>1, <2>2
<1>7. Tiled(header', BlocksEnd') /\ Merged(header')
  BY <1>2, <1>6 DEF HInv, ListInv
<1> QED BY <1>2, <1>3, <1>6, <1>7 DEF HInv, ListInv, HeldFits, Block

(* sbrk maps a page.                                                       *)
LEMMA MapKeeps ==
  ASSUME HInv, SbrkMap
  PROVE  HInv'
<1>1. /\ call # Idle /\ map_page(PageOf(call.addr), call.page)
      /\ \/ call' = call
         \/ call' = [call EXCEPT !.page = NoPage, !.addr = call.addr + PAGE_SIZE]
      /\ UNCHANGED <<heap_start, heap_current_break, header, held>>
  BY DEF SbrkMap, InSbrk
<1>2. /\ call \in [for : {"kheap_init", "kmalloc"}, size : Nat, request : Nat, addr : Nat,
                   page : Page, old : Nat]
      /\ call.size > 0 /\ heap_current_break = call.old + call.size /\ HEAP_START <= call.old
      /\ call.for = "kheap_init" => Block = {}
      /\ call.for = "kmalloc" => call.request \in InSize /\ Needed(call.request) <= call.size
  BY <1>1 DEF HInv, ListInv, SbrkInv
<1>3. FramesShape'
  <2>1. call.page \in Page
    BY <1>2
  <2>2. ASSUME NEW v
        PROVE  [entries EXCEPT ![v] = call.page] \in [VPage -> Page \cup {Absent}]
    BY <2>1 DEF HInv, FramesShape
  <2>3. ASSUME NEW d, NEW t \in Page
        PROVE  [directory EXCEPT ![d] = t] \in [PdIndex -> Page \cup {Absent}]
    BY DEF HInv, FramesShape
  <2>4. entries' \in [VPage -> Page \cup {Absent}]
    BY <1>1, <2>2 DEF map_page
  <2>5. CASE UNCHANGED <<bitmap, used_pages, directory>>
    BY <2>4, <2>5 DEF HInv, FramesShape
  <2>6. ASSUME NEW t \in Page, pmm_alloc_page(t),
               directory' = [directory EXCEPT ![pd_index(PageOf(call.addr))] = t]
        PROVE  FramesShape'
    <3>1. bitmap' \subseteq Page /\ used_pages' \in Nat
      BY <2>6 DEF HInv, FramesShape, pmm_alloc_page, pmm_vars
    <3> QED BY <2>3, <2>4, <2>6, <3>1 DEF FramesShape
  <2> QED BY <1>1, <2>5, <2>6 DEF map_page
<1>4. /\ call' \in [for : {"kheap_init", "kmalloc"}, size : Nat, request : Nat, addr : Nat,
                    page : Page, old : Nat]
      /\ call'.for = call.for /\ call'.size = call.size /\ call'.request = call.request
      /\ call'.old = call.old
  <2>1. NoPage \in Page /\ call.addr + PAGE_SIZE \in Nat
    BY <1>2, PmmAssumption, HeapAssumption DEF NoPage, Page
  <2> QED BY <1>1, <1>2, <2>1
<1>5. SbrkInv'
  BY <1>1, <1>2, <1>4 DEF SbrkInv, Block
<1>6. BlocksEnd' = BlocksEnd
  <2>1. call'.for # "none"
    BY <1>2, <1>4
  <2>2. call' # Idle
    BY <2>1 DEF Idle
  <2> QED BY <1>1, <1>4, <2>2 DEF BlocksEnd, InSbrk
<1>7. Tiled(header', BlocksEnd') /\ Merged(header')
  BY <1>1, <1>6 DEF HInv, ListInv
<1> QED BY <1>1, <1>3, <1>5, <1>7 DEF HInv, ListInv, HeldFits, Block

(* sbrk returns, and the new block is given or, from kheap_init, is free.  *)
LEMMA DoneKeeps ==
  ASSUME NoWrap, HInv, SbrkDone
  PROVE  HInv'
<1> DEFINE end == call.old
           size == call.size
           last == IF heap_start = Null THEN Null ELSE LastBlock
           g == Appended(header, end, size, last)
<1>1. /\ call # Idle /\ call' = Idle
      /\ heap_start' = IF heap_start = Null THEN end ELSE heap_start
      /\ UNCHANGED <<bitmap, used_pages, directory, entries, stopped, heap_current_break>>
  BY DEF SbrkDone, InSbrk
<1>2. \/ call.for = "kheap_init" /\ header' = g /\ UNCHANGED held
      \/ call.for = "kmalloc" /\ Give(g, end, call.request)
  BY DEF SbrkDone, Appended
<1>3. /\ call.size \in Nat /\ call.old \in Nat /\ call.size > 0
      /\ heap_current_break = call.old + call.size /\ HEAP_START <= call.old
      /\ call.for = "kheap_init" => Block = {}
      /\ call.for = "kmalloc" => call.request \in InSize /\ Needed(call.request) <= call.size
  BY <1>1 DEF HInv, ListInv, SbrkInv
<1>4. BlocksEnd = end
  BY <1>1 DEF BlocksEnd, InSbrk
<1>5. /\ Tiled(header, end) /\ Merged(header) /\ Fits(header)
      /\ heap_start = IF Block = {} THEN Null ELSE HEAP_START
  BY <1>4, EndFacts DEF HInv, ListInv
<1>6. end \in Nat /\ size \in Nat /\ size > 0 /\ HEAP_START # Null
  BY <1>3, HeapAssumption DEF Null
<1> HIDE DEF end, size
<1>7. /\ DOMAIN header = {} => last = Null
      /\ DOMAIN header # {} => last \in DOMAIN header /\ header[last].next = Null
  <2>1. CASE DOMAIN header = {}
    BY <1>5, <2>1 DEF Block
  <2>2. CASE DOMAIN header # {}
    <3>1. PICK b \in DOMAIN header : b + header[b].size = end
      BY <1>5, <2>2 DEF Tiled
    <3>2. header[b].next = Null
      BY <1>5, <1>6, <3>1, Neighbours
    <3>3. LastBlock \in DOMAIN header /\ header[LastBlock].next = Null
      BY <3>2 DEF LastBlock, Block
    <3>4. last = LastBlock
      BY <1>5, <1>6, <2>2 DEF Block
    <3> QED BY <2>2, <3>3, <3>4
  <2> QED BY <2>1, <2>2
<1> HIDE DEF last
<1>8. /\ Tiled(g, end + size) /\ MergedBut(g, end) /\ ~NextIsFree(g, end)
      /\ DOMAIN g = DOMAIN header \cup {end} /\ Used(g) = Used(header)
      /\ g[end].is_free /\ g[end].size = size
      /\ \A x \in DOMAIN header : g[x].size = header[x].size
  <2> HIDE DEF g
  <2>1. Tiled(header, end) /\ Merged(header) /\ end \in Nat /\ size \in Nat /\ size > 0
    BY <1>5, <1>6
  <2>2. g = Appended(header, end, size, last)
    BY DEF g
  <2>3. GrownBy(Appended(header, end, size, last), header, end, size)
    BY <1>7, <2>1, AppendKeeps, Zenon
  <2> QED BY <2>2, <2>3 DEF GrownBy
<1> HIDE DEF g
<1>9. Fits(g)
  <2>1. \A p \in DOMAIN held : p - HeaderSize \in DOMAIN header
    BY <1>5 DEF Fits, Used
  <2> QED BY <1>5, <1>8, <2>1 DEF Fits
<1>10. BlocksEnd' = end + size /\ end + size \in Nat
  BY <1>1, <1>3, <1>6 DEF BlocksEnd, InSbrk, end, size
<1>11. /\ Tiled(header', end + size) /\ Merged(header') /\ Fits(header)' /\ DOMAIN g \subseteq DOMAIN header'
  <2>1. CASE call.for = "kheap_init" /\ header' = g /\ UNCHANGED held
    <3>1. DOMAIN g = {end}
      BY <1>3, <1>8, <2>1 DEF Block
    <3>2. Merged(g)
      BY <1>8, <3>1 DEF Merged, NextIsFree
    <3>3. Fits(header)'
      BY <1>9, <2>1 DEF Fits
    <3> QED BY <1>8, <2>1, <3>2, <3>3
  <2>2. CASE call.for = "kmalloc" /\ Give(g, end, call.request)
    <3>1. end \in DOMAIN g /\ call.request \in InSize /\ Needed(call.request) <= g[end].size
      BY <1>3, <1>8, <2>2 DEF size
    <3> QED BY <1>8, <1>9, <1>10, <2>2, <3>1, GiveKeeps
  <2> QED BY <1>2, <2>1, <2>2
<1>12. heap_start' = IF Block' = {} THEN Null ELSE HEAP_START
  <2>1. Block' # {}
    BY <1>8, <1>11 DEF Block
  <2>2. Block = {} => end = HEAP_START
    BY <1>5 DEF Tiled, Block
  <2> QED BY <1>1, <1>5, <1>6, <2>1, <2>2
<1>13. HeldFits' /\ held' \in [DOMAIN held' -> InSize] /\ DOMAIN held' \subseteq Nat
  BY <1>11 DEF Fits, HeldFits, Used, Block
<1>14. FramesShape' /\ SbrkInv' /\ heap_current_break' \in HEAP_START .. HEAP_END
  BY <1>1 DEF HInv, ListInv, FramesShape, SbrkInv
<1> QED BY <1>10, <1>11, <1>12, <1>13, <1>14 DEF HInv, ListInv

-----------------------------------------------------------------------------
(* The theorems.                                                           *)

(* HInv holds when kheap_init calls sbrk.                                  *)
LEMMA HeapInitInvariant ==
  ASSUME NoWrap, FramesForInit, HeapInit
  PROVE  HInv
<1>1. /\ bitmap = {0, 1} /\ used_pages = 2
      /\ directory = [d \in PdIndex |-> IF d = 0 THEN 1 ELSE Absent]
      /\ entries = [v \in VPage |-> IF pd_index(v) = 0 THEN v ELSE Absent]
      /\ heap_start = Null
      /\ heap_current_break = (HEAP_START + PAGE_SIZE) % WORD
      /\ header = [b \in {} |-> Null] /\ held = [p \in {} |-> 0]
      /\ call = [Idle EXCEPT !.for = "kheap_init", !.size = PAGE_SIZE,
                             !.addr = HEAP_START, !.old = HEAP_START]
  BY DEF HeapInit, vmm_init
<1>2. /\ HEAP_START \in Nat /\ HEAP_END \in Nat /\ WORD \in Nat /\ PAGE_SIZE \in Nat /\ PAGE_SIZE > 0
      /\ HEAP_START + PAGE_SIZE <= HEAP_END /\ HEAP_END + PAGE_SIZE < WORD
      /\ TotalPages \in Nat /\ TotalPages >= 2 /\ TableSize \in Nat /\ TableSize > 0
      /\ TableSize <= TotalPages /\ VPages \in Nat
  BY HeapAssumption, VmmAssumption, PmmAssumption DEF NoWrap, FramesForInit
<1>3. FramesShape
  <2>1. {0, 1} \subseteq Page
    BY <1>2 DEF Page
  <2>2. ASSUME NEW v \in VPage, pd_index(v) = 0
        PROVE  v \in Page
    <3>1. v \in Nat /\ v = TableSize * (v \div TableSize) + (v % TableSize)
      BY <1>2 DEF VPage
    <3>2. v = v % TableSize
      BY <1>2, <2>2, <3>1 DEF pd_index
    <3>3. v < TableSize
      BY <1>2, <3>1, <3>2
    <3> QED BY <1>2, <3>1, <3>3 DEF Page
  <2>3. entries \in [VPage -> Page \cup {Absent}]
    BY <1>1, <2>2
  <2>4. directory \in [PdIndex -> Page \cup {Absent}]
    BY <1>1, <2>1
  <2> QED BY <1>1, <2>1, <2>3, <2>4 DEF FramesShape
<1>4. heap_current_break = HEAP_START + PAGE_SIZE
  <2>1. HEAP_START + PAGE_SIZE \in 0 .. WORD - 1
    BY <1>2
  <2>2. \A a \in 0 .. WORD - 1 : a % WORD = a
    BY <1>2
  <2> QED BY <1>1, <2>1, <2>2
<1>5. call = [for |-> "kheap_init", size |-> PAGE_SIZE, request |-> 0, addr |-> HEAP_START,
              page |-> NoPage, old |-> HEAP_START]
  BY <1>1 DEF Idle
<1>6. NoPage \in Page
  BY <1>2 DEF NoPage, Page
<1>7. Block = {} /\ DOMAIN held = {}
  BY <1>1 DEF Block
<1>8. SbrkInv
  BY <1>2, <1>4, <1>5, <1>6, <1>7 DEF SbrkInv
<1>9. BlocksEnd = HEAP_START
  <2>1. call.for # "none"
    BY <1>5
  <2>2. call # Idle
    BY <2>1 DEF Idle
  <2> QED BY <1>5, <2>2 DEF BlocksEnd, InSbrk
<1>10. Tiled(header, HEAP_START) /\ Merged(header)
  <2>1. IsFiniteSet({})
    BY FS_EmptySet
  <2>2. header \in [{} -> Header] /\ DOMAIN header = {}
    BY <1>1
  <2> QED BY <2>1, <2>2 DEF Tiled, Apart, Merged
<1>11. HeldFits /\ held \in [DOMAIN held -> InSize] /\ DOMAIN held \subseteq Nat
  BY <1>1, <1>7 DEF HeldFits
<1> QED BY <1>1, <1>2, <1>3, <1>4, <1>7, <1>8, <1>9, <1>10, <1>11 DEF HInv, ListInv

(* HInv is inductive.                                                      *)
LEMMA HeapNextInvariant ==
  ASSUME NoWrap, HInv, [HeapNext]_heap_vars
  PROVE  HInv'
<1>1. CASE Alloc
  BY <1>1, MallocKeeps, GrowKeeps DEF Alloc
<1>2. CASE Sbrk
  BY <1>2, AllocKeeps, MapKeeps, DoneKeeps DEF Sbrk
<1>3. ASSUME NEW p \in DOMAIN held, kfree(p)
      PROVE  HInv'
  BY <1>3, FreeKeeps
<1>4. CASE UNCHANGED heap_vars
  <2>1. /\ UNCHANGED <<bitmap, used_pages, directory, entries, heap_start, heap_current_break,
                       header, held, call>>
    BY <1>4 DEF heap_vars
  <2>2. FramesShape'
    BY <2>1 DEF HInv, FramesShape
  <2>3. BlocksEnd' = BlocksEnd /\ SbrkInv'
    BY <2>1 DEF BlocksEnd, InSbrk, SbrkInv, Block, HInv, ListInv
  <2> QED BY <2>1, <2>2, <2>3 DEF HInv, ListInv, HeldFits, Block
<1> QED BY <1>1, <1>2, <1>3, <1>4 DEF HeapNext

(* The whole invariant of the heap, whatever is asked for and given back,  *)
(* with frames or without.                                                 *)
THEOREM HeapInvariance ==
  ASSUME NoWrap, FramesForInit
  PROVE  HeapSpec => []HInv
<1>1. HeapInit => HInv
  BY HeapInitInvariant
<1>2. HInv /\ [HeapNext]_heap_vars => HInv'
  BY HeapNextInvariant
<1> QED BY <1>1, <1>2, PTL DEF HeapSpec

(* The list of blocks runs through the heap from end to end, through every *)
(* split and merge.                                                        *)
THEOREM TilesCorrect ==
  ASSUME NoWrap, FramesForInit
  PROVE  HeapSpec => []BlocksTile
<1>1. ASSUME HInv
      PROVE  BlocksTile
  <2>1. /\ Tiled(header, BlocksEnd) /\ BlocksEnd \in Nat /\ HEAP_START \in Nat /\ HEAP_START > 0
        /\ heap_start = IF Block = {} THEN Null ELSE HEAP_START
    BY <1>1, EndFacts, HeapAssumption DEF HInv, ListInv
  <2>2. Block = {} <=> heap_start = Null
    BY <2>1 DEF Null
  <2>3. ASSUME Block # {}
        PROVE  /\ heap_start = HEAP_START /\ heap_start \in Block
               /\ header[heap_start].prev = Null
    <3>1. HEAP_START \in Block /\ PrevTo(header, HEAP_START)
      BY <2>1, <2>3 DEF Tiled, Block
    <3>2. \A x \in Block : x + header[x].size # HEAP_START
      <4>1. \A x \in Block : x \in Nat /\ HEAP_START <= x /\ header[x].size \in Nat /\ header[x].size > 0
        BY <2>1, Neighbours DEF Block
      <4> QED BY <2>1, <4>1
    <3> QED BY <2>1, <2>3, <3>1, <3>2 DEF PrevTo, Block
  <2>4. ASSUME NEW b \in Block
        PROVE  LET end == b + header[b].size IN
               /\ header[b].next = IF end = BlocksEnd THEN Null ELSE end
               /\ end # BlocksEnd => end \in Block /\ header[end].prev = b
    <3> DEFINE e == b + header[b].size
    <3>1. NextTo(header, b, BlocksEnd)
      BY <2>1 DEF Tiled, Block
    <3>2. CASE e = BlocksEnd
      BY <2>1, <3>2, Neighbours DEF Block
    <3>3. CASE e # BlocksEnd
      <4>1. e \in Block /\ header[b].next = e
        BY <3>1, <3>3 DEF NextTo, Block
      <4>2. header[e].prev = b
        <5> HIDE DEF e
        <5>1. e = b + header[b].size
          BY DEF e
        <5> QED BY <2>1, <4>1, <5>1, Neighbours DEF Block
      <4> QED BY <3>3, <4>1, <4>2
    <3> QED BY <3>2, <3>3
  <2> QED BY <2>2, <2>3, <2>4 DEF BlocksTile
<1> QED BY <1>1, HeapInvariance, PTL

(* Every pointer held has a used block of its own with room for what was   *)
(* asked, and every used block is held.                                    *)
THEOREM HeldCorrect ==
  ASSUME NoWrap, FramesForInit
  PROVE  HeapSpec => []HeldFits
<1>1. HInv => HeldFits
  BY DEF HInv, ListInv
<1> QED BY <1>1, HeapInvariance, PTL

(* Two neighbours are never both free.                                     *)
THEOREM CoalescedCorrect ==
  ASSUME NoWrap, FramesForInit
  PROVE  HeapSpec => []Coalesced
<1>1. HInv => Coalesced
  BY DEF HInv, ListInv, Merged, Coalesced, Block
<1> QED BY <1>1, HeapInvariance, PTL

(* Headers, pointers, tables and the break stay in their ranges.           *)
THEOREM HeapTypeCorrect ==
  ASSUME NoWrap, FramesForInit
  PROVE  HeapSpec => []HeapTypeOK
<1>1. ASSUME HInv
      PROVE  HeapTypeOK
  <2>1. /\ Tiled(header, BlocksEnd) /\ BlocksEnd \in Nat /\ BlocksEnd <= heap_current_break
        /\ Fits(header) /\ heap_current_break \in Nat /\ heap_current_break <= HEAP_END
        /\ HEAP_START \in Nat /\ HEAP_END \in Nat /\ HeaderSize \in Nat /\ InSize \subseteq Nat
    BY <1>1, EndFacts, HeapAssumption DEF HInv, ListInv
  <2>2. \A b \in Block : /\ b \in Nat /\ HEAP_START <= b /\ header[b].size \in Nat
                         /\ b + header[b].size <= HEAP_END
    <3>1. \A b \in Block : /\ b \in Nat /\ HEAP_START <= b /\ header[b].size \in Nat
                           /\ b + header[b].size <= BlocksEnd
      BY <2>1, Neighbours DEF Block
    <3> QED BY <2>1, <3>1
  <2>3. Block \subseteq HEAP_START .. HEAP_END
    BY <2>1, <2>2
  <2>4. ASSUME NEW p \in DOMAIN held
        PROVE  p \in HEAP_START + HeaderSize .. HEAP_END
    <3>1. /\ p - HeaderSize \in Block /\ p \in Nat /\ held[p] \in Nat
          /\ header[p - HeaderSize].size >= held[p] + HeaderSize
      BY <2>1 DEF Fits, Used, Block
    <3> QED BY <2>1, <2>2, <3>1
  <2>5. call.size \in Nat /\ call.page \in Page
    <3>1. 0 \in Page
      BY PmmAssumption DEF Page
    <3> QED BY <1>1, <3>1 DEF HInv, ListInv, SbrkInv, Idle, NoPage
  <2>6. heap_start \in Nat /\ header \in [Block -> Header]
    BY <1>1, <2>1 DEF HInv, ListInv, Tiled, Block, Null
  <2> QED BY <1>1, <2>3, <2>4, <2>5, <2>6 DEF HInv, ListInv, FramesShape, HeapTypeOK
<1> QED BY <1>1, HeapInvariance, PTL

(* used_pages counts the frames that paging and the heap have taken.       *)
THEOREM CountUnderHeap ==
  ASSUME FramesForInit
  PROVE  HeapSpec => []CountAgrees
<1>1. HeapInit => CountAgrees
  <2> SUFFICES ASSUME HeapInit PROVE CountAgrees
    OBVIOUS
  <2>1. bitmap = {0, 1} /\ used_pages = 2
    BY DEF HeapInit, vmm_init
  <2>2. Cardinality({0, 1}) = 2
    <3>1. IsFiniteSet({0}) /\ Cardinality({0}) = 1
      BY FS_Singleton
    <3>2. Cardinality({0} \cup {1}) = 2
      BY <3>1, FS_AddElement
    <3>3. {0} \cup {1} = {0, 1}
      OBVIOUS
    <3> QED BY <3>2, <3>3
  <2>3. {0, 1} \subseteq Page
    BY PmmAssumption DEF FramesForInit, Page
  <2> QED BY <2>1, <2>2, <2>3 DEF CountAgrees
<1>2. HeapNext => PmmNext \/ UNCHANGED pmm_vars
  <2>1. Alloc => UNCHANGED pmm_vars
    BY DEF Alloc, kmalloc, kmalloc_sbrk, pmm_vars
  <2>2. Sbrk => PmmNext \/ UNCHANGED pmm_vars
    BY DEF Sbrk, SbrkAlloc, SbrkMap, map_page, SbrkDone, PmmNext, pmm_vars
  <2>3. \A p : kfree(p) => UNCHANGED pmm_vars
    BY DEF kfree, pmm_vars
  <2> QED BY <2>1, <2>2, <2>3 DEF HeapNext
<1>3. CountAgrees /\ [HeapNext]_heap_vars => CountAgrees'
  <2>1. UNCHANGED heap_vars => UNCHANGED pmm_vars
    BY DEF heap_vars, pmm_vars
  <2> QED BY <1>2, <2>1, PmmStep
<1> QED BY <1>1, <1>3, PTL DEF HeapSpec

-----------------------------------------------------------------------------
(* The frames behind the heap.                                             *)

(* No request takes more than a page, so the break stays at one's edge.    *)
PageRequests == \A n \in InSize : Needed(n) <= PAGE_SIZE

Aligned == heap_current_break % PAGE_SIZE = 0 /\ (InSbrk => call.old % PAGE_SIZE = 0)

(* sbrk goes upwards from the old break.                                   *)
Ahead == InSbrk => call.old <= call.addr

(* The address sbrk has mapped the heap up to.                             *)
MappedEnd == IF InSbrk THEN call.addr ELSE heap_current_break

(* The pages of the heap are mapped up to where sbrk is.                   *)
MappedSoFar ==
  \A v \in HeapPages : v < PageOf(MappedEnd) =>
    directory[pd_index(v)] # Absent /\ entries[v] \in Page \ {0}

FramesInv == Ahead /\ FramesApart /\ (~stopped => MappedSoFar)

(* A number below a multiple of m is in an earlier stretch of m.           *)
LEMMA DivBelow ==
  ASSUME NEW m \in Nat \ {0}, NEW a \in Nat, NEW b \in Nat, b % m = 0
  PROVE  a < b <=> a \div m < b \div m
<1> DEFINE x == a \div m
           y == b \div m
           i == a % m
<1>1. /\ a = m * x + i /\ 0 <= i /\ i < m /\ b = m * y
      /\ x \in Nat /\ y \in Nat /\ i \in Nat
  OBVIOUS
<1> HIDE DEF x, y, i
<1>2. ASSUME a < b, x >= y
      PROVE  FALSE
  <2>1. PICK d \in Nat : x = y + d
    <3>1. x - y \in Nat /\ x = y + (x - y)
      BY <1>1, <1>2
    <3> QED BY <3>1
  <2>2. m * x = m * y + m * d /\ m * d >= 0
    BY <1>1, <2>1
  <2> QED BY <1>1, <1>2, <2>2
<1>3. ASSUME x < y
      PROVE  a < b
  <2>1. PICK d \in Nat : y = x + 1 + d
    <3>1. y - x - 1 \in Nat /\ y = x + 1 + (y - x - 1)
      BY <1>1, <1>3
    <3> QED BY <3>1
  <2>2. m * y = m * x + m + m * d /\ m * d >= 0
    BY <1>1, <2>1
  <2> QED BY <1>1, <2>2
<1>4. a < b <=> x < y
  BY <1>1, <1>2, <1>3
<1> QED BY <1>4 DEF x, y

(* The page one page further.                                              *)
LEMMA DivNext ==
  ASSUME NEW m \in Nat \ {0}, NEW a \in Nat
  PROVE  (a + m) \div m = (a \div m) + 1 /\ (a + m) % m = a % m
<1> DEFINE x == a \div m
           y == (a + m) \div m
           i == a % m
           j == (a + m) % m
<1>1. /\ a = m * x + i /\ 0 <= i /\ i < m /\ a + m = m * y + j /\ 0 <= j /\ j < m
      /\ x \in Nat /\ y \in Nat /\ i \in Nat /\ j \in Nat
  OBVIOUS
<1> HIDE DEF x, y, i, j
<1>2. y = x + 1
  <2>1. ASSUME NEW d \in Nat, y = x + 1 + (d + 1)
        PROVE  FALSE
    <3>1. m * y = m * x + m + m * d + m /\ m * d >= 0
      BY <1>1, <2>1
    <3> QED BY <1>1, <3>1
  <2>2. ASSUME NEW d \in Nat, x + 1 = y + (d + 1)
        PROVE  FALSE
    <3>1. m * x + m = m * y + m * d + m /\ m * d >= 0
      <4>1. m * (x + 1) = m * (y + (d + 1))
        BY <2>2
      <4> QED BY <1>1, <4>1
    <3> QED BY <1>1, <3>1
  <2>3. CASE y > x + 1
    <3>1. y - x - 2 \in Nat /\ y = x + 1 + ((y - x - 2) + 1)
      BY <1>1, <2>3
    <3> QED BY <2>1, <3>1
  <2>4. CASE y < x + 1
    <3>1. x - y \in Nat /\ x + 1 = y + ((x - y) + 1)
      BY <1>1, <2>4
    <3> QED BY <2>2, <3>1
  <2> QED BY <1>1, <2>3, <2>4
<1>3. i = j
  <2>1. m * y = m * x + m
    BY <1>1, <1>2
  <2> QED BY <1>1, <2>1
<1> QED BY <1>2, <1>3 DEF x, y, i, j

(* Stretches come in the order of what is in them.                         *)
LEMMA DivOrder ==
  ASSUME NEW m \in Nat \ {0}, NEW a \in Nat, NEW b \in Nat, a <= b
  PROVE  a \div m <= b \div m
<1> DEFINE x == a \div m
           y == b \div m
           i == a % m
           j == b % m
<1>1. /\ a = m * x + i /\ 0 <= i /\ i < m /\ b = m * y + j /\ 0 <= j /\ j < m
      /\ x \in Nat /\ y \in Nat /\ i \in Nat /\ j \in Nat
  OBVIOUS
<1> HIDE DEF x, y, i, j
<1>2. ASSUME NEW d \in Nat, x = y + 1 + d
      PROVE  FALSE
  <2>1. m * x = m * y + m + m * d /\ m * d >= 0
    BY <1>1, <1>2
  <2> QED BY <1>1, <2>1
<1>3. CASE x > y
  <2>1. x - y - 1 \in Nat /\ x = y + 1 + (x - y - 1)
    BY <1>1, <1>3
  <2> QED BY <1>2, <2>1
<1>4. x <= y
  BY <1>1, <1>3
<1> QED BY <1>4 DEF x, y

(* A page begins at a multiple of the size of one.                         *)
LEMMA DivOfProduct ==
  ASSUME NEW m \in Nat \ {0}, NEW v \in Nat
  PROVE  v * m \in Nat /\ (v * m) \div m = v /\ (v * m) % m = 0
<1> DEFINE a == v * m
           x == a \div m
           i == a % m
<1>1. a \in Nat /\ a = m * v
  OBVIOUS
<1>2. a = m * x + i /\ 0 <= i /\ i < m /\ x \in Nat /\ i \in Nat
  BY <1>1
<1> HIDE DEF a, x, i
<1>3. ASSUME NEW d \in Nat, x = v + 1 + d
      PROVE  FALSE
  <2>1. m * x = m * v + m + m * d /\ m * d >= 0
    BY <1>3
  <2> QED BY <1>1, <1>2, <2>1
<1>4. ASSUME NEW d \in Nat, v = x + 1 + d
      PROVE  FALSE
  <2>1. m * v = m * x + m + m * d /\ m * d >= 0
    BY <1>2, <1>4
  <2> QED BY <1>1, <1>2, <2>1
<1>5. x = v
  <2>1. CASE x > v
    <3>1. x - v - 1 \in Nat /\ x = v + 1 + (x - v - 1)
      BY <1>2, <2>1
    <3> QED BY <1>3, <3>1
  <2>2. CASE v > x
    <3>1. v - x - 1 \in Nat /\ v = x + 1 + (v - x - 1)
      BY <1>2, <2>2
    <3> QED BY <1>4, <3>1
  <2> QED BY <1>2, <2>1, <2>2
<1>6. i = 0
  BY <1>1, <1>2, <1>5
<1> QED BY <1>1, <1>5, <1>6 DEF a, x, i

(* The same of PageOf.                                                     *)
LEMMA PageFacts ==
  /\ PAGE_SIZE \in Nat \ {0} /\ HEAP_START \in Nat /\ HEAP_END \in Nat /\ VPages \in Nat
  /\ \A a \in Nat : PageOf(a) \in Nat
  /\ \A a, b \in Nat : b % PAGE_SIZE = 0 => (a < b <=> PageOf(a) < PageOf(b))
  /\ \A a, b \in Nat : a <= b => PageOf(a) <= PageOf(b)
  /\ \A a \in Nat : /\ PageOf(a + PAGE_SIZE) = PageOf(a) + 1
                    /\ (a + PAGE_SIZE) % PAGE_SIZE = a % PAGE_SIZE
  /\ \A v \in Nat : /\ v * PAGE_SIZE \in Nat /\ PageOf(v * PAGE_SIZE) = v
                    /\ (v * PAGE_SIZE) % PAGE_SIZE = 0
<1>1. PAGE_SIZE \in Nat \ {0} /\ HEAP_START \in Nat /\ HEAP_END \in Nat /\ VPages \in Nat
  BY HeapAssumption, VmmAssumption
<1>2. \A a \in Nat : a \div PAGE_SIZE \in Nat
  BY <1>1
<1>3. \A a, b \in Nat : b % PAGE_SIZE = 0 => (a < b <=> a \div PAGE_SIZE < b \div PAGE_SIZE)
  BY <1>1, DivBelow, Zenon
<1>4. \A a, b \in Nat : a <= b => a \div PAGE_SIZE <= b \div PAGE_SIZE
  BY <1>1, DivOrder, Zenon
<1>5. \A a \in Nat : /\ (a + PAGE_SIZE) \div PAGE_SIZE = (a \div PAGE_SIZE) + 1
                     /\ (a + PAGE_SIZE) % PAGE_SIZE = a % PAGE_SIZE
  BY <1>1, DivNext, Zenon
<1>6. \A v \in Nat : /\ v * PAGE_SIZE \in Nat /\ (v * PAGE_SIZE) \div PAGE_SIZE = v
                     /\ (v * PAGE_SIZE) % PAGE_SIZE = 0
  BY <1>1, DivOfProduct, Zenon
<1> QED BY <1>1, <1>2, <1>3, <1>4, <1>5, <1>6, Zenon DEF PageOf

(* Every page has an entry in the directory.                               *)
LEMMA DirectoryFacts == 0 \in PdIndex /\ \A v \in VPage : v \in Nat /\ pd_index(v) \in PdIndex
<1>1. TableSize \in Nat \ {0} /\ VPages \in Nat /\ VPages % TableSize = 0 /\ 0 < VPages
  BY VmmAssumption
<1>2. \A v \in Nat : v < VPages <=> v \div TableSize < VPages \div TableSize
  BY <1>1, DivBelow, Zenon
<1>3. \A v \in Nat : v \div TableSize \in Nat
  BY <1>1
<1>4. 0 < VPages \div TableSize /\ VPages \div TableSize \in Nat
  <2>1. 0 \div TableSize \in Nat
    BY <1>3
  <2>2. 0 \div TableSize < VPages \div TableSize
    BY <1>1, <1>2
  <2>3. VPages \div TableSize \in Nat
    BY <1>1
  <2> QED BY <2>1, <2>2, <2>3
<1>5. 0 \in PdIndex
  BY <1>4 DEF PdIndex
<1>6. ASSUME NEW v \in VPage
      PROVE  v \in Nat /\ pd_index(v) \in PdIndex
  <2>1. v \in Nat /\ v < VPages
    BY <1>1 DEF VPage
  <2>2. v \div TableSize \in Nat /\ v \div TableSize < VPages \div TableSize
    BY <1>2, <1>3, <2>1
  <2> QED BY <1>4, <2>1, <2>2 DEF pd_index, PdIndex
<1> QED BY <1>5, <1>6

(* The first table, whose pages are mapped to themselves, ends before the  *)
(* heap, which lies beyond all frames.                                     *)
LEMMA AboveTable ==
  ASSUME FramesForInit
  PROVE  \A v \in HeapPages : pd_index(v) # 0
<1>1. /\ TotalPages \in Nat /\ TableSize \in Nat \ {0} /\ TableSize <= TotalPages
      /\ PAGE_SIZE \in Nat \ {0} /\ HEAP_START \in Nat
  BY PmmAssumption, VmmAssumption, PageFacts DEF FramesForInit
<1>2. TableSize <= PageOf(HEAP_START) /\ PageOf(HEAP_START) \in Nat
  <2> DEFINE top == TotalPages * PAGE_SIZE
  <2>1. top \in Nat /\ top <= HEAP_START /\ PageOf(top) = TotalPages
    BY <1>1, HeapAssumption, PageFacts
  <2> HIDE DEF top
  <2>2. PageOf(top) <= PageOf(HEAP_START) /\ PageOf(HEAP_START) \in Nat
    BY <1>1, <2>1, PageFacts
  <2> QED BY <1>1, <2>1, <2>2
<1>3. ASSUME NEW v \in HeapPages
      PROVE  pd_index(v) # 0
  <2>1. v \in Nat /\ TableSize <= v
    BY <1>1, <1>2, DirectoryFacts DEF HeapPages
  <2>2. TableSize % TableSize = 0 /\ TableSize \div TableSize = 1
    <3>1. (1 * TableSize) \div TableSize = 1 /\ (1 * TableSize) % TableSize = 0
      BY <1>1, DivOfProduct
    <3>2. 1 * TableSize = TableSize
      BY <1>1
    <3> QED BY <3>1, <3>2
  <2>3. v < TableSize <=> v \div TableSize < TableSize \div TableSize
    BY <1>1, <2>1, <2>2, DivBelow
  <2> QED BY <1>1, <2>1, <2>2, <2>3 DEF pd_index
<1> QED BY <1>3

(* Where the heap is mapped up to, and where its blocks end.               *)
LEMMA MappedFacts ==
  ASSUME HInv, Ahead
  PROVE  /\ MappedEnd \in Nat /\ BlocksEnd \in Nat /\ BlocksEnd <= MappedEnd
         /\ heap_current_break \in Nat /\ BlocksEnd <= heap_current_break
         /\ heap_current_break <= HEAP_END /\ HEAP_START <= MappedEnd
         /\ InSbrk => /\ call.old \in Nat /\ call.addr \in Nat /\ call.page \in Page
                      /\ call.old <= call.addr /\ HEAP_START <= call.old
<1>1. /\ heap_current_break \in Nat /\ HEAP_START <= heap_current_break
      /\ heap_current_break <= HEAP_END /\ HEAP_START \in Nat
  BY HeapAssumption DEF HInv, ListInv
<1>2. CASE ~InSbrk
  BY <1>1, <1>2 DEF MappedEnd, BlocksEnd
<1>3. CASE InSbrk
  <2>1. /\ call.old \in Nat /\ call.addr \in Nat /\ call.page \in Page /\ HEAP_START <= call.old
        /\ call.size \in Nat /\ heap_current_break = call.old + call.size
    BY <1>3 DEF HInv, ListInv, SbrkInv, InSbrk
  <2>2. call.old <= call.addr
    BY <1>3 DEF Ahead
  <2> QED BY <1>1, <1>3, <2>1, <2>2 DEF MappedEnd, BlocksEnd
<1> QED BY <1>2, <1>3

(* The page of an address of the heap.                                     *)
LEMMA PageInHeap ==
  ASSUME NEW a \in Nat, HEAP_START <= a, a < HEAP_END
  PROVE  PageOf(a) \in HeapPages
<1>1. HEAP_START \in Nat /\ HEAP_END \in Nat /\ VPages \in Nat
  BY PageFacts
<1>2. PageOf(HEAP_START) <= PageOf(a) /\ PageOf(a) \in Nat /\ PageOf(HEAP_START) \in Nat
  BY <1>1, PageFacts
<1>3. PageOf(a) < VPages
  <2> DEFINE top == VPages * PAGE_SIZE
  <2>1. top \in Nat /\ PageOf(top) = VPages /\ top % PAGE_SIZE = 0 /\ HEAP_END <= top
    BY <1>1, PageFacts, HeapAssumption
  <2> HIDE DEF top
  <2>2. a < top
    BY <1>1, <2>1
  <2>3. PageOf(a) < PageOf(top)
    BY <2>1, <2>2, PageFacts
  <2> QED BY <2>1, <2>3
<1> QED BY <1>1, <1>2, <1>3 DEF HeapPages, VPage

(* What pmm_alloc_page grants was free, and is the lowest that was.        *)
LEMMA GrantFacts == CanGrant => /\ LowestFree \in Page \ bitmap
                                /\ \A q \in FreePages : LowestFree <= q
<1> SUFFICES ASSUME CanGrant
             PROVE  LowestFree \in Page \ bitmap /\ \A q \in FreePages : LowestFree <= q
  OBVIOUS
<1>1. FreePages \in SUBSET Nat /\ FreePages # {}
  BY PmmAssumption DEF CanGrant, FreePages, Page
<1>2. \E p \in FreePages : \A q \in FreePages : p <= q
  BY <1>1, LeastNatural
<1> QED BY <1>2 DEF LowestFree, FreePages

(* A frame that was free is taken.                                         *)
Granted(r) ==
  /\ r \in Page \ bitmap /\ r # NoPage /\ \A q \in FreePages : r <= q
  /\ bitmap' = bitmap \cup {r} /\ used_pages' = used_pages + 1

(* The steps that take no frame and map no page.                           *)
Quiet ==
  /\ UNCHANGED <<bitmap, used_pages, directory, entries, stopped>>
  /\ call'.page \in {call.page, NoPage}
  /\ PageOf(MappedEnd') <= PageOf(MappedEnd)

(* sbrk takes a frame for a page.                                          *)
Taken(r) ==
  /\ Granted(r) /\ UNCHANGED <<directory, entries, stopped>>
  /\ call.page = NoPage /\ call'.page = r
  /\ PageOf(MappedEnd') <= PageOf(MappedEnd)

(* sbrk maps page u to frame f, in a table there is or in a new one.       *)
MapsAt(u, f) ==
  /\ u \in HeapPages /\ u = PageOf(MappedEnd) /\ PageOf(MappedEnd') = u + 1
  /\ f = call.page /\ f \in Page \ {0} /\ call'.page = NoPage
  /\ entries' = [entries EXCEPT ![u] = f] /\ ~stopped'
  /\ \/ directory[pd_index(u)] # Absent /\ UNCHANGED <<bitmap, used_pages, directory>>
     \/ \E t \in Page :
          /\ Granted(t) /\ t < TableSize
          /\ directory[pd_index(u)] = Absent /\ directory' = [directory EXCEPT ![pd_index(u)] = t]

(* Or it stops at the new table.                                           *)
Stops == stopped' /\ UNCHANGED <<entries, call>>

(* A list that serves a request, a pointer given back, and sbrk entered.   *)
LEMMA QuietCalls ==
  ASSUME NoWrap, HInv, Ahead,
         \/ \E n \in InSize : kmalloc(n) \/ kmalloc_sbrk(n)
         \/ \E p \in DOMAIN held : kfree(p)
         \/ UNCHANGED heap_vars
  PROVE  Quiet /\ Ahead'
<1>1. /\ MappedEnd \in Nat /\ PageOf(MappedEnd) \in Nat
  BY MappedFacts, PageFacts
<1>2. CASE UNCHANGED <<bitmap, used_pages, directory, entries, stopped, heap_current_break, call>>
  <2>1. MappedEnd' = MappedEnd /\ Ahead'
    BY <1>2 DEF MappedEnd, InSbrk, Ahead
  <2> QED BY <1>1, <1>2, <2>1 DEF Quiet, PageOf
<1>3. ASSUME NEW n \in InSize, kmalloc_sbrk(n)
      PROVE  Quiet /\ Ahead'
  <2>1. /\ call = Idle /\ UNCHANGED <<bitmap, used_pages, directory, entries, stopped>>
        /\ call'.for = "kmalloc" /\ call'.addr = heap_current_break /\ call'.page = NoPage
        /\ call'.old = heap_current_break
    BY <1>3 DEF kmalloc_sbrk
  <2>2. InSbrk' /\ ~InSbrk
    BY <2>1 DEF InSbrk, Idle
  <2>3. MappedEnd' = MappedEnd
    BY <2>1, <2>2 DEF MappedEnd
  <2>4. Ahead'
    <3>1. heap_current_break \in Nat
      BY MappedFacts
    <3> QED BY <2>1, <3>1 DEF Ahead
  <2> QED BY <1>1, <2>1, <2>3, <2>4 DEF Quiet, PageOf
<1>4. \A n : kmalloc(n) => UNCHANGED <<bitmap, used_pages, directory, entries, stopped,
                                      heap_current_break, call>>
  BY DEF kmalloc
<1>5. \A p : kfree(p) => UNCHANGED <<bitmap, used_pages, directory, entries, stopped,
                                    heap_current_break, call>>
  BY DEF kfree
<1> QED BY <1>2, <1>3, <1>4, <1>5 DEF heap_vars

(* sbrk returns.                                                           *)
LEMMA QuietDone ==
  ASSUME HInv, Ahead, SbrkDone
  PROVE  Quiet /\ Ahead'
<1>1. /\ InSbrk /\ call.addr >= heap_current_break /\ call' = Idle
      /\ UNCHANGED <<bitmap, used_pages, directory, entries, stopped, heap_current_break>>
  BY DEF SbrkDone, Mapped
<1>2. ~InSbrk' /\ call'.page = NoPage
  BY <1>1 DEF InSbrk, Idle
<1>3. MappedEnd' = heap_current_break /\ MappedEnd = call.addr
  BY <1>1, <1>2 DEF MappedEnd
<1>4. PageOf(heap_current_break) <= PageOf(call.addr)
  <2>1. heap_current_break \in Nat /\ call.addr \in Nat /\ heap_current_break <= call.addr
    BY <1>1, MappedFacts
  <2> QED BY <2>1, PageFacts
<1>5. PageOf(MappedEnd') <= PageOf(MappedEnd)
  BY <1>3, <1>4
<1> QED BY <1>1, <1>2, <1>5 DEF Quiet, Ahead

(* sbrk takes a frame, or has none and moves the break back.               *)
LEMMA AllocTakes ==
  ASSUME HInv, FramesInv, ~stopped, SbrkAlloc
  PROVE  Ahead' /\ (Quiet \/ \E r \in Page : Taken(r))
<1>1. PICK r \in Page :
        /\ pmm_alloc_page(r)
        /\ \/ r # NoPage /\ call' = [call EXCEPT !.page = r] /\ UNCHANGED heap_current_break
           \/ r = NoPage /\ call' = Idle /\ heap_current_break' = call.old
  BY DEF SbrkAlloc
<1>2. /\ InSbrk /\ call.page = NoPage /\ UNCHANGED <<directory, entries, stopped>>
  BY DEF SbrkAlloc
<1>3. /\ call \in [for : {"kheap_init", "kmalloc"}, size : Nat, request : Nat, addr : Nat,
                   page : Page, old : Nat]
  BY <1>2 DEF HInv, ListInv, SbrkInv, InSbrk
<1>4. Ahead /\ 0 \in bitmap
  BY DEF FramesInv, FramesApart
<1>5. PageOf(call.old) <= PageOf(call.addr) /\ PageOf(call.addr) \in Nat /\ call.old <= call.addr
  <2>1. call.old \in Nat /\ call.addr \in Nat /\ call.old <= call.addr
    BY <1>2, <1>4, MappedFacts
  <2> QED BY <2>1, PageFacts
<1>6. MappedEnd = call.addr
  BY <1>2 DEF MappedEnd
<1>7. CASE r = NoPage /\ call' = Idle /\ heap_current_break' = call.old
  <2>1. ~InSbrk' /\ call'.page = NoPage
    BY <1>7 DEF InSbrk, Idle
  <2>2. MappedEnd' = call.old
    BY <1>7, <2>1 DEF MappedEnd
  <2>3. UNCHANGED <<bitmap, used_pages>>
    BY <1>1, <1>4, <1>7, GrantFacts DEF pmm_alloc_page, pmm_vars, NoPage
  <2>4. PageOf(MappedEnd') <= PageOf(MappedEnd)
    BY <1>5, <1>6, <2>2
  <2> QED BY <1>2, <2>1, <2>3, <2>4 DEF Quiet, Ahead
<1>8. CASE r # NoPage /\ call' = [call EXCEPT !.page = r] /\ UNCHANGED heap_current_break
  <2>1. /\ call'.page = r /\ call'.addr = call.addr /\ call'.old = call.old /\ call'.for = call.for
    BY <1>3, <1>8
  <2>2. InSbrk'
    <3>1. call'.for # "none"
      BY <1>3, <2>1
    <3> QED BY <3>1 DEF InSbrk, Idle
  <2>3. MappedEnd' = call.addr
    BY <2>1, <2>2 DEF MappedEnd
  <2>4. PageOf(MappedEnd') <= PageOf(MappedEnd)
    BY <1>5, <1>6, <2>3
  <2>5. Granted(r)
    BY <1>1, <1>8, GrantFacts DEF pmm_alloc_page, Granted
  <2> QED BY <1>2, <1>5, <2>1, <2>4, <2>5 DEF Taken, Ahead
<1> QED BY <1>1, <1>7, <1>8

(* sbrk maps the page, unless its table cannot be written.                 *)
LEMMA MapMaps ==
  ASSUME HInv, FramesInv, ~stopped, SbrkMap
  PROVE  Ahead' /\ (Stops \/ MapsAt(PageOf(call.addr), call.page))
<1> DEFINE u == PageOf(call.addr)
           f == call.page
<1>1. /\ InSbrk /\ f # NoPage /\ map_page(u, f)
      /\ call' = IF stopped' THEN call ELSE [call EXCEPT !.page = NoPage, !.addr = @ + PAGE_SIZE]
      /\ UNCHANGED heap_current_break
  BY DEF SbrkMap
<1>2. /\ call \in [for : {"kheap_init", "kmalloc"}, size : Nat, request : Nat, addr : Nat,
                   page : Page, old : Nat]
  BY <1>1 DEF HInv, ListInv, SbrkInv, InSbrk
<1>3. Ahead /\ 0 \in bitmap /\ call.old <= call.addr /\ PAGE_SIZE \in Nat
  BY <1>1, PageFacts DEF FramesInv, FramesApart, Ahead
<1>4. CASE stopped'
  <2>1. UNCHANGED call
    BY <1>1, <1>4
  <2>2. Ahead'
    BY <1>3, <2>1 DEF Ahead, InSbrk
  <2>3. UNCHANGED entries
    BY <1>1, <1>4 DEF map_page
  <2> QED BY <1>4, <2>1, <2>2, <2>3 DEF Stops
<1>5. CASE ~stopped'
  <2>1. /\ call'.page = NoPage /\ call'.addr = call.addr + PAGE_SIZE /\ call'.old = call.old
        /\ call'.for = call.for
    BY <1>1, <1>2, <1>5
  <2>2. InSbrk'
    <3>1. call'.for # "none"
      BY <1>2, <2>1
    <3> QED BY <3>1 DEF InSbrk, Idle
  <2>3. Ahead'
    BY <1>2, <1>3, <2>1 DEF Ahead
  <2>4. u = PageOf(MappedEnd) /\ PageOf(MappedEnd') = u + 1
    <3>1. MappedEnd = call.addr /\ MappedEnd' = call.addr + PAGE_SIZE
      BY <1>1, <2>1, <2>2 DEF MappedEnd
    <3>2. PageOf(call.addr + PAGE_SIZE) = PageOf(call.addr) + 1
      BY <1>2, PageFacts
    <3> QED BY <3>1, <3>2
  <2>5. f \in Page \ {0} /\ u \in HeapPages
    <3>1. /\ call.addr \in Nat /\ HEAP_START <= call.addr /\ call.addr < HEAP_END
      <4>1. /\ ~(call.addr >= heap_current_break) /\ heap_current_break \in Nat
            /\ heap_current_break <= HEAP_END /\ HEAP_START <= call.old
            /\ call.old \in Nat /\ HEAP_START \in Nat /\ HEAP_END \in Nat
        BY <1>1, <1>3, MappedFacts, PageFacts DEF SbrkMap, Mapped
      <4> QED BY <1>2, <1>3, <4>1
    <3>2. u \in HeapPages
      BY <3>1, PageInHeap
    <3> QED BY <1>1, <1>2, <3>2 DEF NoPage
  <2> HIDE DEF u, f
  <2>6. ASSUME directory[pd_index(u)] # Absent
        PROVE  MapsAt(u, f)
    BY <1>1, <1>5, <2>1, <2>4, <2>5, <2>6 DEF map_page, MapsAt, f
  <2>7. ASSUME directory[pd_index(u)] = Absent
        PROVE  MapsAt(u, f)
    <3>1. PICK t \in Page : /\ pmm_alloc_page(t) /\ stopped' = ~Writable(t)
                            /\ directory' = [directory EXCEPT ![pd_index(u)] = t]
                            /\ entries' = IF Writable(t) THEN [entries EXCEPT ![u] = f] ELSE entries
      BY <1>1, <2>7 DEF map_page
    <3>2. Writable(t) /\ t # NoPage /\ t < TableSize
      BY <1>5, <3>1 DEF Writable
    <3>3. Granted(t)
      BY <3>1, <3>2, GrantFacts DEF pmm_alloc_page, Granted
    <3> QED BY <1>5, <2>1, <2>4, <2>5, <2>7, <3>1, <3>2, <3>3 DEF MapsAt, f
  <2>8. MapsAt(u, f)
    BY <2>6, <2>7
  <2> QED BY <2>3, <2>8 DEF u, f
<1> QED BY <1>4, <1>5

(* So there are four kinds of steps.                                       *)
LEMMA StepKinds ==
  ASSUME NoWrap, HInv, FramesInv, [HeapNext]_heap_vars
  PROVE  /\ Ahead'
         /\ \/ Quiet
            \/ \E r \in Page : Taken(r)
            \/ MapsAt(PageOf(call.addr), call.page)
            \/ Stops
<1>1. Ahead
  BY DEF FramesInv
<1>2. CASE HeapNext /\ Sbrk
  BY <1>1, <1>2, QuietDone, AllocTakes, MapMaps DEF HeapNext, Sbrk
<1>3. CASE \/ \E n \in InSize : kmalloc(n) \/ kmalloc_sbrk(n)
           \/ \E p \in DOMAIN held : kfree(p)
           \/ UNCHANGED heap_vars
  BY <1>1, <1>3, QuietCalls
<1> QED BY <1>2, <1>3 DEF HeapNext, Alloc

-----------------------------------------------------------------------------
(* FramesInv is inductive, next to HInv.                                   *)

(* A frame that was free is no other one's, and one that was taken for a   *)
(* page is the page's.                                                     *)
LEMMA ApartKeeps ==
  ASSUME HInv, FramesInv, ~stopped,
         \/ Quiet
         \/ \E r \in Page : Taken(r)
         \/ \E u \in Nat : MapsAt(u, call.page)
  PROVE  FramesApart'
<1>1. /\ \A v, w \in HeapMapped : entries[v] = entries[w] => v = w
      /\ \A d, e \in TableOf : directory[d] = directory[e] => d = e
      /\ \A v \in HeapMapped, d \in TableOf : entries[v] # directory[d]
      /\ \A v \in HeapMapped : entries[v] \in bitmap \ {0, call.page}
      /\ \A d \in TableOf : directory[d] \in bitmap \ {0, call.page}
      /\ 0 \in bitmap /\ call.page \in bitmap
  BY DEF FramesInv, FramesApart
<1>2. /\ entries \in [VPage -> Page \cup {Absent}] /\ directory \in [PdIndex -> Page \cup {Absent}]
  BY DEF HInv, FramesShape
<1>3. HeapPages' = HeapPages /\ HeapPages \subseteq VPage
  BY DEF HeapPages
<1>4. \A p \in Page : p # Absent
  BY DEF Page, Absent
<1>5. CASE Quiet
  <2>1. HeapMapped' = HeapMapped /\ TableOf' = TableOf
    BY <1>3, <1>5 DEF Quiet, HeapMapped, TableOf
  <2> QED BY <1>1, <1>5, <2>1 DEF Quiet, FramesApart, NoPage
<1>6. ASSUME NEW r \in Page, Taken(r)
      PROVE  FramesApart'
  <2>1. HeapMapped' = HeapMapped /\ TableOf' = TableOf
    BY <1>3, <1>6 DEF Taken, HeapMapped, TableOf
  <2>2. /\ r \notin bitmap /\ bitmap' = bitmap \cup {r} /\ call'.page = r
        /\ UNCHANGED <<directory, entries>>
    BY <1>6 DEF Taken, Granted
  <2> QED BY <1>1, <2>1, <2>2 DEF FramesApart
<1>7. ASSUME NEW u \in Nat, MapsAt(u, call.page)
      PROVE  FramesApart'
  <2> DEFINE f == call.page
  <2>1. /\ f \in Page \ {0} /\ f # Absent /\ call'.page = 0 /\ entries' = [entries EXCEPT ![u] = f]
    BY <1>4, <1>7 DEF MapsAt, NoPage
  <2>2. f \in bitmap
    BY <1>1
  <2> HIDE DEF f
  <2>3. /\ \A v \in HeapMapped' : v = u \/ v \in HeapMapped
        /\ \A v \in HeapMapped' : entries'[v] = IF v = u THEN f ELSE entries[v]
    BY <1>2, <1>3, <2>1 DEF HeapMapped
  <2>4. /\ \A v \in HeapMapped : entries[v] \in bitmap \ {0, f}
        /\ \A d \in TableOf : directory[d] \in bitmap \ {0, f}
    BY <1>1 DEF f
  <2>5. \A v, w \in HeapMapped' : entries'[v] = entries'[w] => v = w
    BY <1>1, <2>3, <2>4
  <2>6. CASE UNCHANGED <<bitmap, directory>>
    <3>1. TableOf' = TableOf
      BY <2>6 DEF TableOf
    <3>2. \A v \in HeapMapped' : entries'[v] \in bitmap \ {0}
      BY <2>1, <2>2, <2>3, <2>4
    <3>3. \A v \in HeapMapped', d \in TableOf : entries'[v] # directory[d]
      BY <1>1, <2>3, <2>4
    <3> QED BY <1>1, <2>1, <2>4, <2>5, <2>6, <3>1, <3>2, <3>3 DEF FramesApart
  <2>7. ASSUME NEW t \in Page, Granted(t), directory' = [directory EXCEPT ![pd_index(u)] = t]
        PROVE  FramesApart'
    <3>1. t \notin bitmap /\ t # 0 /\ bitmap' = bitmap \cup {t}
      BY <2>7 DEF Granted, NoPage
    <3>2. /\ \A d \in TableOf' : d = pd_index(u) \/ d \in TableOf
          /\ \A d \in TableOf' : directory'[d] = IF d = pd_index(u) THEN t ELSE directory[d]
      BY <1>2, <2>7 DEF TableOf
    <3>3. \A v \in HeapMapped' : entries'[v] \in bitmap \ {0}
      BY <2>1, <2>2, <2>3, <2>4
    <3>4. \A d \in TableOf' : directory'[d] \in bitmap' \ {0}
      BY <2>4, <3>1, <3>2
    <3>5. \A d, e \in TableOf' : directory'[d] = directory'[e] => d = e
      BY <1>1, <3>1, <3>2, <2>4
    <3>6. \A v \in HeapMapped', d \in TableOf' : entries'[v] # directory'[d]
      BY <1>1, <2>3, <2>4, <3>1, <3>2, <3>3
    <3> QED BY <1>1, <2>1, <2>5, <3>1, <3>3, <3>4, <3>5, <3>6 DEF FramesApart
  <2> QED BY <1>7, <2>6, <2>7 DEF MapsAt
<1> QED BY <1>5, <1>6, <1>7

(* The page that is mapped is the one up to which the heap was.            *)
LEMMA SoFarKeeps ==
  ASSUME HInv, FramesInv, ~stopped, Ahead', HInv',
         \/ Quiet
         \/ \E r \in Page : Taken(r)
         \/ MapsAt(PageOf(call.addr), call.page)
  PROVE  MappedSoFar'
<1>1. MappedSoFar /\ Ahead
  BY DEF FramesInv
<1>2. PageOf(MappedEnd) \in Nat /\ \A v \in HeapPages : v \in Nat /\ v \in VPage
  BY <1>1, MappedFacts, PageFacts, DirectoryFacts DEF HeapPages
<1>3. HeapPages' = HeapPages
  BY DEF HeapPages
<1>4. PageOf(MappedEnd') \in Nat
  <2>1. MappedEnd' \in Nat
    <3>1. /\ heap_current_break' \in Nat
      BY HeapAssumption DEF HInv, ListInv
    <3>2. InSbrk' => call'.addr \in Nat
      BY DEF HInv, ListInv, SbrkInv, InSbrk
    <3> QED BY <3>1, <3>2 DEF MappedEnd
  <2> QED BY <2>1, PageFacts
<1>5. CASE /\ PageOf(MappedEnd') <= PageOf(MappedEnd) /\ UNCHANGED <<directory, entries>>
  <2> SUFFICES ASSUME NEW v \in HeapPages, v < PageOf(MappedEnd')
               PROVE  directory'[pd_index(v)] # Absent /\ entries'[v] \in Page \ {0}
    BY <1>3 DEF MappedSoFar, PageOf
  <2>1. v < PageOf(MappedEnd)
    BY <1>2, <1>4, <1>5
  <2> QED BY <1>1, <1>5, <2>1 DEF MappedSoFar
<1>6. ASSUME MapsAt(PageOf(call.addr), call.page)
      PROVE  MappedSoFar'
  <2> DEFINE u == PageOf(call.addr)
             f == call.page
  <2>1. MapsAt(u, f)
    BY <1>6
  <2> HIDE DEF u, f
  <2>2. /\ u = PageOf(MappedEnd) /\ PageOf(MappedEnd') = u + 1 /\ f \in Page \ {0}
        /\ entries' = [entries EXCEPT ![u] = f]
    BY <2>1 DEF MapsAt
  <2>3. /\ \A d \in PdIndex : directory[d] # Absent => directory'[d] # Absent
        /\ pd_index(u) \in PdIndex => directory'[pd_index(u)] # Absent
    <3>1. directory \in [PdIndex -> Page \cup {Absent}] /\ \A p \in Page : p # Absent
      BY DEF HInv, FramesShape, Page, Absent
    <3> QED BY <2>1, <3>1 DEF MapsAt
  <2>4. entries \in [VPage -> Page \cup {Absent}]
    BY DEF HInv, FramesShape
  <2> SUFFICES ASSUME NEW v \in HeapPages, v < u + 1
               PROVE  directory'[pd_index(v)] # Absent /\ entries'[v] \in Page \ {0}
    BY <1>3, <2>2 DEF MappedSoFar, PageOf
  <2>5. pd_index(v) \in PdIndex /\ v \in VPage
    BY <1>2, DirectoryFacts
  <2>6. CASE v = u
    BY <2>2, <2>3, <2>4, <2>5, <2>6
  <2>7. CASE v # u
    <3>1. v < PageOf(MappedEnd)
      BY <1>2, <2>2, <2>7
    <3>2. directory[pd_index(v)] # Absent /\ entries[v] \in Page \ {0}
      BY <1>1, <3>1 DEF MappedSoFar
    <3> QED BY <2>2, <2>3, <2>4, <2>5, <2>7, <3>2
  <2> QED BY <2>6, <2>7
<1> QED BY <1>5, <1>6 DEF Quiet, Taken

(* FramesInv holds when kheap_init calls sbrk.                             *)
LEMMA FramesInit ==
  ASSUME NoWrap, FramesForInit, HeapInit
  PROVE  FramesInv
<1>1. /\ bitmap = {0, 1} /\ stopped = FALSE
      /\ directory = [d \in PdIndex |-> IF d = 0 THEN 1 ELSE Absent]
      /\ entries = [v \in VPage |-> IF pd_index(v) = 0 THEN v ELSE Absent]
      /\ call = [Idle EXCEPT !.for = "kheap_init", !.size = PAGE_SIZE,
                             !.addr = HEAP_START, !.old = HEAP_START]
  BY DEF HeapInit, vmm_init
<1>2. call.for = "kheap_init" /\ call.page = 0 /\ call.addr = HEAP_START /\ call.old = HEAP_START
  BY <1>1 DEF Idle, NoPage
<1>3. InSbrk
  <2>1. call.for # "none"
    BY <1>2
  <2> QED BY <2>1 DEF InSbrk, Idle
<1>4. Ahead /\ MappedEnd = HEAP_START
  BY <1>2, <1>3, PageFacts DEF Ahead, MappedEnd
<1>5. HeapMapped = {}
  BY <1>1, AboveTable DEF HeapMapped, HeapPages
<1>6. MappedSoFar
  <2>1. \A v \in HeapPages : ~(v < PageOf(HEAP_START))
    BY DirectoryFacts, PageFacts DEF HeapPages
  <2> QED BY <1>4, <2>1 DEF MappedSoFar
<1>7. TableOf \subseteq {0} /\ \A d \in TableOf : directory[d] = 1
  BY <1>1 DEF TableOf
<1>8. FramesApart
  BY <1>1, <1>2, <1>5, <1>7 DEF FramesApart
<1> QED BY <1>4, <1>6, <1>8 DEF FramesInv

LEMMA FramesNext ==
  ASSUME NoWrap, HInv, FramesInv, [HeapNext]_heap_vars
  PROVE  FramesInv'
<1>1. HInv'
  BY HeapNextInvariant
<1>2. Ahead'
  BY StepKinds
<1>3. CASE UNCHANGED heap_vars /\ stopped
  <2>1. UNCHANGED stopped
    BY <1>3 DEF heap_vars
  <2> QED BY <1>2, <1>3, <2>1 DEF FramesInv, FramesApart
<1>4. CASE Stops
  BY <1>2, <1>4 DEF Stops, FramesInv, FramesApart
<1>5. CASE ~stopped /\ ~Stops
  <2>1. \/ Quiet
        \/ \E r \in Page : Taken(r)
        \/ MapsAt(PageOf(call.addr), call.page)
    BY <1>5, StepKinds
  <2>2. MapsAt(PageOf(call.addr), call.page) => \E u \in Nat : MapsAt(u, call.page)
    <3>1. Ahead
      BY DEF FramesInv
    <3>2. MapsAt(PageOf(call.addr), call.page) => PageOf(call.addr) = PageOf(MappedEnd)
      BY DEF MapsAt
    <3>3. PageOf(MappedEnd) \in Nat
      BY <3>1, MappedFacts, PageFacts
    <3> QED BY <3>2, <3>3
  <2>3. FramesApart'
    BY <1>5, <2>1, <2>2, ApartKeeps
  <2>4. MappedSoFar'
    BY <1>1, <1>2, <1>5, <2>1, SoFarKeeps
  <2> QED BY <1>2, <2>3, <2>4 DEF FramesInv
<1> QED BY <1>3, <1>4, <1>5 DEF HeapNext

(* The frames under the heap, whatever is asked for: those that are mapped *)
(* or hold tables, and up to where the heap is mapped.                     *)
THEOREM FramesInvariance ==
  ASSUME NoWrap, FramesForInit
  PROVE  HeapSpec => [](HInv /\ FramesInv)
<1>1. HeapInit => HInv /\ FramesInv
  BY HeapInitInvariant, FramesInit
<1>2. HInv /\ FramesInv /\ [HeapNext]_heap_vars => HInv' /\ FramesInv'
  BY HeapNextInvariant, FramesNext
<1> QED BY <1>1, <1>2, PTL DEF HeapSpec

(* No frame has two uses, through growths of any size that fail half way.  *)
THEOREM ApartCorrect ==
  ASSUME NoWrap, FramesForInit
  PROVE  HeapSpec => []FramesApart
<1>1. FramesInv => FramesApart
  BY DEF FramesInv
<1> QED BY <1>1, FramesInvariance, PTL

-----------------------------------------------------------------------------
(* One table for the heap.                                                 *)

(* 0xD0000000 is where a table begins.                                     *)
HeapAtTable == PageOf(HEAP_START) % TableSize = 0

HeapTable == pd_index(PageOf(HEAP_START))

OneTable == \A v \in HeapMapped : pd_index(v) = HeapTable

HeldPage == IF call.page # NoPage THEN 1 ELSE 0

(* First fit over frames that nothing gives back: what is free lies above  *)
(* all that was taken, and each page of the heap took a frame.             *)
Counted ==
  /\ \A p \in FreePages : used_pages <= p
  /\ HeldPage <= used_pages
  /\ \A v \in HeapMapped : v + 1 + HeldPage <= used_pages + PageOf(HEAP_START)
  /\ TableOf \subseteq {0, HeapTable}

OneTableInv == OneTable /\ (~stopped => Counted)

(* The pages of the table that the heap begins with.                       *)
LEMMA FirstPages ==
  ASSUME HeapAtTable, NEW v \in HeapPages, v < PageOf(HEAP_START) + TableSize
  PROVE  pd_index(v) = HeapTable
<1> DEFINE s == PageOf(HEAP_START)
<1>1. TableSize \in Nat \ {0} /\ s \in Nat /\ v \in Nat /\ s <= v
  BY VmmAssumption, PageFacts, DirectoryFacts DEF HeapPages
<1>2. s % TableSize = 0 /\ v < s + TableSize
  BY DEF HeapAtTable
<1> HIDE DEF s
<1>3. s \div TableSize <= v \div TableSize
  BY <1>1, DivOrder
<1>4. (s + TableSize) \div TableSize = (s \div TableSize) + 1 /\ (s + TableSize) % TableSize = 0
  BY <1>1, <1>2, DivNext
<1>5. v \div TableSize < (s + TableSize) \div TableSize
  <2>1. s + TableSize \in Nat
    BY <1>1
  <2> QED BY <1>1, <1>2, <1>4, <2>1, DivBelow
<1>6. v \div TableSize = s \div TableSize
  <2>1. v \div TableSize \in Nat /\ s \div TableSize \in Nat
    BY <1>1
  <2> QED BY <1>3, <1>4, <1>5, <2>1
<1> QED BY <1>6 DEF pd_index, HeapTable, s

(* A second table would come after as many frames as a table has entries,  *)
(* and its frame could not be written.                                     *)
LEMMA OneTableMap ==
  ASSUME FramesForInit, HeapAtTable, HInv, FramesInv, OneTableInv, ~stopped,
         NEW u \in HeapPages, NEW f, MapsAt(u, f)
  PROVE  OneTableInv'
<1> DEFINE s == PageOf(HEAP_START)
<1>1. /\ f = call.page /\ f # NoPage /\ call'.page = NoPage /\ u = PageOf(MappedEnd)
      /\ entries' = [entries EXCEPT ![u] = f] /\ f \in Page
  BY DEF MapsAt, NoPage
<1>2. /\ s \in Nat /\ u \in Nat /\ s <= u /\ u \in VPage /\ TableSize \in Nat
      /\ used_pages \in Nat /\ pd_index(u) \in PdIndex /\ pd_index(u) # 0
      /\ \A v \in HeapPages : v \in Nat
  BY VmmAssumption, PageFacts, DirectoryFacts, AboveTable DEF HeapPages, HInv, FramesShape
<1>3. /\ entries \in [VPage -> Page \cup {Absent}] /\ directory \in [PdIndex -> Page \cup {Absent}]
      /\ \A p \in Page : p # Absent /\ p \in Nat
  BY PmmAssumption DEF HInv, FramesShape, Page, Absent
<1>4. /\ \A p \in FreePages : used_pages <= p
      /\ 1 <= used_pages
      /\ \A v \in HeapMapped : v + 2 <= used_pages + s
      /\ TableOf \subseteq {0, HeapTable}
  BY <1>1, <1>2 DEF OneTableInv, Counted, HeldPage, HeapMapped
<1> HIDE DEF s
<1>5. u + 1 <= used_pages + s
  <2>1. CASE u = s
    BY <1>2, <1>4, <2>1
  <2>2. CASE u # s
    <3>1. u - 1 \in HeapPages /\ u - 1 < PageOf(MappedEnd)
      <4>1. VPages \in Nat
        BY PageFacts
      <4> QED BY <1>1, <1>2, <2>2, <4>1 DEF HeapPages, VPage, s
    <3>2. u - 1 \in HeapMapped
      BY <1>3, <3>1 DEF FramesInv, MappedSoFar, HeapMapped
    <3> QED BY <1>2, <1>4, <3>2
  <2> QED BY <2>1, <2>2
<1>6. /\ HeldPage' = 0 /\ HeapPages' = HeapPages /\ HeapTable' = HeapTable
      /\ PageOf(HEAP_START)' = s
  BY <1>1 DEF HeldPage, HeapPages, HeapTable, PageOf, pd_index, s
<1>7. /\ \A v \in HeapMapped' : v = u \/ v \in HeapMapped
      /\ \A v \in HeapMapped : v \in Nat
  BY <1>1, <1>2, <1>3, <1>6 DEF HeapMapped
<1>8. \A v \in HeapMapped' : v + 1 <= used_pages + s /\ v + 1 + 0 = v + 1
  BY <1>2, <1>4, <1>5, <1>7
<1>9. ASSUME pd_index(u) = HeapTable
      PROVE  OneTable'
  BY <1>7, <1>9 DEF OneTableInv, OneTable, HeapTable, PageOf, pd_index
<1>10. CASE directory[pd_index(u)] # Absent /\ UNCHANGED <<bitmap, used_pages, directory>>
  <2>1. pd_index(u) \in TableOf
    BY <1>2, <1>10 DEF TableOf
  <2>2. OneTable'
    BY <1>2, <1>4, <1>9, <2>1
  <2>3. FreePages' = FreePages /\ TableOf' = TableOf
    BY <1>10 DEF FreePages, TableOf
  <2>4. Counted'
    BY <1>2, <1>4, <1>6, <1>8, <1>10, <2>3 DEF Counted
  <2> QED BY <2>2, <2>4 DEF OneTableInv
<1>11. ASSUME NEW t \in Page, Granted(t), t < TableSize,
              directory' = [directory EXCEPT ![pd_index(u)] = t]
       PROVE  OneTableInv'
  <2>1. /\ t \in FreePages /\ bitmap' = bitmap \cup {t} /\ used_pages' = used_pages + 1
        /\ \A q \in FreePages : t <= q
    BY <1>11 DEF Granted, FreePages
  <2>2. u < s + TableSize
    BY <1>2, <1>3, <1>4, <1>5, <1>11, <2>1
  <2>3. pd_index(u) = HeapTable
    BY <2>2, FirstPages DEF s
  <2>4. TableOf' \subseteq {0, HeapTable}
    BY <1>3, <1>4, <1>11, <2>3 DEF TableOf
  <2>5. \A p \in FreePages' : used_pages' <= p
    <3>1. \A p \in FreePages' : p \in FreePages /\ p # t /\ p \in Nat
      BY <1>3, <2>1 DEF FreePages
    <3> QED BY <1>2, <1>3, <1>4, <2>1, <3>1
  <2>6. \A v \in HeapMapped' : v + 1 <= used_pages' + s
    BY <1>2, <1>7, <1>8, <2>1
  <2>7. Counted'
    BY <1>2, <1>6, <1>8, <2>1, <2>4, <2>5, <2>6 DEF Counted
  <2> QED BY <1>9, <2>3, <2>7 DEF OneTableInv
<1> QED BY <1>10, <1>11 DEF MapsAt

LEMMA OneTableNext ==
  ASSUME NoWrap, FramesForInit, HeapAtTable, HInv, FramesInv, OneTableInv, [HeapNext]_heap_vars
  PROVE  OneTableInv'
<1>1. CASE UNCHANGED heap_vars
  BY <1>1 DEF heap_vars, OneTableInv, OneTable, HeapMapped, HeapPages, HeapTable, PageOf, pd_index,
              Counted, FreePages, TableOf, HeldPage
<1>2. CASE Stops
  BY <1>2 DEF Stops, OneTableInv, OneTable, HeapMapped, HeapPages, HeapTable, PageOf, pd_index
<1>3. CASE HeapNext /\ MapsAt(PageOf(call.addr), call.page)
  <2>1. PageOf(call.addr) \in HeapPages
    BY <1>3 DEF MapsAt
  <2> QED BY <1>3, <2>1, OneTableMap DEF HeapNext
<1>4. ASSUME HeapNext, UNCHANGED <<directory, entries>>,
             \/ UNCHANGED <<bitmap, used_pages>> /\ call'.page \in {call.page, NoPage}
             \/ \E r \in Page : Granted(r)
      PROVE  OneTableInv'
  <2>1. /\ HeapMapped' = HeapMapped /\ TableOf' = TableOf /\ HeapTable' = HeapTable
        /\ PageOf(HEAP_START)' = PageOf(HEAP_START) /\ \A v : pd_index(v)' = pd_index(v)
    BY <1>4 DEF HeapMapped, HeapPages, TableOf, HeapTable, PageOf, pd_index
  <2>2. OneTable'
    BY <2>1 DEF OneTableInv, OneTable, pd_index
  <2>3. ~stopped
    BY <1>4 DEF HeapNext
  <2>4. /\ used_pages \in Nat /\ PageOf(HEAP_START) \in Nat /\ \A p \in Page : p \in Nat
        /\ \A v \in HeapMapped : v \in Nat
    <3>1. \A v \in HeapMapped : v \in VPage
      BY DEF HeapMapped, HeapPages
    <3>2. \A v \in HeapMapped : v \in Nat
      BY <3>1, DirectoryFacts
    <3>3. used_pages \in Nat /\ PageOf(HEAP_START) \in Nat
      BY PageFacts DEF HInv, FramesShape
    <3> QED BY <3>2, <3>3, PmmAssumption DEF Page
  <2>5. Counted /\ HeldPage \in {0, 1} /\ HeldPage' \in {0, 1}
    BY <2>3 DEF OneTableInv, HeldPage
  <2>6. CASE UNCHANGED <<bitmap, used_pages>> /\ call'.page \in {call.page, NoPage}
    <3>1. HeldPage' <= HeldPage /\ FreePages' = FreePages
      BY <2>6 DEF HeldPage, FreePages
    <3>2. Counted'
      BY <2>1, <2>4, <2>5, <2>6, <3>1 DEF Counted
    <3> QED BY <2>2, <3>2 DEF OneTableInv
  <2>7. ASSUME NEW r \in Page, Granted(r)
        PROVE  OneTableInv'
    <3>1. /\ r \in FreePages /\ bitmap' = bitmap \cup {r} /\ used_pages' = used_pages + 1
          /\ \A q \in FreePages : r <= q
      BY <2>7 DEF Granted, FreePages
    <3>2. \A p \in FreePages' : p \in FreePages /\ p # r /\ p \in Nat
      BY <2>4, <3>1 DEF FreePages
    <3>3. \A p \in FreePages' : used_pages' <= p
      BY <2>4, <2>5, <3>1, <3>2 DEF Counted
    <3>4. Counted'
      BY <2>1, <2>4, <2>5, <3>1, <3>3 DEF Counted
    <3> QED BY <2>2, <3>4 DEF OneTableInv
  <2> QED BY <1>4, <2>6, <2>7
<1> QED BY <1>1, <1>2, <1>3, <1>4, StepKinds DEF Quiet, Taken

(* The heap never gets a second table: it ends after TableSize pages (4    *)
(* MB), however many frames are free and however far HEAP_END is.  The     *)
(* frame of a second table is always one that is not mapped to itself.     *)
THEOREM OneTableCorrect ==
  ASSUME NoWrap, FramesForInit, HeapAtTable
  PROVE  HeapSpec => []OneTable
<1>1. HeapInit => OneTableInv
  <2> SUFFICES ASSUME HeapInit
               PROVE  OneTableInv
    OBVIOUS
  <2>1. /\ bitmap = {0, 1} /\ used_pages = 2
        /\ directory = [d \in PdIndex |-> IF d = 0 THEN 1 ELSE Absent]
        /\ entries = [v \in VPage |-> IF pd_index(v) = 0 THEN v ELSE Absent]
        /\ call.page = NoPage
    BY DEF HeapInit, vmm_init, Idle
  <2>2. HeapMapped = {}
    BY <2>1, AboveTable DEF HeapMapped, HeapPages
  <2>3. TableOf \subseteq {0}
    BY <2>1 DEF TableOf
  <2>4. \A p \in FreePages : 2 <= p
    BY <2>1, PmmAssumption DEF FreePages, Page
  <2> QED BY <2>1, <2>2, <2>3, <2>4 DEF OneTableInv, OneTable, Counted, HeldPage
<1>2. HInv /\ FramesInv /\ OneTableInv /\ [HeapNext]_heap_vars => OneTableInv'
  BY OneTableNext
<1>3. OneTableInv => OneTable
  BY DEF OneTableInv
<1> QED BY <1>1, <1>2, <1>3, FramesInvariance, PTL DEF HeapSpec

-----------------------------------------------------------------------------
(* The pages under the blocks, as long as no request takes more than one.  *)

(* The break is at the edge of a page.                                     *)
LEMMA AlignedAlways ==
  ASSUME NoWrap, FramesForInit, PageRequests
  PROVE  HeapSpec => []Aligned
<1>1. \A a \in 0 .. WORD - 1 : a % WORD = a
  BY HeapAssumption
<1>2. PAGE_SIZE \in Nat \ {0} /\ HEAP_START % PAGE_SIZE = 0 /\ WORD \in Nat /\ HEAP_END \in Nat
  BY HeapAssumption
<1>3. HeapInit => Aligned
  <2> SUFFICES ASSUME HeapInit
               PROVE  Aligned
    OBVIOUS
  <2>1. call.old = HEAP_START /\ heap_current_break = (HEAP_START + PAGE_SIZE) % WORD
    BY DEF HeapInit, Idle
  <2>2. HEAP_START + PAGE_SIZE \in 0 .. WORD - 1 /\ HEAP_START \in Nat
    BY <1>2, HeapAssumption DEF NoWrap
  <2>3. heap_current_break = HEAP_START + PAGE_SIZE
    BY <1>1, <2>1, <2>2
  <2> QED BY <1>2, <2>1, <2>2, <2>3, PageFacts DEF Aligned
<1>4. HInv /\ Aligned /\ [HeapNext]_heap_vars => Aligned'
  <2> SUFFICES ASSUME HInv, Aligned, [HeapNext]_heap_vars
               PROVE  Aligned'
    OBVIOUS
  <2>1. ASSUME NEW n \in InSize, kmalloc_sbrk(n)
        PROVE  Aligned'
    <3>1. Needed(n) \in Nat /\ Needed(n) <= PAGE_SIZE
      BY NeededFacts DEF PageRequests
    <3>2. (IF Needed(n) > PAGE_SIZE THEN Needed(n) ELSE PAGE_SIZE) = PAGE_SIZE
      BY <1>2, <3>1
    <3>3. /\ heap_current_break' = (heap_current_break + PAGE_SIZE) % WORD
          /\ call'.old = heap_current_break
      BY <2>1, <3>2 DEF kmalloc_sbrk
    <3>4. heap_current_break + PAGE_SIZE \in 0 .. WORD - 1 /\ heap_current_break \in Nat
      BY <1>2, HeapAssumption DEF NoWrap, HInv, ListInv
    <3>5. heap_current_break' = heap_current_break + PAGE_SIZE
      BY <1>1, <3>3, <3>4
    <3> QED BY <3>3, <3>4, <3>5, PageFacts DEF Aligned
  <2>2. CASE SbrkAlloc
    <3>1. InSbrk /\ call \in [for : {"kheap_init", "kmalloc"}, size : Nat, request : Nat,
                              addr : Nat, page : Page, old : Nat]
      BY <2>2 DEF SbrkAlloc, HInv, ListInv, SbrkInv, InSbrk
    <3>2. \/ UNCHANGED heap_current_break /\ call'.old = call.old
          \/ heap_current_break' = call.old /\ ~InSbrk'
      BY <2>2, <3>1 DEF SbrkAlloc, InSbrk
    <3> QED BY <3>1, <3>2 DEF Aligned
  <2>3. CASE SbrkMap
    <3>1. InSbrk /\ call \in [for : {"kheap_init", "kmalloc"}, size : Nat, request : Nat,
                              addr : Nat, page : Page, old : Nat]
      BY <2>3 DEF SbrkMap, HInv, ListInv, SbrkInv, InSbrk
    <3>2. UNCHANGED heap_current_break /\ call'.old = call.old
      BY <2>3, <3>1 DEF SbrkMap
    <3> QED BY <3>1, <3>2 DEF Aligned
  <2>4. CASE SbrkDone
    <3>1. UNCHANGED heap_current_break /\ ~InSbrk'
      BY <2>4 DEF SbrkDone, InSbrk
    <3> QED BY <3>1 DEF Aligned
  <2>5. CASE UNCHANGED <<heap_current_break, call>>
    BY <2>5 DEF Aligned, InSbrk
  <2> QED BY <2>1, <2>2, <2>3, <2>4, <2>5
          DEF HeapNext, Alloc, kmalloc, Sbrk, kfree, heap_vars
<1> QED BY <1>3, <1>4, HeapInvariance, PTL DEF HeapSpec

(* The pages a block is in are mapped, and are not the one sbrk maps next. *)
LEMMA BlockPages ==
  ASSUME HInv, Ahead, Aligned, NEW b \in Block,
         NEW v \in PageOf(b) .. PageOf(b + header[b].size - 1)
  PROVE  v \in HeapPages /\ v < PageOf(BlocksEnd) /\ v < PageOf(MappedEnd)
<1>1. /\ MappedEnd \in Nat /\ BlocksEnd \in Nat /\ BlocksEnd <= MappedEnd
      /\ BlocksEnd <= HEAP_END /\ BlocksEnd % PAGE_SIZE = 0 /\ HEAP_END \in Nat
  <2>1. BlocksEnd % PAGE_SIZE = 0
    BY DEF BlocksEnd, Aligned
  <2> QED BY <2>1, MappedFacts, PageFacts
<1> DEFINE last == b + header[b].size - 1
<1>2. b \in Nat /\ HEAP_START <= b /\ last \in Nat /\ last < BlocksEnd /\ b <= last
  <2>1. Tiled(header, BlocksEnd) /\ HEAP_START \in Nat
    BY HeapAssumption DEF HInv, ListInv
  <2>2. /\ b \in Nat /\ HEAP_START <= b /\ header[b].size \in Nat /\ header[b].size > 0
        /\ b + header[b].size <= BlocksEnd
    BY <1>1, <2>1, Neighbours DEF Block
  <2> QED BY <1>1, <2>1, <2>2
<1> HIDE DEF last
<1>3. v \in PageOf(b) .. PageOf(last)
  BY DEF last
<1>4. /\ PageOf(b) \in Nat /\ PageOf(last) \in Nat /\ PageOf(HEAP_START) \in Nat
      /\ PageOf(BlocksEnd) \in Nat /\ PageOf(MappedEnd) \in Nat
  BY <1>1, <1>2, PageFacts
<1>5. PageOf(HEAP_START) <= PageOf(b) /\ PageOf(last) < PageOf(BlocksEnd)
  BY <1>1, <1>2, PageFacts
<1>6. PageOf(BlocksEnd) <= PageOf(MappedEnd)
  BY <1>1, PageFacts
<1>7. PageOf(last) \in HeapPages
  <2>1. HEAP_START <= last /\ last < HEAP_END
    BY <1>1, <1>2, PageFacts
  <2> QED BY <1>2, <2>1, PageInHeap
<1>8. VPages \in Nat
  BY PageFacts
<1> QED BY <1>3, <1>4, <1>5, <1>6, <1>7, <1>8 DEF HeapPages, VPage

(* Every byte of every block is mapped.                                    *)
THEOREM MappedCorrect ==
  ASSUME NoWrap, FramesForInit, PageRequests
  PROVE  HeapSpec => []BlocksMapped
<1>1. ASSUME HInv, FramesInv, Aligned
      PROVE  BlocksMapped
  <2> SUFFICES ASSUME ~stopped, NEW b \in Block,
                      NEW v \in PageOf(b) .. PageOf(b + header[b].size - 1)
               PROVE  v \in VPage /\ get_physical_page(v) # 0
    BY DEF BlocksMapped
  <2>1. v \in HeapPages /\ v < PageOf(MappedEnd)
    BY <1>1, BlockPages DEF FramesInv
  <2>2. directory[pd_index(v)] # Absent /\ entries[v] \in Page \ {0}
    BY <1>1, <2>1 DEF FramesInv, MappedSoFar
  <2> QED BY <2>1, <2>2 DEF get_physical_page, Page, Absent, HeapPages
<1> QED BY <1>1, FramesInvariance, AlignedAlways, PTL

(* What is under a block stays there.                                      *)
THEOREM StayCorrect ==
  ASSUME NoWrap, FramesForInit, PageRequests
  PROVE  HeapSpec => BlocksStay
<1> DEFINE Stay == \A b \in Block : \A v \in PageOf(b) .. PageOf(b + header[b].size - 1) :
                     v \in VPage => entries'[v] = entries[v]
<1>1. ASSUME HInv, FramesInv, Aligned, [HeapNext]_heap_vars
      PROVE  [Stay]_heap_vars
  <2>1. CASE UNCHANGED entries
    BY <2>1
  <2>2. ASSUME MapsAt(PageOf(call.addr), call.page)
        PROVE  Stay
    <3> SUFFICES ASSUME NEW b \in Block, NEW v \in PageOf(b) .. PageOf(b + header[b].size - 1),
                        v \in VPage
                 PROVE  entries'[v] = entries[v]
      OBVIOUS
    <3>1. v < PageOf(MappedEnd) /\ v \in Nat
      BY <1>1, BlockPages, DirectoryFacts DEF FramesInv
    <3>2. /\ PageOf(call.addr) = PageOf(MappedEnd)
          /\ entries' = [entries EXCEPT ![PageOf(call.addr)] = call.page]
      BY <2>2 DEF MapsAt
    <3>3. v # PageOf(call.addr) /\ entries \in [VPage -> Page \cup {Absent}]
      <4>1. PageOf(MappedEnd) \in Nat
        BY <1>1, MappedFacts, PageFacts DEF FramesInv
      <4> QED BY <1>1, <3>1, <3>2, <4>1 DEF HInv, FramesShape
    <3> QED BY <3>2, <3>3
  <2> QED BY <1>1, <2>1, <2>2, StepKinds DEF Quiet, Taken, Stops
<1>2. HInv /\ FramesInv /\ Aligned /\ [HeapNext]_heap_vars => [Stay]_heap_vars
  BY <1>1
<1> HIDE DEF Stay
<1>3. HeapSpec => [][Stay]_heap_vars
  BY <1>2, FramesInvariance, AlignedAlways, PTL DEF HeapSpec
<1> QED BY <1>3 DEF BlocksStay, Stay
=============================================================================
