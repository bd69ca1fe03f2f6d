-------------------------------- MODULE Heap --------------------------------
(***************************************************************************)
(* The kernel heap of kernel/kernel/memory/heap.c over Vmm and Pmm: a      *)
(* doubly linked list of blocks, first fit, that grows by whole requests.  *)
(*                                                                         *)
(* Addresses are numbers and a header is a record in the map header; the   *)
(* header of a block that was merged into another leaves the map, as no    *)
(* list leads to it.  sbrk allocates and maps its pages one after the      *)
(* other: call holds the locals of a kheap_init or kmalloc inside sbrk.    *)
(***************************************************************************)
EXTENDS Vmm, Sequences

CONSTANTS
  PAGE_SIZE,
  HEAP_START, HEAP_END,
  HeaderSize,  (* 20: sizeof(block_header_t)                               *)
  Align,       (* 8                                                        *)
  Slack,       (* 16: a split leaves more than a header and this           *)
  WORD,        (* 2^32                                                     *)
  InSize,      (* the sizes asked for                                      *)
  MaxHeld      (* bound: the allocations the callers hold at a time        *)

ASSUME HeapAssumption ==
  /\ {PAGE_SIZE, HeaderSize, Align} \subseteq Nat \ {0} /\ Slack \in Nat
  /\ {HEAP_START, HEAP_END, WORD, MaxHeld} \subseteq Nat
  /\ HEAP_START % PAGE_SIZE = 0 /\ HEAP_END % PAGE_SIZE = 0
  /\ 0 < HEAP_START /\ HEAP_START + PAGE_SIZE <= HEAP_END
  /\ TotalPages * PAGE_SIZE <= HEAP_START
  /\ HEAP_END <= VPages * PAGE_SIZE /\ VPages * PAGE_SIZE <= WORD
  /\ InSize \subseteq 0 .. WORD - 1

VARIABLES
  heap_start,          (* address of the first header, 0 before there is one *)
  heap_current_break,
  header,              (* the headers of the list, by address              *)
  held,                (* per pointer the callers hold, the size asked for *)
  call                 (* kheap_init or kmalloc inside sbrk, Idle if none  *)

heap_vars == <<bitmap, used_pages, directory, entries, stopped, heap_start,
               heap_current_break, header, held, call>>

Null     == 0
Idle     == [for |-> "none", size |-> 0, request |-> 0, addr |-> 0, page |-> NoPage, old |-> 0]
Block    == DOMAIN header
Header   == [size : Nat, is_free : BOOLEAN, next : Nat, prev : Nat]

PageOf(addr) == addr \div PAGE_SIZE

(* The memory as vmm_init leaves it, with kheap_init about to call sbrk.   *)
HeapInit ==
  /\ vmm_init
  /\ heap_start = Null
  /\ heap_current_break = (HEAP_START + PAGE_SIZE) % WORD
  /\ header = [b \in {} |-> Null]
  /\ held = [p \in {} |-> 0]
  /\ call = [Idle EXCEPT !.for = "kheap_init", !.size = PAGE_SIZE,
                         !.addr = HEAP_START, !.old = HEAP_START]

-----------------------------------------------------------------------------
(* The list.                                                               *)

(* The k-th block after heap_start.                                        *)
Nth(k) ==
  LET block[j \in 0 .. k] ==
        IF j = 0 THEN heap_start
        ELSE IF block[j - 1] \in Block THEN header[block[j - 1]].next ELSE Null
  IN block[k]

Fit(size) == {k \in 0 .. Cardinality(Block) - 1 :
                Nth(k) \in Block /\ header[Nth(k)].is_free /\ header[Nth(k)].size >= size}

find_free_block(size) ==
  LET fit == Fit(size)
  IN IF fit = {} THEN Null ELSE Nth(CHOOSE k \in fit : \A j \in fit : k <= j)

(* The block at the end of the list.                                       *)
LastBlock == CHOOSE b \in Block : header[b].next = Null

Put(h, b, r) == [x \in DOMAIN h \cup {b} |-> IF x = b THEN r ELSE h[x]]

(* Writing h[b].prev when there is a b.                                    *)
SetPrev(h, b, p) == IF b = Null THEN h ELSE [h EXCEPT ![b].prev = p]

(* Slip: the block behind is not told of its new neighbour.                *)
SplitNoPrev(h, b, size) ==
  LET rest == [size |-> h[b].size - size, is_free |-> TRUE, next |-> h[b].next, prev |-> b]
  IN IF h[b].size > size + HeaderSize + Slack
     THEN [Put(h, b + size, rest) EXCEPT
             ![b] = [@ EXCEPT !.size = size, !.next = b + size, !.is_free = FALSE]]
     ELSE [h EXCEPT ![b].is_free = FALSE]

(* The headers after split_block(b, size) and is_free = 0.                 *)
split_block(h, b, size) ==
  LET rest == [size |-> h[b].size - size, is_free |-> TRUE, next |-> h[b].next, prev |-> b]
      linked == SetPrev(Put(h, b + size, rest), h[b].next, b + size)
  IN IF h[b].size > size + HeaderSize + Slack
     THEN [linked EXCEPT ![b] = [@ EXCEPT !.size = size, !.next = b + size, !.is_free = FALSE]]
     ELSE [h EXCEPT ![b].is_free = FALSE]

Drop(h, b) == [x \in DOMAIN h \ {b} |-> h[x]]

(* b takes over the block n that follows it in the list.                   *)
Absorb(h, b, n) ==
  LET grown == [h[b] EXCEPT !.size = @ + h[n].size, !.next = h[n].next]
  IN Drop(SetPrev([h EXCEPT ![b] = grown], h[n].next, b), n)

NextIsFree(h, b) == h[b].next # Null /\ h[h[b].next].is_free
PrevIsFree(h, b) == h[b].prev # Null /\ h[h[b].prev].is_free

(* The while loop of merge_free_blocks, then its if.                       *)
merge_next(h, b) ==
  LET merged[k \in 0 .. Cardinality(DOMAIN h)] ==
        IF k = 0 THEN h
        ELSE IF NextIsFree(merged[k - 1], b)
             THEN Absorb(merged[k - 1], b, merged[k - 1][b].next) ELSE merged[k - 1]
  IN merged[Cardinality(DOMAIN h)]

(* Slip: the block before is never merged with.                            *)
MergeAheadOnly(h, b) == h

merge_prev(h, b) == IF PrevIsFree(h, b) THEN Absorb(h, h[b].prev, b) ELSE h

merge_free_blocks(h, b) == merge_prev(merge_next(h, b), b)

-----------------------------------------------------------------------------
(* kmalloc and kfree.                                                      *)

(* Slip: the header is not counted.                                        *)
NeededNoHeader(n) == ((n + Align - 1) \div Align) * Align

(* What a request of n bytes takes, header included.                       *)
Needed(n) == ((((n + Align - 1) % WORD) \div Align) * Align + HeaderSize) % WORD

(* Slip: the caller gets the address of the header.                        *)
GiveHeader(h, b, n) ==
  /\ header' = split_block(h, b, Needed(n))
  /\ held' = Put(held, b, n)

(* The end of kmalloc: block b of h is given to a caller who asked for n.  *)
Give(h, b, n) ==
  /\ header' = split_block(h, b, Needed(n))
  /\ held' = Put(held, b + HeaderSize, n)

(* A request the list can serve.                                           *)
kmalloc(n) ==
  LET b == find_free_block(Needed(n)) IN
  /\ call = Idle
  /\ n > 0
  /\ b # Null
  /\ Give(header, b, n)
  /\ UNCHANGED <<bitmap, used_pages, directory, entries, stopped, heap_start,
                 heap_current_break, call>>

(* Slip: the heap grows by what is asked for, not by a page at least.      *)
GrowByRequest(n) ==
  /\ call = Idle
  /\ find_free_block(Needed(n)) = Null
  /\ heap_current_break + Needed(n) <= HEAP_END
  /\ heap_current_break' = heap_current_break + Needed(n)
  /\ call' = [for |-> "kmalloc", size |-> Needed(n), request |-> n,
              addr |-> heap_current_break, page |-> NoPage, old |-> heap_current_break]
  /\ UNCHANGED <<bitmap, used_pages, directory, entries, stopped, heap_start, header, held>>

(* One it cannot: sbrk is entered, and fails or moves the break.           *)
kmalloc_sbrk(n) ==
  LET need == Needed(n)
      size == IF need > PAGE_SIZE THEN need ELSE PAGE_SIZE
  IN /\ call = Idle
     /\ n > 0
     /\ find_free_block(need) = Null
     /\ (heap_current_break + size) % WORD <= HEAP_END
     /\ heap_current_break' = (heap_current_break + size) % WORD
     /\ call' = [for |-> "kmalloc", size |-> size, request |-> n,
                 addr |-> heap_current_break, page |-> NoPage, old |-> heap_current_break]
     /\ UNCHANGED <<bitmap, used_pages, directory, entries, stopped, heap_start, header, held>>

InSbrk == call # Idle
Mapped == call.addr >= heap_current_break

(* One turn of the loop is two steps: a frame, then map_page.              *)
SbrkAlloc ==
  /\ InSbrk /\ ~Mapped /\ call.page = NoPage
  /\ \E r \in Page :
       /\ pmm_alloc_page(r)
       /\ \/ r # NoPage /\ call' = [call EXCEPT !.page = r] /\ UNCHANGED heap_current_break
          \/ r = NoPage /\ call' = Idle /\ heap_current_break' = call.old
  /\ UNCHANGED <<directory, entries, stopped, heap_start, header, held>>

SbrkMap ==
  /\ InSbrk /\ ~Mapped /\ call.page # NoPage
  /\ map_page(PageOf(call.addr), call.page)
  /\ call' = IF stopped' THEN call ELSE [call EXCEPT !.page = NoPage, !.addr = @ + PAGE_SIZE]
  /\ UNCHANGED <<heap_start, heap_current_break, header, held>>

(* sbrk has returned: the new block goes to the end of the list.           *)
SbrkDone ==
  LET b    == call.old
      last == IF heap_start = Null THEN Null ELSE LastBlock
      new  == [size |-> call.size, is_free |-> TRUE, next |-> Null, prev |-> last]
      h    == Put(IF last = Null THEN header ELSE [header EXCEPT ![last].next = b], b, new)
  IN /\ InSbrk /\ Mapped
     /\ heap_start' = IF heap_start = Null THEN b ELSE heap_start
     /\ \/ call.for = "kheap_init" /\ header' = h /\ UNCHANGED held
        \/ call.for = "kmalloc" /\ Give(h, b, call.request)
     /\ call' = Idle
     /\ UNCHANGED <<bitmap, used_pages, directory, entries, stopped, heap_current_break>>

kfree(p) ==
  LET b == p - HeaderSize IN
  /\ call = Idle
  /\ header' = merge_free_blocks([header EXCEPT ![b].is_free = TRUE], b)
  /\ held' = Drop(held, p)
  /\ UNCHANGED <<bitmap, used_pages, directory, entries, stopped, heap_start,
                 heap_current_break, call>>

-----------------------------------------------------------------------------
(* Callers that free what they hold, once.                                 *)

Alloc == \E n \in InSize :
           Cardinality(DOMAIN held) < MaxHeld /\ (kmalloc(n) \/ kmalloc_sbrk(n))
Sbrk  == SbrkAlloc \/ SbrkMap \/ SbrkDone

HeapNext == ~stopped /\ (Alloc \/ Sbrk \/ \E p \in DOMAIN held : kfree(p))

HeapSpec == HeapInit /\ [][HeapNext]_heap_vars

-----------------------------------------------------------------------------
(* Properties.                                                             *)

(* Headers, pointers, tables and the break stay in their ranges.           *)
HeapTypeOK ==
  /\ bitmap \subseteq Page /\ used_pages \in Nat
  /\ directory \in [PdIndex -> Page \cup {Absent}]
  /\ entries \in [VPage -> Page \cup {Absent}]
  /\ heap_start \in Nat /\ heap_current_break \in HEAP_START .. HEAP_END
  /\ header \in [Block -> Header] /\ Block \subseteq HEAP_START .. HEAP_END
  /\ held \in [DOMAIN held -> InSize]
  /\ DOMAIN held \subseteq HEAP_START + HeaderSize .. HEAP_END
  /\ call.size \in Nat /\ call.page \in Page

(* The bytes of the heap that blocks may cover: a request inside sbrk has  *)
(* moved the break before it has a block.                                  *)
BlocksEnd == IF InSbrk THEN call.old ELSE heap_current_break

(* The list runs through the heap from end to end: each block begins where *)
(* the one before it ends, and prev undoes next.  (split_block and the two *)
(* ways of merging rewrite up to three headers each.)                      *)
BlocksTile ==
  /\ Block = {} <=> heap_start = Null
  /\ Block # {} => heap_start = HEAP_START /\ heap_start \in Block
                   /\ header[heap_start].prev = Null
  /\ \A b \in Block :
       LET end == b + header[b].size IN
       /\ header[b].next = IF end = BlocksEnd THEN Null ELSE end
       /\ end # BlocksEnd => end \in Block /\ header[end].prev = b

(* Every pointer held is that of one used block big enough for what was    *)
(* asked, and every used block is held: none is lost or given twice.       *)
HeldFits ==
  /\ {b \in Block : ~header[b].is_free} = {p - HeaderSize : p \in DOMAIN held}
  /\ \A p \in DOMAIN held : header[p - HeaderSize].size >= held[p] + HeaderSize

(* No two neighbours are free: merge_free_blocks looks one block back and  *)
(* any number ahead, and that is enough.                                   *)
Coalesced ==
  \A b \in Block : header[b].is_free /\ header[b].next # Null => ~header[header[b].next].is_free

HeapPages == {v \in VPage : v >= PageOf(HEAP_START)}

(* Every byte of every block is in a page that is mapped: sbrk maps all of *)
(* what it grows by, the page a new table was made for too.                *)
BlocksMapped ==
  ~stopped => \A b \in Block : \A v \in PageOf(b) .. PageOf(b + header[b].size - 1) :
                v \in VPage /\ get_physical_page(v) # 0

HeapMapped == {v \in HeapPages : entries[v] # Absent}
TableOf    == {d \in PdIndex : directory[d] # Absent}

(* A frame has one use, through growths that fail half way and pages that  *)
(* are mapped again: it is the directory, or one table, or under one page  *)
(* of the heap, or the one sbrk is about to map; and the bitmap has it as  *)
(* taken, so pmm_alloc_page does not hand it out for a second one.         *)
FramesApart ==
  ~stopped =>
    /\ \A v, w \in HeapMapped : entries[v] = entries[w] => v = w
    /\ \A d, e \in TableOf : directory[d] = directory[e] => d = e
    /\ \A v \in HeapMapped, d \in TableOf : entries[v] # directory[d]
    /\ \A v \in HeapMapped : entries[v] \in bitmap \ {0, call.page}
    /\ \A d \in TableOf : directory[d] \in bitmap \ {0, call.page}
    /\ {0, call.page} \subseteq bitmap

(* A page under a block stays mapped to the frame that holds its bytes.    *)
BlocksStay ==
  [][\A b \in Block : \A v \in PageOf(b) .. PageOf(b + header[b].size - 1) :
       v \in VPage => entries'[v] = entries[v]]_heap_vars
=============================================================================
