-------------------------------- MODULE Pmm --------------------------------
(***************************************************************************)
(* The physical memory manager of kernel/kernel/memory/pmm.c: a bitmap of  *)
(* page frames, first fit.  A frame is its number; frame 0 is also what    *)
(* NULL looks like to the caller of pmm_alloc_page.                        *)
(***************************************************************************)
EXTENDS Integers, FiniteSets

CONSTANTS
  TotalPages,  (* total_pages: size / PAGE_SIZE                            *)
  WordBits,    (* 32: bits of an element of bitmap[]                       *)
  Stale,       (* the bits that memory has set where the bitmap is put     *)
  KernelPage   (* the frames of the kernel image and of the bitmap itself  *)

ASSUME PmmAssumption ==
  /\ TotalPages \in Nat \ {0} /\ WordBits \in Nat \ {0}
  /\ Stale \subseteq 0 .. TotalPages - 1

VARIABLES
  bitmap,      (* the frames whose bit is set                              *)
  used_pages

pmm_vars == <<bitmap, used_pages>>

Page   == 0 .. TotalPages - 1
NoPage == 0

(* The loop clears whole words only.                                       *)
pmm_init ==
  /\ bitmap = {p \in Stale : p \div WordBits >= TotalPages \div WordBits}
  /\ used_pages = 0

FreePages == Page \ bitmap

LowestFree == CHOOSE p \in FreePages : \A q \in FreePages : p <= q

CanGrant == used_pages < TotalPages /\ FreePages # {}

(* Slip: the word is set to the new bit, and the other bits in it are lost.*)
AllocOverwrites(r) ==
  \/ /\ CanGrant
     /\ r = LowestFree
     /\ bitmap' = {p \in bitmap : p \div WordBits # r \div WordBits} \cup {r}
     /\ used_pages' = used_pages + 1
  \/ /\ ~CanGrant
     /\ r = NoPage
     /\ UNCHANGED pmm_vars

pmm_alloc_page(r) ==
  \/ /\ CanGrant
     /\ r = LowestFree
     /\ bitmap' = bitmap \cup {LowestFree}
     /\ used_pages' = used_pages + 1
  \/ /\ ~CanGrant
     /\ r = NoPage
     /\ UNCHANGED pmm_vars

(* used_pages is unsigned: below zero stands for the number that wraps.    *)
pmm_free_page(p) ==
  \/ /\ p \in Page /\ p \in bitmap
     /\ bitmap' = bitmap \ {p}
     /\ used_pages' = used_pages - 1
  \/ /\ p \notin Page \/ p \notin bitmap
     /\ UNCHANGED pmm_vars

-----------------------------------------------------------------------------
(* Any caller: p ranges over one frame too many.                           *)

PmmNext == \/ \E r \in Page : pmm_alloc_page(r)
           \/ \E p \in 0 .. TotalPages : pmm_free_page(p)

PmmSpec == pmm_init /\ [][PmmNext]_pmm_vars

-----------------------------------------------------------------------------
(* used_pages counts the frames whose bit is set, so pmm_get_free_pages    *)
(* is right and the early return of pmm_alloc_page is taken exactly when   *)
(* its loop would find nothing.                                            *)
CountAgrees == bitmap \subseteq Page /\ used_pages = Cardinality(bitmap)

(* No frame under the kernel is handed out.                                *)
KernelKept == bitmap \cap KernelPage = {}
=============================================================================
