-------------------------------- MODULE Vmm --------------------------------
(***************************************************************************)
(* The paging of kernel/kernel/memory/vmm.c: one page directory whose      *)
(* tables are made, from frames of Pmm, when a page of theirs is first     *)
(* mapped.  An address is seen as its page number here.                    *)
(***************************************************************************)
EXTENDS Pmm

CONSTANTS
  TableSize,   (* 1024: entries of a page table                            *)
  VPages       (* the virtual pages, a multiple of TableSize               *)

ASSUME VmmAssumption ==
  /\ TableSize \in Nat \ {0} /\ VPages \in Nat /\ VPages % TableSize = 0
  /\ VPages > 0

VARIABLES
  directory,   (* per directory entry the frame of its table               *)
  entries,     (* per virtual page the frame it is mapped to               *)
  stopped      (* a new table could not be written: a page fault, or the   *)
               (* directory cleared.  Nothing is modelled after it         *)

vmm_vars == <<bitmap, used_pages, directory, entries, stopped>>

VPage    == 0 .. VPages - 1
PdIndex  == 0 .. VPages \div TableSize - 1
Absent   == -1

pd_index(v) == v \div TableSize

(* pmm_init followed by vmm_init: frame 0 becomes the directory and frame  *)
(* 1 the table that maps the first TableSize pages to themselves.          *)
vmm_init ==
  /\ bitmap = {0, 1}
  /\ used_pages = 2
  /\ directory = [d \in PdIndex |-> IF d = 0 THEN 1 ELSE Absent]
  /\ entries = [v \in VPage |-> IF pd_index(v) = 0 THEN v ELSE Absent]
  /\ stopped = FALSE

(* A new table is cleared and written at its physical address, which is    *)
(* mapped for the frames below TableSize only; frame 0, what there is when *)
(* no frame is left, is the directory.                                     *)
Writable(table) == table # NoPage /\ table < TableSize

(* Slip: the page that made its table necessary is not mapped.             *)
MapTableOnly(v, p) ==
  \/ /\ directory[pd_index(v)] # Absent
     /\ entries' = [entries EXCEPT ![v] = p]
     /\ UNCHANGED <<bitmap, used_pages, directory, stopped>>
  \/ /\ directory[pd_index(v)] = Absent
     /\ \E table \in Page :
          /\ pmm_alloc_page(table)
          /\ directory' = [directory EXCEPT ![pd_index(v)] = table]
          /\ stopped' = ~Writable(table)
     /\ UNCHANGED entries

(* The directory gets the frame of a new table before the table is         *)
(* cleared, without a look at whether there is a frame.                    *)
map_page(v, p) ==
  \/ /\ directory[pd_index(v)] # Absent
     /\ entries' = [entries EXCEPT ![v] = p]
     /\ UNCHANGED <<bitmap, used_pages, directory, stopped>>
  \/ /\ directory[pd_index(v)] = Absent
     /\ \E table \in Page :
          /\ pmm_alloc_page(table)
          /\ directory' = [directory EXCEPT ![pd_index(v)] = table]
          /\ stopped' = ~Writable(table)
          /\ entries' = IF Writable(table) THEN [entries EXCEPT ![v] = p] ELSE entries

(* The page part of get_physical_address.                                  *)
get_physical_page(v) ==
  IF directory[pd_index(v)] = Absent \/ entries[v] = Absent THEN 0 ELSE entries[v]
=============================================================================
