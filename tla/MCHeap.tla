------------------------------- MODULE MCHeap -------------------------------
(* Small instances of Heap for TLC: addresses count units of four bytes    *)
(* and a page has 32 of them, so header, alignment and slack keep their    *)
(* sizes (5, 2 and 4 units) and a page holds up to four blocks.            *)
EXTENDS Heap

(* Requests that leave room for a split, or not, or fill a page.           *)
MCSmall == {1, 12, 26}

(* Larger than a page with its header, and no multiple of one.             *)
MCLarge == {1, 30}
=============================================================================
