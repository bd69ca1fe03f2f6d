------------------------------ MODULE KeyQueue ------------------------------
(***************************************************************************)
(* What the keyboard driver promises: the keys are read in the order they  *)
(* were typed, each once and as it was typed, and a key is dropped only    *)
(* when Capacity keys are waiting, the newest one then.  An interrupt may  *)
(* take a read's registers from it; nothing is promised of that read, and  *)
(* the keys it leaves are a queue again.                                   *)
(***************************************************************************)
EXTENDS Integers, Sequences

CONSTANTS Packet, NoPacket, Capacity

VARIABLES
  queue,   (* the keys typed and not yet read                              *)
  call,    (* what the reader is waiting in, "none" if nothing             *)
  got,     (* what its last call returned                                  *)
  lost     (* the read in progress may have lost its registers             *)

queue_vars == <<queue, call, got, lost>>

Init == queue = <<>> /\ call = "none" /\ got = NoPacket /\ lost = FALSE

(* A key comes, between calls or in the middle of one.                     *)
Type == \E pkt \in Packet :
          /\ Len(queue) < Capacity
          /\ queue' = Append(queue, pkt)
          /\ lost' \in {lost, TRUE}
          /\ UNCHANGED <<call, got>>

Interrupt == lost' = TRUE /\ UNCHANGED <<queue, call, got>>

Reload == lost' = FALSE /\ UNCHANGED <<queue, call, got>>

Ask == /\ call = "none" /\ call' \in {"getkey", "readkey"}
       /\ got' = NoPacket
       /\ UNCHANGED <<queue, lost>>

Answer == /\ call # "none" /\ queue # <<>>
          /\ got' = Head(queue) /\ queue' = Tail(queue)
          /\ call' = "none"
          /\ UNCHANGED lost

(* Only readkey returns without a key, and only when there is none.        *)
AnswerNone == /\ call = "readkey" /\ queue = <<>>
              /\ got' = NoPacket /\ call' = "none"
              /\ UNCHANGED <<queue, lost>>

Misread == /\ lost /\ call' = "none" /\ lost' \in BOOLEAN
        /\ queue' \in Seq(Packet) /\ Len(queue') <= Capacity /\ got' \in Packet

Next == Interrupt \/ Reload \/ Ask \/ Answer \/ AnswerNone \/ Type \/ Misread

Spec == Init /\ [][Next]_queue_vars
=============================================================================
