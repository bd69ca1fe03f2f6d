------------------------------ MODULE Keyboard ------------------------------
(***************************************************************************)
(* The keyboard driver of arch/i386/drivers/keyboard/keyboard.c: a ring    *)
(* buffer that the interrupt handler fills and kernel code empties.        *)
(*                                                                         *)
(* The handler runs with interrupts off: a turn of its loop, one scancode, *)
(* is one step.  It may come between any two steps of a reader, which      *)
(* copies a packet in two moves of four bytes.  Its stub saves no register,*)
(* so what the reader had in one may be lost: a test may go either way, and*)
(* an index or a packet may be what the handler left.                      *)
(***************************************************************************)
EXTENDS Integers, Sequences

CONSTANTS
  BUFFER_SIZE,
  KeyCode,                    (* the values of the enum used, KEY_NONE among them *)
  Code,                       (* the low seven bits of a scancode                 *)
  set1_scancode_to_keycode,   (* the table                                        *)
  InScan,                     (* bound: the scancodes that come, <<code, released>> *)
  LeftIndex,                  (* what a register that held buffer_tail may hold then: 32, *)
                              (* the command pic_send_eoi sends last               *)
  LeftPacket                  (* what a packet copied through lost registers may be *)

(* Who sets a flag while it is held, and who turns one over.               *)
HeldBy    == [shift |-> {"KEY_LEFTSHIFT", "KEY_RIGHTSHIFT"},
              ctrl  |-> {"KEY_LEFTCONTROL", "KEY_RIGHTCONTROL"},
              alt   |-> {"KEY_LEFTALT", "KEY_RIGHTALT"}]
ToggledBy == [capslock |-> "KEY_CAPSLOCK", numlock |-> "KEY_NUMLOCK",
              scrolllock |-> "KEY_SCROLLLOCK"]

Flag     == DOMAIN HeldBy \cup DOMAIN ToggledBy
Modifier == (UNION {HeldBy[f] : f \in DOMAIN HeldBy}) \cup {ToggledBy[f] : f \in DOMAIN ToggledBy}

VARIABLES
  buffer, buffer_head, buffer_tail,
  flags,    (* shift, ctrl, alt, capslock, numlock, scrolllock             *)
  reader,   (* the call in progress, where it is, the packet it has copied, *)
            (* whether an interrupt came since it last loaded its registers *)
  got,      (* what the last call returned, NoPacket while one is in progress *)
  down      (* the keys of HeldBy whose press the handler has seen, not their release *)

kb_vars == <<buffer, buffer_head, buffer_tail, flags, reader, got, down>>

Slot     == 0 .. BUFFER_SIZE - 1
Packet   == [keycode : KeyCode, pressed : BOOLEAN, flags : [Flag -> BOOLEAN]]
NoFlags  == [f \in Flag |-> FALSE]
NoPacket == [keycode |-> "KEY_NONE", pressed |-> FALSE, flags |-> NoFlags]
HighFlag == {"alt", "capslock", "scrolllock", "numlock"}   (* the last four bytes *)

ASSUME KeyboardAssumption ==
  /\ BUFFER_SIZE \in Nat \ {0}
  /\ "KEY_NONE" \in KeyCode
  /\ set1_scancode_to_keycode \in [Code -> KeyCode]
  /\ InScan \subseteq Code \X BOOLEAN
  /\ LeftIndex \subseteq Slot /\ LeftPacket \subseteq Packet

Reader == [call : {"none", "getkey", "readkey"},
           at : {"test", "pop", "low", "high", "advance", "return"},
           pkt : Packet, lost : BOOLEAN]
Idle   == [call |-> "none", at |-> "test", pkt |-> NoPacket, lost |-> FALSE]

KbInit ==
  /\ buffer = [s \in Slot |-> NoPacket] /\ buffer_head = 0 /\ buffer_tail = 0
  /\ flags = NoFlags
  /\ reader = Idle /\ got = NoPacket
  /\ down = {}

-----------------------------------------------------------------------------
(* The ring.                                                               *)

After(s) == (s + 1) % BUFFER_SIZE

buffer_empty == buffer_head = buffer_tail

keyboard_available == ~buffer_empty

(* Slips: the index does not wrap; or the oldest packet makes room.        *)
PushNoWrap(pkt) ==
  /\ buffer' = [buffer EXCEPT ![buffer_head] = pkt]
  /\ buffer_head' = buffer_head + 1
  /\ UNCHANGED buffer_tail

PushDropOldest(pkt) ==
  /\ buffer' = [buffer EXCEPT ![buffer_head] = pkt]
  /\ buffer_head' = After(buffer_head)
  /\ buffer_tail' = IF After(buffer_head) = buffer_tail THEN After(buffer_tail) ELSE buffer_tail

buffer_push(pkt) ==
  \/ /\ After(buffer_head) # buffer_tail
     /\ buffer' = [buffer EXCEPT ![buffer_head] = pkt]
     /\ buffer_head' = After(buffer_head)
     /\ UNCHANGED buffer_tail
  \/ /\ After(buffer_head) = buffer_tail
     /\ UNCHANGED <<buffer, buffer_head, buffer_tail>>

-----------------------------------------------------------------------------
(* The handler.                                                            *)

(* Slip: a release does not clear the flag.                                *)
FlagsStick(keycode, released) ==
  [f \in Flag |->
     IF f \in DOMAIN HeldBy THEN flags[f] \/ keycode \in HeldBy[f]
     ELSE IF keycode = ToggledBy[f] /\ ~released THEN ~flags[f] ELSE flags[f]]

(* The flags after a modifier key.                                         *)
FlagsAfter(keycode, released) ==
  [f \in Flag |->
     IF f \in DOMAIN HeldBy THEN IF keycode \in HeldBy[f] THEN ~released ELSE flags[f]
     ELSE IF keycode = ToggledBy[f] /\ ~released THEN ~flags[f] ELSE flags[f]]

keyboard_handler(code, released) ==
  LET keycode == set1_scancode_to_keycode[code] IN
  \/ /\ keycode = "KEY_NONE"
     /\ UNCHANGED <<buffer, buffer_head, buffer_tail, flags>>
  \/ /\ keycode \in Modifier
     /\ flags' = FlagsAfter(keycode, released)
     /\ UNCHANGED <<buffer, buffer_head, buffer_tail>>
  \/ /\ keycode \notin Modifier \cup {"KEY_NONE"}
     /\ buffer_push([keycode |-> keycode, pressed |-> ~released, flags |-> flags])
     /\ UNCHANGED flags

(* The stub saves no register: those of a read in progress may be lost, or *)
(* the interrupt has come where the read holds nothing in them.            *)
Interrupts ==
  \/ UNCHANGED reader
  \/ reader.call # "none" /\ reader' = [reader EXCEPT !.lost = TRUE]

HoldKey == {code \in Code : \E f \in DOMAIN HeldBy : set1_scancode_to_keycode[code] \in HeldBy[f]}

(* A key goes down, or repeats while it is down, or up; it may have been   *)
(* down before the kernel ran.                                             *)
Type ==
  \E code \in Code, released \in BOOLEAN :
    /\ <<code, released>> \in InScan
    /\ keyboard_handler(code, released)
    /\ down' = IF released THEN down \ {code} ELSE down \cup ({code} \cap HoldKey)
    /\ Interrupts /\ UNCHANGED got

-----------------------------------------------------------------------------
(* The reader.                                                             *)

At(place) == reader.call # "none" /\ reader.at = place

Goes(place) == reader' = [reader EXCEPT !.at = place]

(* A register of the reader's, or what an interrupt left in it.            *)
Or(value, left) == IF reader.lost THEN left \cup {value} ELSE {value}

(* The outcomes of a test of the indices.                                  *)
Finds(test) == Or(test, BOOLEAN)

(* What the call is about to return.                                       *)
Answers(pkt) ==
  reader' = [reader EXCEPT !.at = "return", !.pkt = NoPacket] /\ got' = pkt

Ask ==
  /\ reader = Idle
  /\ \E call \in {"getkey", "readkey"} : reader' = [Idle EXCEPT !.call = call]
  /\ got' = NoPacket
  /\ UNCHANGED <<buffer, buffer_head, buffer_tail, flags, down>>

(* Slip: the condition of the loop is turned round.                        *)
WaitInverted ==
  /\ At("test") /\ reader.call = "getkey"
  /\ TRUE \in Finds(buffer_empty) /\ Goes("pop")
  /\ UNCHANGED <<buffer, buffer_head, buffer_tail, flags, got, down>>

(* The loop of keyboard_getkey, left when there is a packet.               *)
GetkeyWaits ==
  /\ At("test") /\ reader.call = "getkey"
  /\ FALSE \in Finds(buffer_empty) /\ Goes("pop")
  /\ UNCHANGED <<buffer, buffer_head, buffer_tail, flags, got, down>>

(* A turn of it: io_wait is called and the indices are loaded again.       *)
GetkeyTurns ==
  /\ At("test") /\ reader.call = "getkey"
  /\ TRUE \in Finds(buffer_empty) /\ reader' = [reader EXCEPT !.lost = FALSE]
  /\ UNCHANGED <<buffer, buffer_head, buffer_tail, flags, got, down>>

ReadkeyTests ==
  /\ At("test") /\ reader.call = "readkey"
  /\ \/ TRUE \in Finds(buffer_empty) /\ Answers(NoPacket)
     \/ FALSE \in Finds(buffer_empty) /\ Goes("pop") /\ UNCHANGED got
  /\ UNCHANGED <<buffer, buffer_head, buffer_tail, flags, down>>

(* buffer_pop: it looks again, calls io_wait, after which it loads the tail*)
(* anew, copies the packet and moves on.                                   *)
PopTests ==
  /\ At("pop")
  /\ \/ TRUE \in Finds(buffer_empty) /\ Answers(NoPacket)
     \/ /\ ~buffer_empty /\ UNCHANGED got
        /\ reader' = [reader EXCEPT !.at = "low", !.lost = FALSE]
     \/ buffer_empty /\ reader.lost /\ Goes("low") /\ UNCHANGED got
  /\ UNCHANGED <<buffer, buffer_head, buffer_tail, flags, down>>

PopLow ==
  /\ At("low")
  /\ reader' = [reader EXCEPT !.at = "high", !.pkt = buffer[buffer_tail]]
  /\ UNCHANGED <<buffer, buffer_head, buffer_tail, flags, got, down>>

PopHigh ==
  /\ At("high")
  /\ reader' = [reader EXCEPT !.at = "advance", !.pkt.flags =
                  [f \in Flag |-> IF f \in HighFlag THEN buffer[buffer_tail].flags[f] ELSE @[f]]]
  /\ UNCHANGED <<buffer, buffer_head, buffer_tail, flags, got, down>>

PopAdvance ==
  /\ At("advance")
  /\ buffer_tail' \in Or(After(buffer_tail), LeftIndex)
  /\ Answers(reader.pkt)
  /\ UNCHANGED <<buffer, buffer_head, flags, down>>

(* The packet goes from the registers to the caller.                       *)
Return ==
  /\ At("return")
  /\ reader' = Idle /\ got' \in Or(got, LeftPacket)
  /\ UNCHANGED <<buffer, buffer_head, buffer_tail, flags, down>>

Read == GetkeyWaits \/ ReadkeyTests \/ PopTests \/ PopLow \/ PopHigh \/ PopAdvance \/ Return

KbNext == Type \/ Ask \/ GetkeyTurns \/ Read

KbSpec == KbInit /\ [][KbNext]_kb_vars

(* The processor goes on with the reader between interrupts, and not every *)
(* turn of its loop has an interrupt between a load and its test.          *)
FairKbSpec == KbSpec /\ WF_kb_vars(Read)

-----------------------------------------------------------------------------
(* Properties.                                                             *)

(* Indices, packets, flags and the reader keep their shapes.               *)
KbTypeOK ==
  /\ buffer \in [Slot -> Packet] /\ buffer_head \in Slot /\ buffer_tail \in Slot
  /\ flags \in [Flag -> BOOLEAN]
  /\ reader \in Reader /\ got \in Packet
  /\ down \subseteq HoldKey

(* shift, ctrl or alt is set only while one of its keys is down.  (The two *)
(* keys of a flag share it: releasing either clears it, so the converse    *)
(* fails while the other is still down.)                                   *)
FlagNeedsKey ==
  \A f \in DOMAIN HeldBy :
    flags[f] => \E code \in down : set1_scancode_to_keycode[code] \in HeldBy[f]

Waiting == (buffer_head - buffer_tail) % BUFFER_SIZE

(* The packets between tail and head.                                      *)
Unread == [k \in 1 .. Waiting |-> buffer[(buffer_tail + (k - 1)) % BUFFER_SIZE]]

Queue == INSTANCE KeyQueue WITH
  Capacity <- BUFFER_SIZE - 1, queue <- Unread, lost <- reader.lost,
  call <- IF reader.at = "return" THEN "none" ELSE reader.call

(* The driver is a queue: the packets between tail and head are read once  *)
(* each, in order and whole, keys pushed at any step of the reader's, and  *)
(* keyboard_getkey never returns the empty packet.  Only a read that an    *)
(* interrupt came in after it had loaded its registers may do otherwise,   *)
(* and what it leaves is a queue again.                                    *)
ImplementsQueue == Queue!Spec

(* A keyboard_getkey that waits returns once there is a packet.            *)
GetkeyReturns == (reader.call = "getkey" /\ keyboard_available) ~> reader.call = "none"
=============================================================================
