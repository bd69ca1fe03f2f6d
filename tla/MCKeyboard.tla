----------------------------- MODULE MCKeyboard -----------------------------
(* A small instance of Keyboard for TLC: the scancodes of one plain key,   *)
(* both shifts, caps lock and a key the table does not know.               *)
EXTENDS Keyboard

MCCode == {1, 30, 42, 54, 59}

MCKeyCode == {"KEY_NONE", "KEY_A", "KEY_LEFTSHIFT", "KEY_RIGHTSHIFT", "KEY_CAPSLOCK"}

(* The entries of the table at these codes.                                *)
MCTable == [code \in MCCode |->
              CASE code = 1 -> "KEY_NONE" [] code = 30 -> "KEY_A"
                [] code = 42 -> "KEY_LEFTSHIFT" [] code = 54 -> "KEY_RIGHTSHIFT"
                [] code = 59 -> "KEY_CAPSLOCK"]

(* Presses of all of them, releases of the shifts and of caps lock: keys   *)
(* differ in the flags of both halves of a packet.                         *)
MCScan == {1, 30, 59} \X {FALSE} \cup {42, 54, 59} \X BOOLEAN

(* A packet that no key makes.                                             *)
MCLeftPacket == {[keycode |-> "KEY_A", pressed |-> FALSE, flags |-> NoFlags]}
=============================================================================
