--------------------------- MODULE KeyboardProofs ---------------------------
(* Type correctness of the keyboard driver, and its modifier flags.        *)
EXTENDS Keyboard, TLAPS

(* The next slot is a slot.                                                *)
LEMMA AfterIsSlot == ASSUME NEW s \in Slot PROVE After(s) \in Slot
BY KeyboardAssumption DEF Slot, After

(* The empty packet and the idle reader have their types.                  *)
LEMMA EmptyIsPacket == NoPacket \in Packet /\ Idle \in Reader
<1>1. NoFlags \in [Flag -> BOOLEAN]
  BY DEF NoFlags
<1>2. NoPacket \in Packet
  BY <1>1, KeyboardAssumption DEF NoPacket, Packet
<1> QED
  BY <1>2 DEF Idle, Reader

(* KEY_NONE is none of the keys that change a flag.                        *)
LEMMA NoneIsNoModifier == "KEY_NONE" \notin Modifier
<1>1. \A f \in DOMAIN HeldBy : "KEY_NONE" \notin HeldBy[f]
  BY DEF HeldBy
<1>2. \A f \in DOMAIN ToggledBy : ToggledBy[f] # "KEY_NONE"
  BY DEF ToggledBy
<1> QED
  BY <1>1, <1>2 DEF Modifier

(* What a scancode does keeps the types.                                   *)
LEMMA TypeKeepsTypes == ASSUME KbTypeOK, Type PROVE KbTypeOK'
<1>1. PICK code \in Code, released \in BOOLEAN :
        /\ keyboard_handler(code, released)
        /\ down' = IF released THEN down \ {code} ELSE down \cup ({code} \cap HoldKey)
        /\ Interrupts /\ UNCHANGED got
  BY DEF Type
<1> DEFINE keycode == set1_scancode_to_keycode[code]
<1>2. keycode \in KeyCode
  BY KeyboardAssumption
<1>3. down' \subseteq HoldKey'
  <2>1. HoldKey' = HoldKey
    BY DEF HoldKey
  <2> QED
    BY <1>1, <2>1 DEF KbTypeOK
<1>4. reader' \in Reader /\ got' \in Packet
  BY <1>1 DEF Interrupts, Reader, KbTypeOK
<1>5. CASE keycode = "KEY_NONE"
  <2>1. keycode \notin Modifier
    BY <1>5, NoneIsNoModifier
  <2>2. UNCHANGED <<buffer, buffer_head, buffer_tail, flags>>
    BY <1>1, <1>5, <2>1 DEF keyboard_handler
  <2> QED
    BY <1>3, <1>4, <2>2 DEF KbTypeOK
<1>6. CASE keycode \in Modifier /\ keycode # "KEY_NONE"
  <2>1. UNCHANGED <<buffer, buffer_head, buffer_tail>> /\ flags' = FlagsAfter(keycode, released)
    BY <1>1, <1>6 DEF keyboard_handler
  <2>2. FlagsAfter(keycode, released) \in [Flag -> BOOLEAN]
    BY DEF FlagsAfter, KbTypeOK
  <2> QED
    BY <1>3, <1>4, <2>1, <2>2 DEF KbTypeOK
<1>7. CASE keycode \notin Modifier \cup {"KEY_NONE"}
  <2> DEFINE pkt == [keycode |-> keycode, pressed |-> ~released, flags |-> flags]
  <2>1. buffer_push(pkt) /\ UNCHANGED flags
    BY <1>1, <1>7 DEF keyboard_handler
  <2>2. pkt \in Packet
    BY <1>2 DEF Packet, KbTypeOK
  <2>3. buffer' \in [Slot -> Packet] /\ buffer_head' \in Slot /\ buffer_tail' \in Slot
    BY <2>1, <2>2, AfterIsSlot DEF buffer_push, KbTypeOK
  <2> QED
    BY <1>3, <1>4, <2>1, <2>3 DEF KbTypeOK
<1> QED
  BY <1>5, <1>6, <1>7

(* What the reader does keeps the types.                                   *)
LEMMA ReadKeepsTypes == ASSUME KbTypeOK, Ask \/ GetkeyTurns \/ Read PROVE KbTypeOK'
<1>1. UNCHANGED <<buffer, buffer_head, flags, down>>
  BY DEF Ask, GetkeyTurns, Read, GetkeyWaits, ReadkeyTests, PopTests, PopLow, PopHigh, PopAdvance, Return
<1>2. buffer_tail' \in Slot
  BY AfterIsSlot, KeyboardAssumption
     DEF Ask, GetkeyTurns, Read, GetkeyWaits, ReadkeyTests, PopTests, PopLow, PopHigh,
         PopAdvance, Return, Or, KbTypeOK
<1>3. HoldKey' = HoldKey
  BY DEF HoldKey
<1>4. reader' \in Reader /\ got' \in Packet
  <2>1. CASE Ask
    BY <2>1, EmptyIsPacket DEF Ask, Idle, Reader, KbTypeOK
  <2>2. CASE GetkeyWaits
    BY <2>2 DEF GetkeyWaits, Goes, Reader, KbTypeOK
  <2>3. CASE ReadkeyTests
    BY <2>3, EmptyIsPacket DEF ReadkeyTests, Goes, Answers, Reader, KbTypeOK
  <2>4. CASE PopTests
    BY <2>4, EmptyIsPacket DEF PopTests, Goes, Answers, Reader, KbTypeOK
  <2>5. CASE PopLow
    <3>1. buffer[buffer_tail] \in Packet
      BY DEF KbTypeOK
    <3> QED
      BY <2>5, <3>1 DEF PopLow, Reader, KbTypeOK
  <2>6. CASE PopHigh
    <3> DEFINE mixed == [f \in Flag |-> IF f \in HighFlag THEN buffer[buffer_tail].flags[f]
                                                          ELSE reader.pkt.flags[f]]
    <3>1. buffer[buffer_tail] \in Packet /\ reader.pkt \in Packet
      BY DEF KbTypeOK, Reader
    <3>2. mixed \in [Flag -> BOOLEAN]
      BY <3>1 DEF Packet
    <3>3. reader' = [reader EXCEPT !.at = "advance", !.pkt = [@ EXCEPT !.flags = mixed]]
      BY <2>6 DEF PopHigh, KbTypeOK, Reader, Packet
    <3>4. [reader.pkt EXCEPT !.flags = mixed] \in Packet
      BY <3>1, <3>2 DEF Packet
    <3> HIDE DEF mixed
    <3> QED
      BY <2>6, <3>3, <3>4 DEF PopHigh, KbTypeOK, Reader
  <2>7. CASE PopAdvance
    BY <2>7, EmptyIsPacket DEF PopAdvance, Answers, Reader, KbTypeOK
  <2>8. CASE GetkeyTurns
    BY <2>8 DEF GetkeyTurns, Reader, KbTypeOK
  <2>9. CASE Return
    BY <2>9, EmptyIsPacket, KeyboardAssumption DEF Return, Or, KbTypeOK
  <2> QED
    BY <2>1, <2>2, <2>3, <2>4, <2>5, <2>6, <2>7, <2>8, <2>9 DEF Read
<1> QED
  BY <1>1, <1>2, <1>3, <1>4 DEF KbTypeOK

(* Every step of the driver keeps the types.                               *)
LEMMA StepKeepsTypes == ASSUME KbTypeOK, [KbNext]_kb_vars PROVE KbTypeOK'
<1>1. CASE UNCHANGED kb_vars
  BY <1>1 DEF kb_vars, KbTypeOK, HoldKey
<1> QED
  BY <1>1, TypeKeepsTypes, ReadKeepsTypes DEF KbNext

(* The initial state has the types.                                        *)
LEMMA InitTypes == KbInit => KbTypeOK
<1>1. NoFlags \in [Flag -> BOOLEAN]
  BY DEF NoFlags
<1>2. 0 \in Slot
  BY KeyboardAssumption DEF Slot
<1> QED
  BY <1>1, <1>2, EmptyIsPacket DEF KbInit, KbTypeOK

(* Indices stay in the ring and every slot holds a packet.                 *)
THEOREM KbTypeCorrect == KbSpec => []KbTypeOK
BY InitTypes, StepKeepsTypes, PTL DEF KbSpec

(* shift, ctrl or alt is never left set with none of its keys down: the    *)
(* handler clears it on the release of either.                             *)
THEOREM FlagCorrect == KbSpec => []FlagNeedsKey
<1>1. KbInit => FlagNeedsKey
  BY DEF KbInit, NoFlags, FlagNeedsKey, Flag
<1>2. ASSUME KbTypeOK, FlagNeedsKey, [KbNext]_kb_vars PROVE FlagNeedsKey'
  <2> SUFFICES ASSUME NEW f \in DOMAIN HeldBy, flags'[f]
               PROVE  \E c \in down' : set1_scancode_to_keycode[c] \in HeldBy[f]
    BY DEF FlagNeedsKey
  <2>1. CASE UNCHANGED <<flags, down>>
    BY <1>2, <2>1 DEF FlagNeedsKey
  <2>2. ASSUME Type PROVE \E c \in down' : set1_scancode_to_keycode[c] \in HeldBy[f]
    <3>1. PICK code \in Code, released \in BOOLEAN :
            /\ keyboard_handler(code, released)
            /\ down' = IF released THEN down \ {code} ELSE down \cup ({code} \cap HoldKey)
      BY <2>2 DEF Type
    <3> DEFINE keycode == set1_scancode_to_keycode[code]
    <3>2. f \in Flag
      BY DEF Flag
    <3>3. keycode \in HeldBy[f] => keycode \in Modifier /\ keycode # "KEY_NONE"
      BY DEF Modifier, HeldBy
    <3>4. CASE keycode \in HeldBy[f]
      <4>1. flags' = FlagsAfter(keycode, released)
        BY <3>1, <3>3, <3>4 DEF keyboard_handler
      <4>2. ~released
        BY <3>2, <3>4, <4>1 DEF FlagsAfter
      <4>3. code \in down'
        BY <3>1, <3>4, <4>2 DEF HoldKey
      <4> QED
        BY <3>4, <4>3
    <3>5. CASE keycode \notin HeldBy[f]
      <4>1. flags'[f] = flags[f]
        <5>1. flags' = flags \/ flags' = FlagsAfter(keycode, released)
          BY <3>1 DEF keyboard_handler
        <5> QED
          BY <3>2, <3>5, <5>1 DEF FlagsAfter
      <4>2. PICK c \in down : set1_scancode_to_keycode[c] \in HeldBy[f]
        BY <1>2, <4>1 DEF FlagNeedsKey
      <4>3. c # code
        BY <3>5, <4>2
      <4> QED
        BY <3>1, <4>2, <4>3
    <3> QED
      BY <3>4, <3>5
  <2>3. Ask \/ GetkeyTurns \/ Read => UNCHANGED <<flags, down>>
    BY DEF Ask, GetkeyTurns, Read, GetkeyWaits, ReadkeyTests, PopTests, PopLow, PopHigh, PopAdvance, Return
  <2> QED
    BY <1>2, <2>1, <2>2, <2>3 DEF KbNext, kb_vars
<1> QED
  BY <1>1, <1>2, KbTypeCorrect, PTL DEF KbSpec

-----------------------------------------------------------------------------
(* Keyboard implements KeyQueue.  First, the remainders that occur.        *)

(* A number below n is its own remainder.                                  *)
LEMMA SmallRemainder ==
  ASSUME NEW n \in Nat \ {0}, NEW x \in Nat, x < n
  PROVE  x % n = x
OBVIOUS

(* From n to twice n, n is taken off.                                      *)
LEMMA LargeRemainder ==
  ASSUME NEW n \in Nat \ {0}, NEW x \in Nat, n <= x, x < n + n
  PROVE  x % n = x - n
OBVIOUS

(* Below zero, n is added.                                                 *)
LEMMA NegativeRemainder ==
  ASSUME NEW n \in Nat \ {0}, NEW x \in Int, -n <= x, x < 0
  PROVE  x % n = x + n
OBVIOUS

(* The i-th slot from t on.                                                *)
LEMMA RingSlot ==
  ASSUME NEW t \in Slot, NEW i \in 0 .. BUFFER_SIZE
  PROVE  (t + i) % BUFFER_SIZE = IF t + i < BUFFER_SIZE THEN t + i ELSE t + i - BUFFER_SIZE
<1>1. BUFFER_SIZE \in Nat \ {0} /\ t \in Nat /\ i \in Nat /\ t < BUFFER_SIZE /\ i <= BUFFER_SIZE
  BY KeyboardAssumption DEF Slot
<1>2. ASSUME t + i < BUFFER_SIZE PROVE (t + i) % BUFFER_SIZE = t + i
  <2>1. t + i \in Nat
    BY <1>1
  <2> QED
    BY <1>1, <1>2, <2>1, SmallRemainder
<1>3. ASSUME ~(t + i < BUFFER_SIZE) PROVE (t + i) % BUFFER_SIZE = t + i - BUFFER_SIZE
  <2> DEFINE x == t + i
  <2>1. x \in Nat /\ BUFFER_SIZE <= x /\ x < BUFFER_SIZE + BUFFER_SIZE
    BY <1>1, <1>3
  <2> HIDE DEF x
  <2>2. x % BUFFER_SIZE = x - BUFFER_SIZE
    BY <1>1, <2>1, LargeRemainder
  <2>3. x - BUFFER_SIZE = t + i - BUFFER_SIZE
    BY <1>1 DEF x
  <2> QED
    BY <2>2, <2>3, Zenon DEF x
<1> QED
  BY <1>2, <1>3, Zenon

(* The number of slots from t up to h.                                     *)
LEMMA RingCount ==
  ASSUME NEW h \in Slot, NEW t \in Slot
  PROVE  (h - t) % BUFFER_SIZE = IF t <= h THEN h - t ELSE h - t + BUFFER_SIZE
<1>1. BUFFER_SIZE \in Nat \ {0} /\ h \in Nat /\ t \in Nat /\ h < BUFFER_SIZE /\ t < BUFFER_SIZE
  BY KeyboardAssumption DEF Slot
<1>2. CASE t <= h
  BY <1>1, <1>2, SmallRemainder
<1>3. CASE ~(t <= h)
  BY <1>1, <1>3, NegativeRemainder
<1> QED
  BY <1>2, <1>3

(* The slot after s.                                                       *)
LEMMA RingAfter ==
  ASSUME NEW s \in Slot
  PROVE  After(s) = IF s + 1 < BUFFER_SIZE THEN s + 1 ELSE 0
<1>1. BUFFER_SIZE \in Nat \ {0} /\ 1 \in 0 .. BUFFER_SIZE /\ s \in 0 .. BUFFER_SIZE - 1
  BY KeyboardAssumption DEF Slot
<1>2. After(s) = IF s + 1 < BUFFER_SIZE THEN s + 1 ELSE s + 1 - BUFFER_SIZE
  BY <1>1, RingSlot DEF After
<1> QED
  BY <1>1, <1>2

(* The unread packets are a sequence, empty when the indices meet, and its *)
(* first one is at the tail.                                               *)
LEMMA UnreadFacts ==
  ASSUME KbTypeOK
  PROVE  /\ Waiting \in 0 .. BUFFER_SIZE - 1
         /\ Waiting = 0 <=> buffer_empty
         /\ Unread \in Seq(Packet) /\ Len(Unread) = Waiting
         /\ ~buffer_empty => Unread # <<>> /\ Head(Unread) = buffer[buffer_tail]
<1>1. /\ BUFFER_SIZE \in Nat \ {0} /\ buffer_head \in Slot /\ buffer_tail \in Slot
      /\ buffer_head \in 0 .. BUFFER_SIZE - 1 /\ buffer_tail \in 0 .. BUFFER_SIZE - 1
  BY KeyboardAssumption DEF KbTypeOK, Slot
<1>2. Waiting = IF buffer_tail <= buffer_head THEN buffer_head - buffer_tail
                ELSE buffer_head - buffer_tail + BUFFER_SIZE
  BY <1>1, RingCount DEF Waiting
<1>3. Waiting \in 0 .. BUFFER_SIZE - 1 /\ (Waiting = 0 <=> buffer_empty)
  BY <1>1, <1>2 DEF buffer_empty
<1>4. ASSUME NEW k \in 1 .. Waiting
      PROVE  (buffer_tail + (k - 1)) % BUFFER_SIZE \in Slot
  <2>1. k - 1 \in 0 .. BUFFER_SIZE
    BY <1>1, <1>3
  <2> QED
    BY <1>1, <2>1, RingSlot DEF Slot
<1>5. Unread \in Seq(Packet) /\ Len(Unread) = Waiting
  BY <1>3, <1>4 DEF Unread, KbTypeOK
<1>6. ASSUME ~buffer_empty PROVE Unread # <<>> /\ Head(Unread) = buffer[buffer_tail]
  <2>1. 1 \in 1 .. Waiting
    BY <1>3, <1>6
  <2>2. (buffer_tail + (1 - 1)) % BUFFER_SIZE = buffer_tail
    BY <1>1, SmallRemainder
  <2>3. Unread[1] = buffer[buffer_tail]
    BY <2>1, <2>2 DEF Unread
  <2> QED
    BY <1>5, <2>1, <2>3
<1> QED
  BY <1>3, <1>5, <1>6

(* A push on a ring that is not full appends.                              *)
LEMMA PushAppends ==
  ASSUME KbTypeOK, NEW pkt \in Packet, After(buffer_head) # buffer_tail,
         buffer' = [buffer EXCEPT ![buffer_head] = pkt],
         buffer_head' = After(buffer_head), UNCHANGED buffer_tail
  PROVE  /\ Len(Unread) < BUFFER_SIZE - 1 /\ Unread' = Append(Unread, pkt)
         /\ ~buffer_empty'
         /\ ~buffer_empty => buffer'[buffer_tail] = buffer[buffer_tail]
<1>1. /\ BUFFER_SIZE \in Nat \ {0} /\ buffer_head \in Slot /\ buffer_tail \in Slot
      /\ buffer_head \in 0 .. BUFFER_SIZE - 1 /\ buffer_tail \in 0 .. BUFFER_SIZE - 1
  BY KeyboardAssumption DEF KbTypeOK, Slot
<1>2. After(buffer_head) = (IF buffer_head + 1 < BUFFER_SIZE THEN buffer_head + 1 ELSE 0)
      /\ After(buffer_head) \in Slot
  BY <1>1, RingAfter, AfterIsSlot
<1>3. Waiting = IF buffer_tail <= buffer_head THEN buffer_head - buffer_tail
                ELSE buffer_head - buffer_tail + BUFFER_SIZE
  BY <1>1, RingCount DEF Waiting
<1>4. Waiting' = (After(buffer_head) - buffer_tail) % BUFFER_SIZE
  BY DEF Waiting
<1>5. Waiting' = IF buffer_tail <= After(buffer_head) THEN After(buffer_head) - buffer_tail
                 ELSE After(buffer_head) - buffer_tail + BUFFER_SIZE
  BY <1>1, <1>2, <1>4, RingCount
<1>6. Waiting' = Waiting + 1 /\ Waiting < BUFFER_SIZE - 1 /\ Waiting \in Nat
  BY <1>1, <1>2, <1>3, <1>5
<1>7. Len(Unread) = Waiting /\ Unread \in Seq(Packet)
  BY UnreadFacts
<1>8. ASSUME NEW k \in 1 .. Waiting + 1
      PROVE  Unread'[k] = Append(Unread, pkt)[k]
  <2> DEFINE slot == (buffer_tail + (k - 1)) % BUFFER_SIZE
  <2>1. k - 1 \in 0 .. BUFFER_SIZE
    BY <1>1, <1>6
  <2>2. slot = IF buffer_tail + (k - 1) < BUFFER_SIZE THEN buffer_tail + (k - 1)
               ELSE buffer_tail + (k - 1) - BUFFER_SIZE
    BY <1>1, <2>1, RingSlot
  <2>3. slot \in Slot /\ (slot = buffer_head <=> k = Waiting + 1)
    BY <1>1, <1>3, <1>6, <2>2 DEF Slot
  <2>4. Unread'[k] = buffer'[slot]
    BY <1>6 DEF Unread
  <2>5. buffer'[slot] = IF slot = buffer_head THEN pkt ELSE buffer[slot]
    BY <2>3 DEF KbTypeOK
  <2>6. k # Waiting + 1 => Unread[k] = buffer[slot]
    BY <1>6 DEF Unread
  <2> HIDE DEF slot
  <2> QED
    BY <1>6, <1>7, <2>3, <2>4, <2>5, <2>6
<1>9. Unread' \in Seq(Packet) /\ Len(Unread') = Waiting + 1
  <2>1. Unread' = [k \in 1 .. Waiting + 1 |-> buffer'[(buffer_tail + (k - 1)) % BUFFER_SIZE]]
    BY <1>6 DEF Unread
  <2>2. ASSUME NEW k \in 1 .. Waiting + 1 PROVE Unread'[k] \in Packet
    <3>1. Append(Unread, pkt)[k] \in Packet
      BY <1>6, <1>7
    <3> QED
      BY <1>8, <3>1
  <2> QED
    BY <1>6, <2>1, <2>2
<1>10. Unread' = Append(Unread, pkt)
  BY <1>6, <1>7, <1>8, <1>9
<1>11. ~buffer_empty'
  BY <1>1, <1>2 DEF buffer_empty
<1> QED
  BY <1>1, <1>6, <1>7, <1>10, <1>11 DEF KbTypeOK, buffer_empty

(* Moving the tail of a ring that is not empty drops the first packet.     *)
LEMMA AdvanceTails ==
  ASSUME KbTypeOK, ~buffer_empty,
         buffer_tail' = After(buffer_tail), UNCHANGED <<buffer, buffer_head>>
  PROVE  Unread' = Tail(Unread)
<1>1. /\ BUFFER_SIZE \in Nat \ {0} /\ buffer_head \in Slot /\ buffer_tail \in Slot
      /\ buffer_head \in 0 .. BUFFER_SIZE - 1 /\ buffer_tail \in 0 .. BUFFER_SIZE - 1
      /\ buffer_head # buffer_tail
  BY KeyboardAssumption DEF KbTypeOK, Slot, buffer_empty
<1>2. After(buffer_tail) = (IF buffer_tail + 1 < BUFFER_SIZE THEN buffer_tail + 1 ELSE 0)
      /\ After(buffer_tail) \in Slot
  BY <1>1, RingAfter, AfterIsSlot
<1>3. Waiting = IF buffer_tail <= buffer_head THEN buffer_head - buffer_tail
                ELSE buffer_head - buffer_tail + BUFFER_SIZE
  BY <1>1, RingCount DEF Waiting
<1>4. Waiting' = (buffer_head - After(buffer_tail)) % BUFFER_SIZE
  BY DEF Waiting
<1>5. Waiting' = IF After(buffer_tail) <= buffer_head THEN buffer_head - After(buffer_tail)
                 ELSE buffer_head - After(buffer_tail) + BUFFER_SIZE
  BY <1>1, <1>2, <1>4, RingCount
<1>6. Waiting' = Waiting - 1 /\ Waiting \in 1 .. BUFFER_SIZE - 1
  BY <1>1, <1>2, <1>3, <1>5
<1>7. Len(Unread) = Waiting /\ Unread \in Seq(Packet) /\ Unread # <<>>
  BY UnreadFacts
<1>8. ASSUME NEW k \in 1 .. Waiting - 1
      PROVE  buffer[(After(buffer_tail) + (k - 1)) % BUFFER_SIZE] = Unread[k + 1]
  <2>1. k - 1 \in 0 .. BUFFER_SIZE /\ k \in 0 .. BUFFER_SIZE
    BY <1>1, <1>6
  <2>2. (After(buffer_tail) + (k - 1)) % BUFFER_SIZE =
          IF After(buffer_tail) + (k - 1) < BUFFER_SIZE THEN After(buffer_tail) + (k - 1)
          ELSE After(buffer_tail) + (k - 1) - BUFFER_SIZE
    BY <1>2, <2>1, RingSlot
  <2>3. (buffer_tail + k) % BUFFER_SIZE =
          IF buffer_tail + k < BUFFER_SIZE THEN buffer_tail + k ELSE buffer_tail + k - BUFFER_SIZE
    BY <1>1, <2>1, RingSlot
  <2>4. (After(buffer_tail) + (k - 1)) % BUFFER_SIZE = (buffer_tail + k) % BUFFER_SIZE
    BY <1>1, <1>2, <1>6, <2>1, <2>2, <2>3
  <2>5. k + 1 \in 1 .. Waiting /\ (k + 1) - 1 = k
    BY <1>6
  <2>6. Unread[k + 1] = buffer[(buffer_tail + ((k + 1) - 1)) % BUFFER_SIZE]
    BY <2>5 DEF Unread
  <2> QED
    BY <2>4, <2>5, <2>6
<1>9. ASSUME NEW k \in 1 .. Waiting - 1
      PROVE  Unread'[k] = Tail(Unread)[k]
  <2>1. Unread'[k] = buffer[(After(buffer_tail) + (k - 1)) % BUFFER_SIZE]
    BY <1>6 DEF Unread
  <2>2. Tail(Unread)[k] = Unread[k + 1]
    BY <1>6, <1>7
  <2> QED
    BY <1>8, <2>1, <2>2
<1>10. Tail(Unread) \in Seq(Packet) /\ Len(Tail(Unread)) = Waiting - 1
  BY <1>6, <1>7
<1>11. Unread' \in Seq(Packet) /\ Len(Unread') = Waiting - 1
  <2>1. Unread' = [k \in 1 .. Waiting - 1 |->
                     buffer[(After(buffer_tail) + (k - 1)) % BUFFER_SIZE]]
    BY <1>6 DEF Unread
  <2>2. ASSUME NEW k \in 1 .. Waiting - 1 PROVE Unread'[k] \in Packet
    <3>1. Tail(Unread)[k] \in Packet
      BY <1>6, <1>10
    <3> QED
      BY <1>9, <3>1
  <2> QED
    BY <1>6, <2>1, <2>2
<1> QED
  BY <1>6, <1>9, <1>10, <1>11

(* A read that has its registers is past its look only with a packet, and  *)
(* what it has copied is that one.                                         *)
ReaderInv ==
  /\ reader.call = "none" => reader = Idle
  /\ ~reader.lost =>
       /\ At("pop") \/ At("low") \/ At("high") \/ At("advance") => ~buffer_empty
       /\ At("high") \/ At("advance") => reader.pkt = buffer[buffer_tail]

(* The call, as the queue has it: over when it has its answer.             *)
Asking == IF reader.at = "return" THEN "none" ELSE reader.call

QueueStep == [Queue!Next]_<<Unread, Asking, got, reader.lost>>

(* What keeps the ring keeps the queue.                                    *)
LEMMA RingKept ==
  ASSUME UNCHANGED <<buffer, buffer_head, buffer_tail>>
  PROVE  UNCHANGED Unread /\ buffer_empty' = buffer_empty
BY DEF Unread, Waiting, buffer_empty

(* A scancode adds a key to the queue or nothing, behind the reader's back.*)
LEMMA TypeQueues ==
  ASSUME KbTypeOK, ReaderInv, Type
  PROVE  ReaderInv' /\ QueueStep
<1>1. PICK code \in Code, released \in BOOLEAN :
        keyboard_handler(code, released) /\ Interrupts /\ UNCHANGED got
  BY DEF Type
<1> DEFINE keycode == set1_scancode_to_keycode[code]
           pkt     == [keycode |-> keycode, pressed |-> ~released, flags |-> flags]
<1>2. pkt \in Packet
  BY KeyboardAssumption DEF Packet, KbTypeOK
<1>3. /\ reader'.call = reader.call /\ reader'.at = reader.at /\ reader'.pkt = reader.pkt
      /\ reader'.lost \in {reader.lost, TRUE}
      /\ reader.call = "none" => reader' = Idle
  <2>1. reader \in Reader /\ reader.lost \in BOOLEAN
    BY DEF KbTypeOK, Reader
  <2>2. CASE UNCHANGED reader
    BY <2>1, <2>2 DEF ReaderInv
  <2>3. CASE reader.call # "none" /\ reader' = [reader EXCEPT !.lost = TRUE]
    BY <2>1, <2>3 DEF Reader
  <2> QED
    BY <1>1, <2>2, <2>3 DEF Interrupts
<1>4. Asking' = Asking
  BY <1>3 DEF Asking
<1>5. CASE UNCHANGED <<buffer, buffer_head, buffer_tail>>
  <2>1. UNCHANGED Unread /\ buffer_empty' = buffer_empty
    BY <1>5, RingKept
  <2>2. QueueStep
    BY <1>1, <1>3, <1>4, <2>1 DEF QueueStep, Queue!Next, Queue!Interrupt, Asking
  <2>3. ReaderInv'
    BY <1>3, <1>5, <2>1 DEF ReaderInv, At, KbTypeOK, Reader
  <2> QED
    BY <2>2, <2>3
<1>6. CASE /\ After(buffer_head) # buffer_tail
           /\ buffer' = [buffer EXCEPT ![buffer_head] = pkt]
           /\ buffer_head' = After(buffer_head) /\ UNCHANGED buffer_tail
  <2> HIDE DEF pkt
  <2>1. /\ Len(Unread) < BUFFER_SIZE - 1 /\ Unread' = Append(Unread, pkt)
        /\ ~buffer_empty'
        /\ ~buffer_empty => buffer'[buffer_tail] = buffer[buffer_tail]
    BY <1>2, <1>6, PushAppends
  <2>2. Queue!Type
    BY <1>1, <1>2, <1>3, <1>4, <2>1 DEF Queue!Type, Asking
  <2>3. ReaderInv'
    BY <1>3, <1>6, <2>1 DEF ReaderInv, At, KbTypeOK, Reader
  <2> QED
    BY <2>2, <2>3 DEF QueueStep, Queue!Next
<1> QED
  BY <1>1, <1>5, <1>6 DEF keyboard_handler, buffer_push

QueueTyped == Unread \in Seq(Packet) /\ Len(Unread) <= BUFFER_SIZE - 1

LEMMA UnreadTyped == KbTypeOK => QueueTyped
<1> SUFFICES ASSUME KbTypeOK PROVE QueueTyped
  OBVIOUS
<1>1. Unread \in Seq(Packet) /\ Len(Unread) = Waiting /\ Waiting \in 0 .. BUFFER_SIZE - 1
  BY UnreadFacts
<1> QED
  BY <1>1, KeyboardAssumption DEF QueueTyped

(* A read that has lost its registers may answer anything, and leaves a    *)
(* queue.                                                                  *)
LEMMA LostSlips ==
  ASSUME KbTypeOK', QueueTyped', reader.lost, Asking' = "none"
  PROVE  QueueStep
<1>1. got' \in Packet /\ reader'.lost \in BOOLEAN
  BY DEF KbTypeOK, Reader
<1>2. Queue!Misread
  BY <1>1 DEF Queue!Misread, Asking, QueueTyped
<1> QED
  BY <1>2 DEF Queue!Next, QueueStep

(* The reader's steps ask, answer, load again or stutter.                  *)
LEMMA ReadAnswers ==
  ASSUME KbTypeOK, KbTypeOK', QueueTyped', ReaderInv, Ask \/ GetkeyTurns \/ Read
  PROVE  ReaderInv' /\ QueueStep
<1>1. ASSUME UNCHANGED <<buffer, buffer_head, buffer_tail>>
      PROVE  UNCHANGED Unread /\ buffer_empty' = buffer_empty
  BY <1>1, RingKept
<1> USE DEF KbTypeOK, Reader
<1>2. CASE Ask
  <2>1. UNCHANGED Unread /\ reader' = [Idle EXCEPT !.call = reader'.call]
        /\ reader'.call \in {"getkey", "readkey"} /\ reader'.at = "test" /\ ~reader'.lost
    BY <1>1, <1>2 DEF Ask, Idle
  <2>2. Queue!Ask
    BY <1>2, <2>1 DEF Ask, Idle, Queue!Ask
  <2> QED
    BY <2>1, <2>2 DEF QueueStep, Queue!Next, ReaderInv, At, Asking
<1>3. CASE GetkeyWaits
  <2>1. UNCHANGED Unread /\ buffer_empty' = buffer_empty
    BY <1>1, <1>3 DEF GetkeyWaits
  <2>2. /\ reader'.call = reader.call /\ reader'.at = "pop" /\ reader'.lost = reader.lost
        /\ reader.at = "test" /\ reader.call = "getkey" /\ UNCHANGED got
        /\ reader.lost \/ ~buffer_empty
    BY <1>3 DEF GetkeyWaits, Goes, At, Finds, Or
  <2> QED
    BY <1>3, <2>1, <2>2 DEF GetkeyWaits, At, QueueStep, ReaderInv, Asking
<1>4. CASE GetkeyTurns
  <2>1. UNCHANGED <<Unread, got>> /\ buffer_empty' = buffer_empty
    BY <1>1, <1>4 DEF GetkeyTurns
  <2>2. reader'.call = reader.call /\ reader'.at = "test" /\ ~reader'.lost /\ reader.at = "test"
        /\ reader.call = "getkey"
    BY <1>4 DEF GetkeyTurns, At
  <2> QED
    BY <2>1, <2>2 DEF QueueStep, ReaderInv, At, Queue!Next, Queue!Reload, Asking
<1>5. CASE ReadkeyTests
  <2>1. UNCHANGED Unread /\ buffer_empty' = buffer_empty /\ reader.call = "readkey" /\ reader.at = "test"
    BY <1>1, <1>5 DEF ReadkeyTests, At
  <2>2. CASE Answers(NoPacket) /\ reader.lost
    <3>1. Asking' = "none" /\ reader'.lost /\ reader'.call = "readkey"
      BY <2>1, <2>2 DEF Answers, Asking
    <3> QED
      BY <2>2, <3>1, LostSlips DEF ReaderInv
  <2>3. CASE Answers(NoPacket) /\ ~reader.lost /\ buffer_empty
    <3>1. Unread = <<>>
      <4>1. Unread \in Seq(Packet) /\ Len(Unread) = 0
        BY <2>3, UnreadFacts
      <4> QED
        BY <4>1
    <3>2. reader'.call = "readkey" /\ reader'.at = "return" /\ ~reader'.lost /\ got' = NoPacket
      BY <2>1, <2>3 DEF Answers
    <3>3. Queue!AnswerNone
      BY <2>1, <2>3, <3>1, <3>2 DEF Queue!AnswerNone
    <3> QED
      BY <3>2, <3>3 DEF ReaderInv, At, QueueStep, Queue!Next
  <2>4. CASE Goes("pop") /\ UNCHANGED got /\ (reader.lost \/ ~buffer_empty)
    <3>1. reader'.call = "readkey" /\ reader'.at = "pop" /\ reader'.lost = reader.lost
      BY <2>1, <2>4 DEF Goes
    <3> QED
      BY <2>1, <2>4, <3>1 DEF At, QueueStep, ReaderInv, Asking
  <2> QED
    BY <1>5, <2>2, <2>3, <2>4 DEF ReadkeyTests, Finds, Or
<1>6. CASE PopTests
  <2>1. UNCHANGED Unread /\ buffer_empty' = buffer_empty /\ reader.call # "none" /\ reader.at = "pop"
    BY <1>1, <1>6 DEF PopTests, At
  <2>2. CASE Answers(NoPacket) /\ reader.lost
    <3>1. Asking' = "none" /\ reader'.lost /\ reader'.call = reader.call
      BY <2>1, <2>2 DEF Answers, Asking
    <3> QED
      BY <2>1, <2>2, <3>1, LostSlips DEF ReaderInv
  <2>3. CASE ~buffer_empty /\ UNCHANGED got /\ reader' = [reader EXCEPT !.at = "low", !.lost = FALSE]
    <3>1. reader'.call = reader.call /\ reader'.at = "low" /\ ~reader'.lost
      BY <2>3
    <3> QED
      BY <2>1, <2>3, <3>1 DEF At, QueueStep, Queue!Next, Queue!Reload, ReaderInv, Asking
  <2>4. CASE reader.lost /\ Goes("low") /\ UNCHANGED got
    <3>1. reader'.call = reader.call /\ reader'.at = "low" /\ reader'.lost
      BY <2>4 DEF Goes
    <3> QED
      BY <2>1, <2>4, <3>1 DEF QueueStep, ReaderInv, Asking
  <2>5. ~reader.lost => ~buffer_empty
    BY <2>1 DEF ReaderInv, At
  <2> QED
    BY <1>6, <2>2, <2>3, <2>4, <2>5 DEF PopTests, Finds, Or
<1>7. CASE PopLow
  <2>1. UNCHANGED Unread /\ buffer_empty' = buffer_empty /\ UNCHANGED <<buffer, buffer_tail, got>>
    BY <1>1, <1>7 DEF PopLow
  <2>2. /\ reader'.call = reader.call /\ reader'.at = "high" /\ reader'.lost = reader.lost
        /\ reader'.pkt = buffer[buffer_tail] /\ reader.call # "none" /\ reader.at = "low"
    BY <1>7 DEF PopLow, At
  <2> QED
    BY <2>1, <2>2 DEF At, QueueStep, ReaderInv, Asking
<1>8. CASE PopHigh
  <2> DEFINE mixed == [f \in Flag |-> IF f \in HighFlag THEN buffer[buffer_tail].flags[f]
                                                        ELSE reader.pkt.flags[f]]
  <2>1. reader' = [reader EXCEPT !.at = "advance", !.pkt = [@ EXCEPT !.flags = mixed]]
    BY <1>8 DEF PopHigh, Packet
  <2>2. ASSUME ~reader.lost PROVE [reader.pkt EXCEPT !.flags = mixed] = buffer[buffer_tail]
    <3>1. reader.pkt = buffer[buffer_tail] /\ reader.pkt \in Packet
      BY <1>8, <2>2 DEF PopHigh, At, ReaderInv
    <3>2. mixed = reader.pkt.flags
      BY <3>1 DEF Packet
    <3> QED
      BY <3>1, <3>2 DEF Packet
  <2> HIDE DEF mixed
  <2>3. /\ reader'.call = reader.call /\ reader'.at = "advance" /\ reader'.lost = reader.lost
        /\ ~reader.lost => reader'.pkt = buffer[buffer_tail]
        /\ reader.call # "none" /\ reader.at = "high"
    BY <1>8, <2>1, <2>2 DEF PopHigh, At
  <2>4. UNCHANGED Unread /\ buffer_empty' = buffer_empty /\ UNCHANGED <<buffer, buffer_tail, got>>
    BY <1>1, <1>8 DEF PopHigh
  <2> QED
    BY <2>3, <2>4 DEF At, QueueStep, ReaderInv, Asking
<1>9. CASE PopAdvance
  <2>1. /\ reader.call # "none" /\ reader.at = "advance" /\ UNCHANGED <<buffer, buffer_head>>
        /\ reader'.call = reader.call /\ reader'.at = "return" /\ reader'.lost = reader.lost
        /\ got' = reader.pkt /\ Asking' = "none"
    BY <1>9 DEF PopAdvance, At, Answers, Asking
  <2>2. CASE reader.lost
    BY <2>1, <2>2, LostSlips DEF ReaderInv
  <2>3. CASE ~reader.lost
    <3>1. ~buffer_empty /\ reader.pkt = buffer[buffer_tail]
      BY <2>1, <2>3 DEF At, ReaderInv
    <3>2. Unread # <<>> /\ Head(Unread) = reader.pkt
      BY <3>1, UnreadFacts
    <3>3. buffer_tail' = After(buffer_tail)
      BY <1>9, <2>3 DEF PopAdvance, Or
    <3>4. Unread' = Tail(Unread)
      BY <2>1, <3>1, <3>3, AdvanceTails
    <3>5. Queue!Answer
      BY <2>1, <3>2, <3>4 DEF Queue!Answer
    <3> QED
      BY <2>1, <3>5 DEF At, ReaderInv, QueueStep, Queue!Next
  <2> QED
    BY <2>2, <2>3
<1>10. CASE Return
  <2>1. /\ reader' = Idle /\ reader.at = "return" /\ UNCHANGED <<buffer, buffer_head, buffer_tail>>
        /\ Asking = "none" /\ Asking' = "none" /\ ~reader'.lost /\ reader'.call = "none"
    BY <1>10 DEF Return, At, Idle, Asking
  <2>2. CASE reader.lost
    BY <2>1, <2>2, LostSlips DEF ReaderInv, At
  <2>3. CASE ~reader.lost
    <3>1. UNCHANGED <<Unread, got>>
      BY <1>1, <1>10, <2>1, <2>3 DEF Return, Or
    <3> QED
      BY <2>1, <2>3, <3>1 DEF QueueStep, ReaderInv, At, Asking
  <2> QED
    BY <2>2, <2>3
<1> QED
  BY <1>2, <1>3, <1>4, <1>5, <1>6, <1>7, <1>8, <1>9, <1>10 DEF Read

(* Keys pushed at any step of the reader's and registers lost at any, each *)
(* step of the driver is a step of KeyQueue or changes nothing there.      *)
THEOREM QueueCorrect == KbSpec => ImplementsQueue
<1>1. KbInit => ReaderInv /\ Queue!Init
  <2> SUFFICES ASSUME KbInit PROVE ReaderInv /\ Queue!Init
    OBVIOUS
  <2>1. KbTypeOK /\ buffer_empty
    BY InitTypes DEF KbInit, buffer_empty
  <2>2. Unread \in Seq(Packet) /\ Len(Unread) = 0
    BY <2>1, UnreadFacts
  <2>3. Unread = <<>>
    BY <2>2
  <2> QED
    BY <2>3 DEF KbInit, Idle, ReaderInv, At, Queue!Init
<1>2. KbTypeOK /\ KbTypeOK' /\ QueueTyped' /\ ReaderInv /\ [KbNext]_kb_vars
        => ReaderInv' /\ QueueStep
  <2> SUFFICES ASSUME KbTypeOK, KbTypeOK', QueueTyped', ReaderInv, [KbNext]_kb_vars PROVE ReaderInv' /\ QueueStep
    OBVIOUS
  <2>1. CASE UNCHANGED kb_vars
    BY <2>1 DEF kb_vars, ReaderInv, At, buffer_empty, QueueStep, Unread, Waiting, Asking
  <2> QED
    BY <2>1, TypeQueues, ReadAnswers DEF KbNext
<1>3. QueueStep <=> [Queue!Next]_(Queue!queue_vars)
  BY DEF QueueStep, Queue!queue_vars, Asking
<1> QED
  BY <1>1, <1>2, <1>3, KbTypeCorrect, UnreadTyped, PTL DEF KbSpec, ImplementsQueue, Queue!Spec
=============================================================================
