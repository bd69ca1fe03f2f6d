----------------------------- MODULE IrqProofs -----------------------------
(***************************************************************************)
(* For every set of devices, every calls before sti and every width of the *)
(* tick count: nothing is in service between handlers, no interrupt is lost*)
(* for want of a gate, and no scancode waits without a request; for lines  *)
(* up to 39, the masks are those asked for.                                *)
(***************************************************************************)
EXTENDS Irq, TLAPS

(* Interrupts are on, and handlers run, only once kearly is done.          *)
Flow ==
  /\ IF_flag => handling = NoHandler /\ Booted
  /\ handling.at = "none" => handling = NoHandler
  /\ handling.at # "none" => Booted
  /\ stage > 1 => mapped
  /\ stage > 3 => gates
  /\ ~lost

(* What is in service at each place of a handler.                          *)
Service ==
  /\ InServiceMatched
  /\ handling.at = "eoi" =>
       /\ isr["PIC2"] \subseteq {BitOf(handling.irq)}
       /\ isr["PIC1"] \subseteq {IF handling.irq < 8 THEN handling.irq ELSE CASCADE_IRQ}
       /\ handling.irq < 8 => isr["PIC2"] = {}
  /\ handling.at = "body" /\ handling.irq < 8 => isr["PIC2"] = {}
  /\ handling.at = "eoi1" => isr["PIC2"] = {} /\ isr["PIC1"] \subseteq {CASCADE_IRQ}
  /\ handling.at = "iret" => isr = None

Keys == KeyPending /\ (stage = 1 /\ full => early)

IInv == IrqTypeOK /\ Flow /\ Service /\ Keys

-----------------------------------------------------------------------------
(* Facts.                                                                  *)

(* The steps of kearly.                                                    *)
LEMMA KearlyFacts ==
  /\ Len(kearly) = 6
  /\ kearly[1] = "pic_remap" /\ kearly[2] = "pic_disable" /\ kearly[3] = "idt_init"
  /\ kearly[4] = "pit_init" /\ kearly[5] = "irq_clear_mask" /\ kearly[6] = "sti"
BY DEF kearly

(* When which step runs.                                                   *)
LEMMA RunsWhen ==
  ASSUME IrqTypeOK, NEW name, Runs(name)
  PROVE  /\ handling = NoHandler /\ stage \in 1 .. 6 /\ stage' = stage + 1 /\ kearly[stage] = name
<1>1. stage \in 1 .. 7 /\ stage # 7
  BY KearlyFacts DEF Runs, Booted, IrqTypeOK
<1> QED
  BY <1>1 DEF Runs

(* The two names of a line.                                                *)
LEMMA LineFacts ==
  /\ \A i \in Line : ChipOf(i) \in Chip /\ BitOf(i) \in Bit
  /\ \A i, j \in Line : ChipOf(i) = ChipOf(j) /\ BitOf(i) = BitOf(j) => i = j
BY DEF Line, Chip, Bit, ChipOf, BitOf

(* A remainder is below what divides.                                      *)
LEMMA ModFacts == \A n \in Nat, w \in Nat \ {0} : n % w \in 0 .. w - 1
OBVIOUS

(* The lines of no bits and of all.                                        *)
LEMMA LinesOfAll == LinesOf(None) = {} /\ LinesOf(All) = Line
BY LineFacts DEF LinesOf, None, All

(* A set with at most one element ends at its first.                       *)
LEMMA FirstOfOne ==
  ASSUME NEW b \in Int, NEW S, S \subseteq {b} PROVE S \ First(S) = {}
<1>1. \A s \in S : s = b
  OBVIOUS
<1>2. b <= b
  OBVIOUS
<1> QED
  BY <1>1, <1>2 DEF First

-----------------------------------------------------------------------------
(* What an action that leaves its variables alone preserves.               *)

(* The registers and flags the flow is about are unchanged.                *)
LEMMA FlowKept ==
  ASSUME Flow, UNCHANGED <<IF_flag, handling, stage, mapped, gates, lost>> PROVE Flow'
BY DEF Flow, Booted, NoHandler, kearly

(* No handler moves and nothing enters or leaves service.                  *)
LEMMA ServiceKept ==
  ASSUME Service, UNCHANGED <<isr, handling>> PROVE Service'
BY DEF Service, InServiceMatched, NoHandler, None, CASCADE_IRQ, ChipOf, BitOf

(* No key comes, is read or loses its request.                             *)
LEMMA KeysKept ==
  ASSUME Keys, UNCHANGED <<full, early, irr, stage, handling>> PROVE Keys'
BY DEF Keys, KeyPending, Kbd, BitOf

(* A chip's bits with one more, or one less, are still a chip's bits.      *)
LEMMA WithFacts ==
  ASSUME NEW r \in Lines, NEW c \in Chip, NEW b \in Bit
  PROVE  With(r, c, b) \in Lines /\ Without(r, c, b) \in Lines
BY DEF With, Without, Lines

-----------------------------------------------------------------------------
(* One lemma per action.                                                   *)

(* A device's line rises.                                                  *)
LEMMA RaiseKeeps ==
  ASSUME IInv, Raise PROVE IInv'
<1>1. PICK i \in Wire \ {Kbd} : irr' = With(irr, ChipOf(i), BitOf(i))
  BY DEF Raise
<1>2. UNCHANGED <<imr, isr, full, IF_flag, handling, stage, mapped, gates>>
      /\ UNCHANGED <<tick_count, asked, early, lost>>
  BY DEF Raise, cpu, kernel, history
<1>3. irr' \in Lines
  BY <1>1, IrqAssumption, LineFacts, WithFacts DEF IInv, IrqTypeOK
<1>4. BitOf(Kbd) \in irr["PIC1"] => BitOf(Kbd) \in irr'["PIC1"]
  BY <1>1 DEF With, IInv, IrqTypeOK, Lines, Chip
<1>5. IrqTypeOK'
  BY <1>2, <1>3 DEF IInv, IrqTypeOK, kearly
<1>6. Keys'
  BY <1>2, <1>4 DEF IInv, Keys, KeyPending, Kbd, BitOf
<1> QED
  BY <1>2, <1>5, <1>6, FlowKept, ServiceKept DEF IInv

(* A scancode comes.                                                       *)
LEMMA KeyComesKeeps ==
  ASSUME IInv, KeyComes PROVE IInv'
<1>1. irr' = With(irr, "PIC1", BitOf(Kbd)) /\ full' = TRUE /\ early' = (stage = 1)
  BY DEF KeyComes
<1>2. UNCHANGED <<imr, isr, IF_flag, handling, stage, mapped, gates>>
      /\ UNCHANGED <<tick_count, asked, lost>>
  BY DEF KeyComes, cpu, kernel
<1>3. irr' \in Lines
  BY <1>1, WithFacts DEF IInv, IrqTypeOK, BitOf, Kbd, Bit, Chip
<1>4. BitOf(Kbd) \in irr'["PIC1"]
  BY <1>1 DEF With, IInv, IrqTypeOK, Lines, Chip
<1>5. IrqTypeOK'
  BY <1>1, <1>2, <1>3 DEF IInv, IrqTypeOK, kearly
<1>6. Keys'
  BY <1>1, <1>2, <1>4 DEF IInv, Keys, KeyPending, Kbd, BitOf
<1> QED
  BY <1>2, <1>5, <1>6, FlowKept, ServiceKept DEF IInv

(* The places of a handler are its only ones.                              *)
LEMMA PlaceFacts ==
  ASSUME IrqTypeOK, NEW at \in {"none", "body", "eoi", "eoi1", "iret"}
  PROVE  LET h == [handling EXCEPT !.at = at]
         IN  /\ h \in [irq : Line, at : {"none", "body", "eoi", "eoi1", "iret"}]
             /\ h.irq = handling.irq /\ h.at = at
BY DEF IrqTypeOK

(* What a handler of a line does before its end of interrupt leaves it in  *)
(* service.                                                                *)
LEMMA BodyEnds ==
  ASSUME IrqTypeOK, Service, Handling("body"),
         handling' = [handling EXCEPT !.at = "eoi"], UNCHANGED isr
  PROVE  Service'
<1>1. handling.at = "body" /\ handling'.irq = handling.irq /\ handling'.at = "eoi"
  BY PlaceFacts DEF Handling
<1>2. handling' # NoHandler
  BY <1>1 DEF NoHandler
<1>3. handling.irq < 8 => isr["PIC2"] = {}
  BY <1>1 DEF Service
<1> QED
  BY <1>1, <1>2, <1>3 DEF Service, InServiceMatched, CASCADE_IRQ, ChipOf, BitOf, None, NoHandler

(* A handler that runs keeps interrupts off.                               *)
LEMMA FlowGoes ==
  ASSUME IrqTypeOK, Flow, handling.at # "none", handling'.at # "none",
         UNCHANGED <<IF_flag, stage, mapped, gates, lost>>
  PROVE  Flow'
<1>1. handling # NoHandler /\ ~IF_flag
  BY DEF Flow, NoHandler
<1> QED
  BY <1>1 DEF Flow, Booted, NoHandler, kearly

(* A tick, an unhandled line, the end of the keyboard's loop.              *)
LEMMA BodyKeeps ==
  ASSUME IInv, pit_handler \/ irq_unhandled \/ keyboard_ends PROVE IInv'
<1>1. /\ handling' = [handling EXCEPT !.at = "eoi"] /\ Handling("body")
      /\ tick_count' \in {tick_count, (tick_count + 1) % WORD}
  BY DEF pit_handler, irq_unhandled, keyboard_ends
<1>2. UNCHANGED <<imr, irr, isr, full, IF_flag, stage, mapped, gates, asked, early, lost>>
  BY DEF pit_handler, irq_unhandled, keyboard_ends, kernel, history
<1>3. handling.irq = Kbd => ~full
  BY DEF pit_handler, irq_unhandled, keyboard_ends, Kbd, Timer
<1>4. /\ handling' \in [irq : Line, at : {"none", "body", "eoi", "eoi1", "iret"}]
      /\ handling'.irq = handling.irq /\ handling'.at = "eoi" /\ handling.at = "body"
  BY <1>1, PlaceFacts DEF IInv, Handling
<1>5. tick_count' \in 0 .. WORD - 1
  <2>1. tick_count \in 0 .. WORD - 1 /\ tick_count + 1 \in Nat /\ WORD \in Nat \ {0}
    BY IrqAssumption DEF IInv, IrqTypeOK
  <2> QED
    BY <1>1, <2>1, ModFacts
<1>6. IrqTypeOK'
  BY <1>2, <1>4, <1>5 DEF IInv, IrqTypeOK, kearly
<1>7. Keys'
  BY <1>2, <1>3, <1>4 DEF IInv, Keys, KeyPending, Kbd, BitOf
<1>8. Service'
  BY <1>1, <1>2, BodyEnds DEF IInv
<1>9. Flow'
  BY <1>2, <1>4, FlowGoes DEF IInv
<1> QED
  BY <1>2, <1>6, <1>7, <1>8, <1>9 DEF IInv

(* A turn of the keyboard's loop.                                          *)
LEMMA ReadsKeeps ==
  ASSUME IInv, keyboard_reads PROVE IInv'
<1>1. /\ full' = FALSE /\ early' = FALSE
      /\ irr' \in {irr, Without(irr, "PIC1", BitOf(Kbd))}
  BY DEF keyboard_reads
<1>2. UNCHANGED <<imr, isr, IF_flag, handling, stage, mapped, gates>>
      /\ UNCHANGED <<tick_count, asked, lost>>
  BY DEF keyboard_reads, cpu, kernel
<1>3. irr' \in Lines
  BY <1>1, WithFacts DEF IInv, IrqTypeOK, BitOf, Kbd, Bit, Chip
<1>4. IrqTypeOK'
  BY <1>1, <1>2, <1>3 DEF IInv, IrqTypeOK, kearly
<1>5. Keys'
  BY <1>1 DEF Keys, KeyPending
<1> QED
  BY <1>2, <1>4, <1>5, FlowKept, ServiceKept DEF IInv

(* An interrupt enters its handler; its line, and the cascade with one of  *)
(* the second chip, are all that is in service, if anything is.            *)
LEMMA EntersKeeps ==
  ASSUME IInv, NEW i \in Line, i # CASCADE_IRQ, Enters(i), IF_flag,
         irr' \in Lines, isr' \in Lines,
         i # Kbd => (BitOf(Kbd) \in irr["PIC1"] => BitOf(Kbd) \in irr'["PIC1"]),
         isr'["PIC2"] \subseteq {BitOf(i)},
         isr'["PIC1"] \subseteq {IF i < 8 THEN i ELSE CASCADE_IRQ},
         i \in {7, 15} \/ BitOf(i) \in isr'[ChipOf(i)],
         i < 8 => isr'["PIC2"] = {}
  PROVE  IInv'
<1>1. /\ handling' = [irq |-> i, at |-> "body"]
      /\ IF_flag' = FALSE
      /\ lost' = (lost \/ ~(mapped /\ gates))
  BY DEF Enters
<1>2. UNCHANGED <<imr, full, stage, mapped, gates, tick_count, asked, early>>
  BY DEF Enters, kernel
<1>3. Booted /\ handling = NoHandler /\ stage = 7 /\ mapped /\ gates /\ ~lost
  BY KearlyFacts DEF IInv, Flow, Booted
<1>4. handling'.irq = i /\ handling'.at = "body" /\ handling' # NoHandler
  BY <1>1 DEF NoHandler
<1>5. IrqTypeOK'
  BY <1>1, <1>2, <1>3 DEF IInv, IrqTypeOK, kearly
<1>6. Flow'
  BY <1>1, <1>2, <1>3, <1>4 DEF Flow, Booted, NoHandler, kearly
<1>7. Service'
  BY <1>4 DEF Service, InServiceMatched, NoHandler, None, CASCADE_IRQ, ChipOf, BitOf
<1>8. Keys'
  <2>1. handling.irq # Kbd
    BY <1>3 DEF NoHandler, Kbd
  <2> QED
    BY <1>2, <1>3, <1>4, <2>1 DEF IInv, Keys, KeyPending, Kbd, BitOf
<1> QED
  BY <1>2, <1>5, <1>6, <1>7, <1>8 DEF IInv

(* A request is taken.                                                     *)
LEMMA InterruptKeeps ==
  ASSUME IInv, NEW i \in Line, Interrupt(i) PROVE IInv'
<1>1. /\ IF_flag /\ Signals(i) /\ Enters(i)
      /\ irr' = Without(irr, ChipOf(i), BitOf(i))
      /\ isr' = [c \in Chip |-> isr[c] \cup (IF c = ChipOf(i) THEN {BitOf(i)} ELSE {})
                                \cup (IF c = "PIC1" /\ i >= 8 THEN {CASCADE_IRQ} ELSE {})]
  BY DEF Interrupt
<1>2. isr["PIC1"] = {} /\ isr["PIC2"] = {}
  BY <1>1 DEF IInv, Flow, Service, InServiceMatched, None, Chip
<1>3. i # CASCADE_IRQ
  BY <1>1 DEF Signals, CASCADE_IRQ
<1>4. irr' \in Lines
  BY <1>1, LineFacts, WithFacts DEF IInv, IrqTypeOK
<1>5. i # Kbd => (BitOf(Kbd) \in irr["PIC1"] => BitOf(Kbd) \in irr'["PIC1"])
  BY <1>1 DEF Without, IInv, IrqTypeOK, Lines, Chip, ChipOf, BitOf, Kbd, Line
<1>6. /\ isr'["PIC1"] = (IF i < 8 THEN {i} ELSE {CASCADE_IRQ})
      /\ isr'["PIC2"] = (IF i < 8 THEN {} ELSE {i - 8})
  BY <1>1, <1>2 DEF Chip, ChipOf, BitOf, Line
<1>7. isr' \in Lines
  BY <1>1, LineFacts DEF IInv, IrqTypeOK, Lines, Bit, CASCADE_IRQ
<1>8. /\ isr'["PIC2"] \subseteq {BitOf(i)}
      /\ isr'["PIC1"] \subseteq {IF i < 8 THEN i ELSE CASCADE_IRQ}
      /\ i \in {7, 15} \/ BitOf(i) \in isr'[ChipOf(i)]
      /\ i < 8 => isr'["PIC2"] = {}
  BY <1>6 DEF BitOf, ChipOf
<1> QED
  BY <1>1, <1>3, <1>4, <1>5, <1>7, <1>8, EntersKeeps

(* A request gone.                                                         *)
LEMMA SpuriousKeeps ==
  ASSUME IInv, Spurious PROVE IInv'
<1>1. IF_flag /\ irr' = irr
  BY DEF Spurious
<1>2. isr["PIC1"] = {} /\ isr["PIC2"] = {} /\ isr \in Lines /\ irr \in Lines
  BY <1>1 DEF IInv, IrqTypeOK, Flow, Service, InServiceMatched, None, Chip
<1>3. CASE UNCHANGED isr /\ Enters(7)
  <2>1. isr' = isr /\ 7 \in Line /\ 7 # CASCADE_IRQ /\ 7 < 8
    BY <1>3 DEF Line, CASCADE_IRQ
  <2> QED
    BY <1>1, <1>2, <1>3, <2>1, EntersKeeps
<1>4. CASE isr' = With(isr, "PIC1", CASCADE_IRQ) /\ Enters(15)
  <2>1. isr' \in Lines /\ isr'["PIC1"] = {CASCADE_IRQ} /\ isr'["PIC2"] = {}
    BY <1>2, <1>4 DEF With, Lines, Chip, CASCADE_IRQ, Bit
  <2>2. 15 \in Line /\ 15 # CASCADE_IRQ /\ ~(15 < 8)
    BY DEF Line, CASCADE_IRQ
  <2> QED
    BY <1>1, <1>2, <1>4, <2>1, <2>2, EntersKeeps
<1> QED
  BY <1>3, <1>4 DEF Spurious

(* The end of interrupt, told to the chips one after the other.            *)
LEMMA EoiKeeps ==
  ASSUME IInv, pic_send_eoi PROVE IInv'
<1>1. UNCHANGED <<imr, irr, full, IF_flag, stage, mapped, gates>>
      /\ UNCHANGED <<tick_count, asked, early, lost>>
  BY DEF pic_send_eoi, kernel, history
<1>2. PICK at \in {"eoi1", "iret"} : handling' = [handling EXCEPT !.at = at]
  BY DEF pic_send_eoi
<1>3. /\ handling' \in [irq : Line, at : {"none", "body", "eoi", "eoi1", "iret"}]
      /\ handling'.irq = handling.irq /\ handling'.at = at
  BY <1>2, PlaceFacts DEF IInv
<1>4. handling.at \in {"eoi", "eoi1"}
  BY DEF pic_send_eoi, Handling
<1>5. PICK c \in Chip : Ends(c) /\ (c = "PIC2" <=> at = "eoi1")
  BY <1>2, <1>3 DEF pic_send_eoi, Chip
<1>6. isr \in Lines /\ isr' = [isr EXCEPT ![c] = isr[c] \ First(isr[c])]
  BY <1>5 DEF Ends, IInv, IrqTypeOK
<1>7. isr' \in Lines
  BY <1>6 DEF Lines
<1>8. IrqTypeOK'
  BY <1>1, <1>3, <1>7 DEF IInv, IrqTypeOK, kearly
<1>9. Flow'
  BY <1>1, <1>3, <1>4, FlowGoes DEF IInv
<1>10. Keys'
  BY <1>1, <1>3, <1>4 DEF IInv, Keys, KeyPending, Kbd, BitOf
<1>11. Service'
  <2>1. handling'.at # "none" /\ handling'.at # "body" /\ handling'.at # "eoi" /\ handling' # NoHandler
    BY <1>3 DEF NoHandler
  <2>2. CASE at = "eoi1"
    <3>1. handling.at = "eoi" /\ handling.irq >= 8 /\ c = "PIC2"
      BY <1>2, <1>3, <1>5, <2>2 DEF pic_send_eoi, Handling
    <3>2. isr["PIC2"] \subseteq {BitOf(handling.irq)} /\ isr["PIC1"] \subseteq {CASCADE_IRQ}
      BY <3>1 DEF IInv, Service, IrqTypeOK, Line
    <3>3. BitOf(handling.irq) \in Int
      BY LineFacts DEF IInv, IrqTypeOK, Bit
    <3>4. isr'["PIC2"] = {} /\ isr'["PIC1"] = isr["PIC1"]
      BY <1>6, <3>1, <3>2, <3>3, FirstOfOne DEF Lines, Chip
    <3> QED
      BY <1>3, <2>1, <2>2, <3>2, <3>4 DEF Service, InServiceMatched, CASCADE_IRQ
  <2>3. CASE at = "iret"
    <3>1. c = "PIC1" /\ (handling.at = "eoi1" \/ (handling.at = "eoi" /\ handling.irq < 8))
      BY <1>2, <1>3, <1>5, <2>3 DEF pic_send_eoi, Handling, Chip
    <3>2. isr["PIC2"] = {}
      BY <3>1 DEF IInv, Service
    <3>3. PICK b \in Int : isr["PIC1"] \subseteq {b}
      BY <3>1 DEF IInv, Service, IrqTypeOK, Line, CASCADE_IRQ
    <3>4. isr'["PIC1"] = {} /\ isr'["PIC2"] = {}
      BY <1>6, <3>1, <3>2, <3>3, FirstOfOne DEF Lines, Chip
    <3>5. isr' = None
      BY <1>7, <3>4 DEF Lines, Chip, None
    <3>6. handling'.at # "eoi1" /\ handling'.at = "iret"
      BY <1>3, <2>3
    <3> QED
      BY <2>1, <3>5, <3>6 DEF Service, InServiceMatched, None
  <2> QED
    BY <2>2, <2>3
<1> QED
  BY <1>1, <1>8, <1>9, <1>10, <1>11 DEF IInv

(* The return to what was interrupted.                                     *)
LEMMA IretKeeps ==
  ASSUME IInv, Iret PROVE IInv'
<1>1. handling.at = "iret" /\ handling' = NoHandler /\ IF_flag' = TRUE
  BY DEF Iret, Handling
<1>2. UNCHANGED <<imr, irr, isr, full, stage, mapped, gates, tick_count, asked, early, lost>>
  BY DEF Iret, kernel, history
<1>3. Booted /\ isr = None
  BY <1>1 DEF IInv, Flow, Service
<1>4. IrqTypeOK'
  BY <1>1, <1>2 DEF IInv, IrqTypeOK, kearly, NoHandler, Line
<1>5. Flow'
  BY <1>1, <1>2, <1>3 DEF IInv, Flow, Booted, NoHandler, kearly
<1>6. Service'
  BY <1>1, <1>2, <1>3 DEF Service, InServiceMatched, NoHandler, None
<1>7. Keys'
  BY <1>1, <1>2 DEF IInv, Keys, KeyPending, Kbd, BitOf, NoHandler
<1> QED
  BY <1>2, <1>4, <1>5, <1>6, <1>7 DEF IInv

(* A step of kearly, up to its sti, runs with no handler and interrupts    *)
(* off.                                                                    *)
LEMMA StageMoves ==
  ASSUME IInv, NEW name, Runs(name),
         UNCHANGED <<IF_flag, handling, lost>>, mapped => mapped', gates => gates',
         name = "pic_remap" => mapped', name = "idt_init" => gates'
  PROVE  /\ stage \in 1 .. 6 /\ stage' = stage + 1 /\ kearly[stage] = name
         /\ stage' \in 1 .. Len(kearly) + 1
         /\ handling = NoHandler /\ ~IF_flag /\ isr = None
         /\ Flow'
<1>1. handling = NoHandler /\ stage \in 1 .. 6 /\ stage' = stage + 1 /\ kearly[stage] = name
  BY RunsWhen DEF IInv
<1>2. stage # 7 /\ Len(kearly) = 6
  BY <1>1, KearlyFacts
<1>3. ~IF_flag /\ isr = None /\ ~lost
  BY <1>1, <1>2 DEF IInv, Flow, Booted, Service, InServiceMatched
<1>4. stage = 1 => name = "pic_remap"
  BY <1>1, KearlyFacts
<1>5. stage = 3 => name = "idt_init"
  BY <1>1, KearlyFacts
<1>6. stage' > 1 => mapped'
  BY <1>1, <1>4 DEF IInv, Flow
<1>7. stage' > 3 => gates'
  BY <1>1, <1>5 DEF IInv, Flow
<1>8. Flow'
  BY <1>1, <1>3, <1>6, <1>7 DEF Flow, Booted, NoHandler
<1> QED
  BY <1>1, <1>2, <1>3, <1>8

(* The controllers start again.                                            *)
LEMMA RemapKeeps ==
  ASSUME IInv, pic_remap PROVE IInv'
<1>1. /\ Runs("pic_remap")
      /\ imr' = None /\ irr' = None /\ isr' = None /\ mapped' = TRUE /\ asked' = {}
  BY DEF pic_remap
<1>2. UNCHANGED <<full, IF_flag, handling, gates, tick_count, early, lost>>
  BY DEF pic_remap, cpu
<1>3. /\ stage' = stage + 1 /\ stage' \in 1 .. Len(kearly) + 1 /\ Flow'
      /\ kearly[stage] = "pic_remap" /\ stage \in 1 .. 6 /\ handling = NoHandler
  BY <1>1, <1>2, StageMoves
<1>4. stage = 1
  BY <1>3, KearlyFacts
<1>5. None \in Lines
  BY DEF None, Lines
<1>6. IrqTypeOK'
  BY <1>1, <1>2, <1>3, <1>5 DEF IInv, IrqTypeOK, kearly
<1>7. Service'
  BY <1>1, <1>2, <1>3 DEF Service, InServiceMatched, NoHandler, None
<1>8. Keys'
  BY <1>2, <1>3, <1>4 DEF IInv, Keys, KeyPending
<1> QED
  BY <1>3, <1>6, <1>7, <1>8 DEF IInv

(* The keys of a step of kearly after pic_remap.                           *)
LEMMA StageKeys ==
  ASSUME Keys, stage \in Nat \ {0}, stage' = stage + 1, UNCHANGED <<full, early, irr, handling>>
  PROVE  Keys'
BY DEF Keys, KeyPending, Kbd, BitOf

(* Everything is masked.                                                   *)
LEMMA DisableKeeps ==
  ASSUME IInv, pic_disable PROVE IInv'
<1>1. Runs("pic_disable") /\ imr' = All /\ asked' = Line
  BY DEF pic_disable
<1>2. UNCHANGED <<irr, isr, full, IF_flag, handling, mapped, gates, tick_count, early, lost>>
  BY DEF pic_disable, cpu
<1>3. /\ stage' = stage + 1 /\ stage' \in 1 .. Len(kearly) + 1 /\ Flow'
      /\ kearly[stage] = "pic_disable" /\ stage \in 1 .. 6
  BY <1>1, <1>2, StageMoves
<1>4. stage = 2
  BY <1>3, KearlyFacts
<1>5. All \in Lines
  BY DEF All, Lines
<1>6. IrqTypeOK'
  BY <1>1, <1>2, <1>3, <1>5 DEF IInv, IrqTypeOK, kearly
<1>7. Service' /\ Keys'
  BY <1>2, <1>3, ServiceKept, StageKeys DEF IInv
<1> QED
  BY <1>3, <1>6, <1>7 DEF IInv

(* The gates, and the timer.                                               *)
LEMMA SetUpKeeps ==
  ASSUME IInv, idt_init \/ pit_init PROVE IInv'
<1>1. PICK name \in {"idt_init", "pit_init"} : Runs(name) /\ (name = "idt_init" => gates')
  BY DEF idt_init, pit_init
<1>2. UNCHANGED <<imr, irr, isr, full, IF_flag, handling, mapped>>
      /\ UNCHANGED <<tick_count, asked, early, lost>> /\ gates' \in {gates, TRUE}
  BY DEF idt_init, pit_init, cpu, history
<1>3. /\ stage' = stage + 1 /\ stage' \in 1 .. Len(kearly) + 1 /\ Flow'
      /\ kearly[stage] = name /\ stage \in 1 .. 6
  <2>1. name # "pic_remap"
    BY <1>1
  <2>2. (mapped => mapped') /\ (gates => gates')
    BY DEF idt_init, pit_init
  <2> QED
    BY <1>1, <1>2, <2>1, <2>2, StageMoves
<1>4. IrqTypeOK'
  BY <1>2, <1>3 DEF IInv, IrqTypeOK, kearly
<1>5. Service' /\ Keys'
  BY <1>2, <1>3, ServiceKept, StageKeys DEF IInv
<1> QED
  BY <1>3, <1>4, <1>5 DEF IInv

(* Interrupts on.                                                          *)
LEMMA StiKeeps ==
  ASSUME IInv, sti PROVE IInv'
<1>1. Runs("sti") /\ IF_flag' = TRUE
  BY DEF sti
<1>2. UNCHANGED <<imr, irr, isr, full, handling, mapped, gates, tick_count, asked, early, lost>>
  BY DEF sti, history
<1>3. handling = NoHandler /\ stage \in 1 .. 6 /\ stage' = stage + 1 /\ kearly[stage] = "sti"
  BY <1>1, RunsWhen DEF IInv
<1>4. stage = 6 /\ stage' = 7 /\ Len(kearly) = 6
  BY <1>3, KearlyFacts
<1>5. IrqTypeOK'
  BY <1>1, <1>2, <1>4 DEF IInv, IrqTypeOK, kearly
<1>6. Service' /\ Keys'
  BY <1>2, <1>3, ServiceKept, StageKeys DEF IInv
<1>7. mapped /\ gates /\ ~lost
  BY <1>4 DEF IInv, Flow
<1>8. Flow'
  BY <1>2, <1>3, <1>4, <1>7 DEF Flow, Booted, NoHandler, kearly
<1> QED
  BY <1>5, <1>6, <1>8 DEF IInv

(* A call changes the bits of one port.                                    *)
LEMMA ShiftTypes ==
  ASSUME NEW r \in Lines, NEW i \in 0 .. 255, NEW S, S \subseteq Line
  PROVE  /\ [r EXCEPT ![ChipOf(i)] = @ \cup Shifted(i)] \in Lines
         /\ [r EXCEPT ![ChipOf(i)] = @ \ Shifted(i)] \in Lines
         /\ S \cup ({i} \cap Line) \subseteq Line /\ S \ {i} \subseteq Line
<1>1. ChipOf(i) \in Chip /\ Shifted(i) \subseteq Bit
  BY DEF ChipOf, Chip, Shifted
<1> QED
  BY <1>1 DEF Lines

(* kearly clears the keyboard's line.                                      *)
LEMMA UnmasksKeeps ==
  ASSUME IInv, kearly_unmasks PROVE IInv'
<1>1. /\ Runs("irq_clear_mask")
      /\ imr' = [imr EXCEPT ![ChipOf(Kbd)] = @ \ Shifted(Kbd)] /\ asked' = asked \ {Kbd}
  BY DEF kearly_unmasks, Unmasks
<1>2. UNCHANGED <<irr, isr, full, IF_flag, handling, mapped, gates, tick_count, early, lost>>
  BY DEF kearly_unmasks, cpu
<1>3. /\ stage' = stage + 1 /\ stage' \in 1 .. Len(kearly) + 1 /\ Flow'
      /\ kearly[stage] = "irq_clear_mask" /\ stage \in 1 .. 6
  BY <1>1, <1>2, StageMoves
<1>4. imr' \in Lines /\ asked' \subseteq Line
  <2>1. Kbd \in 0 .. 255 /\ imr \in Lines /\ asked \subseteq Line
    BY DEF Kbd, IInv, IrqTypeOK
  <2> QED
    BY <1>1, <2>1, ShiftTypes
<1>5. IrqTypeOK'
  BY <1>2, <1>3, <1>4 DEF IInv, IrqTypeOK, kearly
<1>6. Service' /\ Keys'
  BY <1>2, <1>3, ServiceKept, StageKeys DEF IInv
<1> QED
  BY <1>3, <1>5, <1>6 DEF IInv

(* Other calls before sti.                                                 *)
LEMMA CallsKeep ==
  ASSUME IInv, irq_set_mask \/ irq_clear_mask PROVE IInv'
<1>1. PICK i \in InLine : Masks(i) \/ Unmasks(i)
  BY DEF irq_set_mask, irq_clear_mask
<1>2. UNCHANGED <<irr, isr, full, IF_flag, handling, stage, mapped, gates>>
      /\ UNCHANGED <<tick_count, early, lost>>
  BY DEF irq_set_mask, irq_clear_mask, cpu, kernel
<1>3. imr' \in Lines /\ asked' \subseteq Line
  <2>1. i \in 0 .. 255 /\ imr \in Lines /\ asked \subseteq Line
    BY IrqAssumption DEF IInv, IrqTypeOK
  <2> QED
    BY <1>1, <2>1, ShiftTypes DEF Masks, Unmasks
<1>4. IrqTypeOK'
  BY <1>2, <1>3 DEF IInv, IrqTypeOK, kearly
<1> QED
  BY <1>2, <1>4, FlowKept, ServiceKept, KeysKept DEF IInv

-----------------------------------------------------------------------------
(* The invariant.                                                          *)

(* Before kearly: nothing is in service, a key may already wait.           *)
LEMMA InitHolds == IrqInit => IInv
<1> SUFFICES ASSUME IrqInit PROVE IInv
  OBVIOUS
<1>1. imr \in Lines /\ isr \in Lines
  BY DEF IrqInit, None, All, Lines
<1>2. irr \in Lines
  <2>1. PICK w \in SUBSET Wire : irr = [c \in Chip |-> {BitOf(i) : i \in {j \in w : ChipOf(j) = c}}]
    BY DEF IrqInit
  <2>2. ASSUME NEW c \in Chip PROVE {BitOf(i) : i \in {j \in w : ChipOf(j) = c}} \subseteq Bit
    BY LineFacts, IrqAssumption
  <2> QED
    BY <2>1, <2>2 DEF Lines
<1>3. IrqTypeOK
  <2>1. LinesOf(imr) \subseteq Line /\ 0 \in 0 .. WORD - 1 /\ 1 \in 1 .. Len(kearly) + 1
    BY IrqAssumption, KearlyFacts DEF LinesOf
  <2>2. NoHandler \in [irq : Line, at : {"none", "body", "eoi", "eoi1", "iret"}]
    BY DEF NoHandler, Line
  <2>3. /\ full \in BOOLEAN /\ IF_flag = FALSE /\ handling = NoHandler
        /\ stage = 1 /\ mapped = FALSE /\ gates = FALSE
        /\ tick_count = 0 /\ asked = LinesOf(imr) /\ early \in BOOLEAN /\ lost = FALSE
    BY DEF IrqInit
  <2> QED
    BY <1>1, <1>2, <2>1, <2>2, <2>3 DEF IrqTypeOK
<1>4. Flow /\ Service
  BY DEF IrqInit, Flow, Service, InServiceMatched, NoHandler
<1>5. Keys
  BY DEF IrqInit, Keys, KeyPending
<1> QED
  BY <1>3, <1>4, <1>5 DEF IInv

(* A step that changes nothing.                                            *)
LEMMA StutterKeeps ==
  ASSUME IInv, UNCHANGED irq_vars PROVE IInv'
<1>1. UNCHANGED <<imr, irr, isr, full, IF_flag, handling, stage, mapped, gates>>
      /\ UNCHANGED <<tick_count, asked, early, lost>>
  BY DEF irq_vars, cpu, kernel, history
<1>2. IrqTypeOK'
  BY <1>1 DEF IInv, IrqTypeOK, kearly
<1> QED
  BY <1>1, <1>2, FlowKept, ServiceKept, KeysKept DEF IInv

(* The invariant holds in every state of the specification.                *)
THEOREM IrqInvariance == IrqSpec => []IInv
<1>1. IInv /\ [IrqNext]_irq_vars => IInv'
  <2> SUFFICES ASSUME IInv, [IrqNext]_irq_vars PROVE IInv'
    OBVIOUS
  <2>1. CASE Raise \/ KeyComes
    BY <2>1, RaiseKeeps, KeyComesKeeps
  <2>2. CASE (\E i \in Line : Interrupt(i)) \/ Spurious
    BY <2>2, InterruptKeeps, SpuriousKeeps
  <2>3. CASE Handler
    BY <2>3, BodyKeeps, ReadsKeeps, EoiKeeps, IretKeeps DEF Handler
  <2>4. CASE Boot
    BY <2>4, RemapKeeps, DisableKeeps, SetUpKeeps, UnmasksKeeps, StiKeeps DEF Boot
  <2>5. CASE irq_set_mask \/ irq_clear_mask
    BY <2>5, CallsKeep
  <2>6. CASE UNCHANGED irq_vars
    BY <2>6, StutterKeeps
  <2> QED
    BY <2>1, <2>2, <2>3, <2>4, <2>5, <2>6 DEF IrqNext
<1> QED
  BY <1>1, InitHolds, PTL DEF IrqSpec

(* Registers, flags and places keep their shapes.                          *)
THEOREM IrqTypeCorrect == IrqSpec => []IrqTypeOK
<1>1. IInv => IrqTypeOK
  BY DEF IInv
<1> QED
  BY <1>1, IrqInvariance, PTL

(* Each end of interrupt ends what it should, on both chips: a handler     *)
(* finds its own line in service, and between handlers nothing is.         *)
THEOREM ServiceCorrect == IrqSpec => []InServiceMatched
<1>1. IInv => InServiceMatched
  BY DEF IInv, Service
<1> QED
  BY <1>1, IrqInvariance, PTL

-----------------------------------------------------------------------------
(* The masks.  They need an assumption of their own: the bit of a line from*)
(* 40 on is that of another.                                               *)

(* The shift of the lines that calls name stays clear of other lines.      *)
LinesFit == InLine \subseteq 0 .. 39

(* Clearing or setting a line's bit in its port's byte clears or sets that *)
(* line, and no other.                                                     *)
LEMMA ShiftFacts ==
  ASSUME NEW r \in Lines, NEW i \in 0 .. 39
  PROVE  /\ LinesOf([r EXCEPT ![ChipOf(i)] = @ \ Shifted(i)]) = LinesOf(r) \ {i}
         /\ LinesOf([r EXCEPT ![ChipOf(i)] = @ \cup Shifted(i)])
              = LinesOf(r) \cup ({i} \cap Line)
<1>1. ChipOf(i) \in Chip
  BY DEF ChipOf, Chip
<1>2. ASSUME NEW j \in Line
      PROVE  (ChipOf(j) = ChipOf(i) /\ BitOf(j) \in Shifted(i)) <=> j = i
  <2>1. i >= 8 => (i - 8) % 32 = i - 8
    OBVIOUS
  <2>2. Shifted(i) = (IF i < 8 THEN {i} ELSE {i - 8}) \cap Bit
    BY <2>1 DEF Shifted
  <2> QED
    BY <2>2 DEF Line, ChipOf, BitOf, Bit
<1> DEFINE a == [r EXCEPT ![ChipOf(i)] = @ \ Shifted(i)]
           b == [r EXCEPT ![ChipOf(i)] = @ \cup Shifted(i)]
<1>3. ASSUME NEW c \in Chip
      PROVE  /\ a[c] = IF c = ChipOf(i) THEN r[c] \ Shifted(i) ELSE r[c]
             /\ b[c] = IF c = ChipOf(i) THEN r[c] \cup Shifted(i) ELSE r[c]
  BY <1>1 DEF Lines
<1> HIDE DEF a, b
<1>4. ASSUME NEW j \in Line
      PROVE  /\ j \in LinesOf(a) <=> j \in LinesOf(r) \ {i}
             /\ j \in LinesOf(b) <=> j \in LinesOf(r) \cup ({i} \cap Line)
  <2>1. /\ a[ChipOf(j)] = IF ChipOf(j) = ChipOf(i) THEN r[ChipOf(j)] \ Shifted(i) ELSE r[ChipOf(j)]
        /\ b[ChipOf(j)] = IF ChipOf(j) = ChipOf(i) THEN r[ChipOf(j)] \cup Shifted(i) ELSE r[ChipOf(j)]
    BY <1>3, LineFacts
  <2> QED
    BY <1>2, <2>1 DEF LinesOf
<1>5. LinesOf(a) = LinesOf(r) \ {i} /\ LinesOf(b) = LinesOf(r) \cup ({i} \cap Line)
  BY <1>4 DEF LinesOf
<1> QED
  BY <1>5 DEF a, b

(* A call leaves the masks as asked.                                       *)
LEMMA CallMasks ==
  ASSUME imr \in Lines, MaskAsAsked, NEW i \in 0 .. 39, Masks(i) \/ Unmasks(i)
  PROVE  MaskAsAsked'
<1>1. CASE Masks(i)
  <2>1. LinesOf(imr') = LinesOf(imr) \cup ({i} \cap Line)
    BY <1>1, ShiftFacts DEF Masks
  <2> QED
    BY <1>1, <2>1 DEF Masks, MaskAsAsked, LinesOf, ChipOf, BitOf
<1>2. CASE Unmasks(i)
  <2>1. LinesOf(imr') = LinesOf(imr) \ {i}
    BY <1>2, ShiftFacts DEF Unmasks
  <2> QED
    BY <1>2, <2>1 DEF Unmasks, MaskAsAsked, LinesOf, ChipOf, BitOf
<1> QED
  BY <1>1, <1>2

(* So does every step.                                                     *)
LEMMA StepMasks ==
  ASSUME LinesFit, imr \in Lines, MaskAsAsked, [IrqNext]_irq_vars
  PROVE  MaskAsAsked'
<1>1. CASE UNCHANGED <<imr, asked>>
  BY <1>1 DEF MaskAsAsked, LinesOf, ChipOf, BitOf
<1>2. CASE pic_remap \/ pic_disable
  BY <1>2, LinesOfAll DEF pic_remap, pic_disable, MaskAsAsked, LinesOf, ChipOf, BitOf
<1>3. CASE kearly_unmasks
  <2>1. Kbd \in 0 .. 39 /\ Unmasks(Kbd)
    BY <1>3 DEF kearly_unmasks, Kbd
  <2> QED
    BY <2>1, CallMasks
<1>4. CASE irq_set_mask \/ irq_clear_mask
  <2>1. PICK i \in 0 .. 39 : Masks(i) \/ Unmasks(i)
    BY <1>4 DEF irq_set_mask, irq_clear_mask, LinesFit
  <2> QED
    BY <2>1, CallMasks
<1>5. ASSUME \/ Raise \/ KeyComes \/ (\E i \in Line : Interrupt(i)) \/ Spurious
             \/ Handler \/ idt_init \/ pit_init \/ sti \/ UNCHANGED irq_vars
      PROVE  UNCHANGED <<imr, asked>>
  <2>1. CASE Raise \/ KeyComes \/ (\E i \in Line : Interrupt(i)) \/ Spurious
    BY <2>1 DEF Raise, KeyComes, Interrupt, Spurious, Enters, history
  <2>2. CASE Handler
    BY <2>2 DEF Handler, pit_handler, keyboard_reads, keyboard_ends, irq_unhandled,
                pic_send_eoi, Iret, history
  <2>3. CASE idt_init \/ pit_init \/ sti \/ UNCHANGED irq_vars
    BY <2>3 DEF idt_init, pit_init, sti, irq_vars, history
  <2> QED
    BY <1>5, <2>1, <2>2, <2>3
<1> QED
  BY <1>1, <1>2, <1>3, <1>4, <1>5 DEF IrqNext, Boot

(* The masked lines are those asked for, by any calls before sti of lines  *)
(* up to 39, in any order with what kearly does.                           *)
THEOREM MasksCorrect ==
  ASSUME LinesFit PROVE IrqSpec => []MaskAsAsked
<1>1. IrqInit => MaskAsAsked
  BY DEF IrqInit, MaskAsAsked
<1>2. MaskAsAsked /\ IrqTypeOK /\ [IrqNext]_irq_vars => MaskAsAsked'
  BY StepMasks DEF IrqTypeOK
<1> QED
  BY <1>1, <1>2, IrqTypeCorrect, PTL DEF IrqSpec

(* Every interrupt finds its gate.                                         *)
THEOREM NoneLostCorrect == IrqSpec => []NoneLost
<1>1. IInv => NoneLost
  BY DEF IInv, Flow, NoneLost
<1> QED
  BY <1>1, IrqInvariance, PTL

(* A scancode that waits has its request or its handler.                   *)
THEOREM KeysCorrect == IrqSpec => []KeyPending
<1>1. IInv => KeyPending
  BY DEF IInv, Keys
<1> QED
  BY <1>1, IrqInvariance, PTL
=============================================================================
