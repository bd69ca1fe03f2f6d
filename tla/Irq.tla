-------------------------------- MODULE Irq --------------------------------
(***************************************************************************)
(* Interrupts of arch/i386: the order in which kearly sets them up, the    *)
(* masks (pic.c), the stubs, irq_handler and its end of interrupt (isr_a.S,*)
(* isr.c, pic.c), the tick count (pit.c), and the keyboard's handler as    *)
(* far as its device goes.                                                 *)
(*                                                                         *)
(* The two controllers, the timer and the keyboard's controller are        *)
(* hardware, modelled as the code uses them: edge triggered, fully nested, *)
(* the second on line 2 of the first.  Masks are set and cleared before sti*)
(* only, as kearly does: what an interrupt leaves of the registers of a    *)
(* call is in Keyboard and Tty.                                            *)
(***************************************************************************)
EXTENDS Integers, Sequences, FiniteSets

CONSTANTS
  WORD,       (* 2^32: the tick count's                       *)
  Wire,       (* bound: the lines that have a device          *)
  InLine      (* bound: the lines kernel code masks, unmasks  *)

Chip  == {"PIC1", "PIC2"}
Bit   == 0 .. 7
Line  == 0 .. 15
CASCADE_IRQ == 2
Timer == 0
Kbd   == 1

ASSUME IrqAssumption ==
  /\ WORD \in Nat \ {0}
  /\ Wire \subseteq Line \ {CASCADE_IRQ}
  /\ InLine \subseteq 0 .. 255

VARIABLES
  imr, irr, isr,   (* per chip: lines masked, requested, in service               *)
  full,            (* the keyboard's controller has a scancode to read             *)
  IF_flag,         (* the processor's interrupt flag                               *)
  handling,        (* the handler that runs and where it is                        *)
  stage,           (* how far kearly is                                            *)
  mapped, gates,   (* the vectors are the kernel's; the gates lead to its stubs    *)
  tick_count,
  asked,           (* history: the lines the calls asked to be masked              *)
  early,           (* history: a key came before pic_remap and was not read since  *)
  lost             (* an interrupt led to no handler of its own                    *)

cpu     == <<IF_flag, handling>>
kernel  == <<stage, mapped, gates>>
history == <<asked, early, lost>>
irq_vars == <<imr, irr, isr, full, cpu, kernel, tick_count, history>>

NoHandler == [irq |-> 0, at |-> "none"]

None == [c \in Chip |-> {}]
All  == [c \in Chip |-> Bit]

ChipOf(i)  == IF i < 8 THEN "PIC1" ELSE "PIC2"
BitOf(i)   == IF i < 8 THEN i ELSE i - 8
LinesOf(r) == {i \in Line : BitOf(i) \in r[ChipOf(i)]}

IrqInit ==
  /\ imr \in {None, All} /\ isr = None
  /\ \E w \in SUBSET Wire : irr = [c \in Chip |-> {BitOf(i) : i \in {j \in w : ChipOf(j) = c}}]
  /\ full = (1 \in irr["PIC1"])
  /\ IF_flag = FALSE /\ handling = NoHandler
  /\ stage = 1 /\ mapped = FALSE /\ gates = FALSE
  /\ tick_count = 0
  /\ asked = LinesOf(imr) /\ early = full /\ lost = FALSE

-----------------------------------------------------------------------------
(* Devices.                                                                *)

With(r, c, b)    == [r EXCEPT ![c] = @ \cup {b}]
Without(r, c, b) == [r EXCEPT ![c] = @ \ {b}]

(* A device's line rises.                                                  *)
Raise ==
  /\ \E i \in Wire \ {Kbd} : irr' = With(irr, ChipOf(i), BitOf(i))
  /\ UNCHANGED <<imr, isr, full, cpu, kernel, tick_count, history>>

(* A scancode comes once the one before it has been read.                  *)
KeyComes ==
  /\ Kbd \in Wire /\ ~full /\ full' = TRUE
  /\ irr' = With(irr, "PIC1", BitOf(Kbd))
  /\ early' = (stage = 1)
  /\ UNCHANGED <<imr, isr, cpu, kernel, tick_count, asked, lost>>

-----------------------------------------------------------------------------
(* Delivery.                                                               *)

First(S) == {b \in S : \A s \in S : b <= s}

(* What a chip would pass on: requests above all that is in service.       *)
Above(S, c) == {b \in S : \A s \in isr[c] : b < s}

Passed2 == First(Above(irr["PIC2"] \ imr["PIC2"], "PIC2"))

Passed1 ==
  First(Above((irr["PIC1"] \cup IF Passed2 = {} THEN {} ELSE {CASCADE_IRQ}) \ imr["PIC1"], "PIC1"))

Signals(i) ==
  IF i < 8 THEN i # CASCADE_IRQ /\ i \in Passed1
  ELSE CASCADE_IRQ \in Passed1 /\ BitOf(i) \in Passed2

Enters(i) ==
  /\ handling' = [irq |-> i, at |-> "body"]
  /\ IF_flag' = FALSE
  /\ lost' = (lost \/ ~(mapped /\ gates))
  /\ UNCHANGED <<imr, full, kernel, tick_count, asked, early>>

Interrupt(i) ==
  /\ IF_flag /\ Signals(i)
  /\ irr' = Without(irr, ChipOf(i), BitOf(i))
  /\ isr' = [c \in Chip |-> isr[c] \cup (IF c = ChipOf(i) THEN {BitOf(i)} ELSE {})
                                   \cup (IF c = "PIC1" /\ i >= 8 THEN {CASCADE_IRQ} ELSE {})]
  /\ Enters(i)

(* A request gone before the processor asks for it: line 7 of a chip, not  *)
(* marked in service there.                                                *)
Spurious ==
  /\ IF_flag
  /\ \/ UNCHANGED isr /\ Enters(7)
     \/ /\ CASCADE_IRQ \in Above({CASCADE_IRQ} \ imr["PIC1"], "PIC1")
        /\ isr' = With(isr, "PIC1", CASCADE_IRQ) /\ Enters(15)
  /\ UNCHANGED irr

-----------------------------------------------------------------------------
(* irq_handler, with interrupts off.                                       *)

Handling(at) == handling.at = at

pit_handler ==
  /\ Handling("body") /\ handling.irq = Timer
  /\ tick_count' = (tick_count + 1) % WORD
  /\ handling' = [handling EXCEPT !.at = "eoi"]
  /\ UNCHANGED <<imr, irr, isr, full, IF_flag, kernel, history>>

(* Slip: what the controller holds is not read.                            *)
keyboard_skips ==
  /\ Handling("body") /\ handling.irq = Kbd
  /\ handling' = [handling EXCEPT !.at = "eoi"]
  /\ UNCHANGED <<imr, irr, isr, full, IF_flag, kernel, tick_count, history>>

(* A turn of its loop reads a scancode: the line falls, and a request made *)
(* meanwhile may go with it.                                               *)
keyboard_reads ==
  /\ Handling("body") /\ handling.irq = Kbd
  /\ full /\ full' = FALSE /\ early' = FALSE
  /\ irr' \in {irr, Without(irr, "PIC1", BitOf(Kbd))}
  /\ UNCHANGED <<imr, isr, cpu, kernel, tick_count, asked, lost>>

keyboard_ends ==
  /\ Handling("body") /\ handling.irq = Kbd
  /\ ~full /\ handling' = [handling EXCEPT !.at = "eoi"]
  /\ UNCHANGED <<imr, irr, isr, full, IF_flag, kernel, tick_count, history>>

(* It only prints.                                                         *)
irq_unhandled ==
  /\ Handling("body") /\ handling.irq \notin {Timer, Kbd}
  /\ handling' = [handling EXCEPT !.at = "eoi"]
  /\ UNCHANGED <<imr, irr, isr, full, IF_flag, kernel, tick_count, history>>

(* A chip told of an end of interrupt takes the first line in service.     *)
Ends(c) == isr' = [isr EXCEPT ![c] = @ \ First(@)]

(* Slip: the first chip only.                                              *)
eoi_first_only ==
  /\ Handling("eoi")
  /\ Ends("PIC1") /\ handling' = [handling EXCEPT !.at = "iret"]
  /\ UNCHANGED <<imr, irr, full, IF_flag, kernel, tick_count, history>>

(* Slip: what has no handler is not ended.                                 *)
eoi_known_only ==
  /\ Handling("eoi") /\ handling' = [handling EXCEPT !.at = "iret"]
  /\ IF handling.irq \in {Timer, Kbd} THEN Ends("PIC1") ELSE UNCHANGED isr
  /\ UNCHANGED <<imr, irr, full, IF_flag, kernel, tick_count, history>>

pic_send_eoi ==
  \/ /\ Handling("eoi") /\ handling.irq >= 8
     /\ Ends("PIC2") /\ handling' = [handling EXCEPT !.at = "eoi1"]
     /\ UNCHANGED <<imr, irr, full, IF_flag, kernel, tick_count, history>>
  \/ /\ Handling("eoi1") \/ (Handling("eoi") /\ handling.irq < 8)
     /\ Ends("PIC1") /\ handling' = [handling EXCEPT !.at = "iret"]
     /\ UNCHANGED <<imr, irr, full, IF_flag, kernel, tick_count, history>>

Iret ==
  /\ Handling("iret") /\ handling' = NoHandler
  /\ IF_flag' = TRUE
  /\ UNCHANGED <<imr, irr, isr, full, kernel, tick_count, history>>

Handler == pit_handler \/ keyboard_reads \/ keyboard_ends \/ irq_unhandled \/ pic_send_eoi \/ Iret

-----------------------------------------------------------------------------
(* The kernel.                                                             *)

(* Slip: interrupts are on before the gates are there.                     *)
kearly_eager == <<"pic_remap", "pic_disable", "irq_clear_mask", "sti", "idt_init", "pit_init">>

kearly == <<"pic_remap", "pic_disable", "idt_init", "pit_init", "irq_clear_mask", "sti">>

Booted == stage = Len(kearly) + 1

Runs(name) ==
  /\ handling = NoHandler /\ ~Booted /\ kearly[stage] = name
  /\ stage' = stage + 1

(* Both chips start again: nothing masked, requested or in service.        *)
pic_remap ==
  /\ Runs("pic_remap")
  /\ imr' = None /\ irr' = None /\ isr' = None /\ mapped' = TRUE
  /\ asked' = {}
  /\ UNCHANGED <<full, cpu, gates, tick_count, early, lost>>

pic_disable ==
  /\ Runs("pic_disable")
  /\ imr' = All /\ asked' = Line
  /\ UNCHANGED <<irr, isr, full, cpu, mapped, gates, tick_count, early, lost>>

(* A gate for each of the 16 lines, at 32 and up, as pic_remap puts them.  *)
idt_init ==
  /\ Runs("idt_init") /\ gates' = TRUE
  /\ UNCHANGED <<imr, irr, isr, full, cpu, mapped, tick_count, history>>

pit_init ==
  /\ Runs("pit_init")
  /\ UNCHANGED <<imr, irr, isr, full, cpu, mapped, gates, tick_count, history>>

sti ==
  /\ Runs("sti") /\ IF_flag' = TRUE
  /\ UNCHANGED <<imr, irr, isr, full, handling, mapped, gates, tick_count, history>>

(* Slip: the byte is no byte.                                              *)
ShiftedWide(i) == IF i < 8 THEN {i} ELSE {i - 8}

(* Slip: the bit is the line's number, whatever the port.                  *)
ShiftedBack(i) == {i} \cap Bit

(* The bit of a line in a port's byte.  The shift runs out of the byte from*)
(* line 16 on, and comes back to it from line 40 on: the processor takes   *)
(* its count modulo 32.                                                    *)
Shifted(i) == (IF i < 8 THEN {i} ELSE {(i - 8) % 32}) \cap Bit

(* A call of irq_set_mask or irq_clear_mask.                               *)
Masks(i) ==
  /\ imr' = [imr EXCEPT ![ChipOf(i)] = @ \cup Shifted(i)]
  /\ asked' = asked \cup ({i} \cap Line)

Unmasks(i) ==
  /\ imr' = [imr EXCEPT ![ChipOf(i)] = @ \ Shifted(i)]
  /\ asked' = asked \ {i}

kearly_unmasks ==
  /\ Runs("irq_clear_mask") /\ Unmasks(Kbd)
  /\ UNCHANGED <<irr, isr, full, cpu, mapped, gates, tick_count, early, lost>>

(* What else is set up before sti.                                         *)
irq_set_mask ==
  /\ ~Booted /\ \E i \in InLine : Masks(i)
  /\ UNCHANGED <<irr, isr, full, cpu, kernel, tick_count, early, lost>>

irq_clear_mask ==
  /\ ~Booted /\ \E i \in InLine : Unmasks(i)
  /\ UNCHANGED <<irr, isr, full, cpu, kernel, tick_count, early, lost>>

Boot == pic_remap \/ pic_disable \/ idt_init \/ pit_init \/ kearly_unmasks \/ sti

IrqNext ==
  \/ Raise \/ KeyComes
  \/ (\E i \in Line : Interrupt(i)) \/ Spurious
  \/ Handler
  \/ Boot \/ irq_set_mask \/ irq_clear_mask

IrqSpec == IrqInit /\ [][IrqNext]_irq_vars

(* The processor goes on, takes at its next instruction an interrupt that  *)
(* is signalled while its flag is set, and finds the keyboard's controller *)
(* empty at times: keys are slower than the loop.                          *)
FairIrqSpec ==
  /\ IrqSpec
  /\ WF_irq_vars(Handler) /\ SF_irq_vars(keyboard_ends)
  /\ \A i \in Wire : SF_irq_vars(Interrupt(i))

-----------------------------------------------------------------------------
(* Properties.                                                             *)

Lines == [Chip -> SUBSET Bit]

(* Registers, flags and places keep their shapes.                          *)
IrqTypeOK ==
  /\ imr \in Lines /\ irr \in Lines /\ isr \in Lines
  /\ full \in BOOLEAN /\ IF_flag \in BOOLEAN
  /\ handling \in [irq : Line, at : {"none", "body", "eoi", "eoi1", "iret"}]
  /\ stage \in 1 .. Len(kearly) + 1
  /\ mapped \in BOOLEAN /\ gates \in BOOLEAN /\ early \in BOOLEAN /\ lost \in BOOLEAN
  /\ tick_count \in 0 .. WORD - 1 /\ asked \subseteq Line

(* What a handler finds in service is its own request, the cascade with it *)
(* when it is one of the second chip, and between handlers nothing is: each*)
(* end of interrupt ends what it should, of spurious ones too.             *)
InServiceMatched ==
  /\ handling = NoHandler => isr = None
  /\ handling.at = "body" =>
       /\ isr["PIC2"] \subseteq {BitOf(handling.irq)}
       /\ isr["PIC1"] \subseteq {IF handling.irq < 8 THEN handling.irq ELSE CASCADE_IRQ}
       /\ handling.irq \in {7, 15} \/ BitOf(handling.irq) \in isr[ChipOf(handling.irq)]

(* The lines masked are the ones the calls asked for, of either chip, and  *)
(* of lines that no chip has nothing is: in every order of calls with what *)
(* kearly does.                                                            *)
MaskAsAsked == LinesOf(imr) = asked

(* No interrupt comes before the vectors and the gates are the kernel's.   *)
NoneLost == ~lost

(* A scancode that waits has its request, or its handler: the keyboard     *)
(* never falls silent (unless a key was pressed before pic_remap, which    *)
(* forgets the request and leaves the scancode).                           *)
KeyPending ==
  full /\ ~early => \/ BitOf(Kbd) \in irr["PIC1"]
                    \/ handling.irq = Kbd /\ handling.at = "body"

Asks(i) == BitOf(i) \in irr[ChipOf(i)]

(* Nothing between a device and the processor: its line is open, and that  *)
(* of the cascade if it needs it.                                          *)
Open(i) == i \notin LinesOf(imr) /\ (i >= 8 => CASCADE_IRQ \notin LinesOf(imr))

(* The order of service: the second chip's lines come in at the cascade.   *)
Before(j, i) ==
  IF ChipOf(j) = ChipOf(i) THEN j < i
  ELSE IF i < 8 THEN CASCADE_IRQ < i ELSE j < CASCADE_IRQ

(* The processor listens, and no device before this one asks.              *)
Turn(i) == IF_flag /\ \A j \in Wire : Before(j, i) => ~(Asks(j) /\ Open(j))

(* Every handler returns, and a request on an open line is served, unless  *)
(* those before it keep it from ever having its turn.                      *)
Served ==
  /\ []<>(handling = NoHandler)
  /\ \A i \in Wire : []<>Turn(i) => ((Asks(i) /\ Open(i)) ~> ~(Asks(i) /\ Open(i)))
=============================================================================
