-------------------------------- MODULE Tty --------------------------------
(***************************************************************************)
(* The terminal of arch/i386/tty.c, store by store and port by port.       *)
(*                                                                         *)
(* The kernel types, rubs out and clears.  Between any two of its steps an *)
(* interrupt may come whose handler types a message (irq_handler, the      *)
(* default case) or nothing, with interrupts off, and between any two steps*)
(* of either an exception, whose handler clears the terminal, types and    *)
(* halts.                                                                  *)
(*                                                                         *)
(* The stub of an interrupt saves no register.  In the call it came in a   *)
(* row, a column, a character or a byte may be what the handler left; once *)
(* that is the address of a store, what memory it changes is not modelled. *)
(*                                                                         *)
(* The variables are not volatile: a use of one takes the copy a register  *)
(* has held since the call began or reads it again, and a store that a     *)
(* later one of the call undoes may be left out.  Colours are left out.    *)
(* What is written below the last line is not seen again.                  *)
(***************************************************************************)
EXTENDS Integers, Sequences

CONSTANTS
  VGA_WIDTH, VGA_HEIGHT,
  BYTE,         (* 2^8                                          *)
  Glyph,        (* what a cell can show                         *)
  Blank,        (* ' '                                          *)
  Newline,      (* '\n'                                         *)
  InChar,       (* bound: what the kernel types                 *)
  Message,      (* what irq_handler types                       *)
  PanicText,    (* what exception_handler and abort type        *)
  LeftNumber,   (* what a register with a row or a column may hold after an interrupt: 32 *)
  LeftGlyph,    (* what one with a character may hold           *)
  MaxIrqs,      (* bound: interrupts during one kernel call     *)
  MaxPlace      (* bound: rows and columns that are typed at    *)

Width  == VGA_WIDTH
Height == VGA_HEIGHT
Cell   == 0 .. Width * Height - 1
Char   == Glyph \cup {Newline}
Level  == {"kernel", "handler", "panic"}

ASSUME TtyAssumption ==
  /\ Width \in Nat \ {0} /\ Height \in Nat \ {0} /\ BYTE \in Nat \ {0}
  /\ Blank \in Glyph /\ Newline \notin Glyph /\ InChar \subseteq Char
  /\ Message \in Seq(Char) /\ PanicText \in Seq(Char)
  /\ LeftNumber \subseteq Nat \ {0} /\ LeftGlyph \subseteq Glyph
  /\ MaxIrqs \in Nat /\ MaxPlace \in Nat

VARIABLES
  screen,            (* terminal_buffer, the lines that are seen         *)
  terminal_row, terminal_column,
  crtc,              (* the cursor's registers: the index, the two bytes *)
  level,             (* who runs, "halted", or "wild"                    *)
  call,              (* per level, the call in progress                  *)
  text,              (* what the handler that runs has yet to type       *)
  page, torn, irqs   (* history: the terminal when the last call ended, whether an interrupt came since, how many *)

tty_vars == <<screen, terminal_row, terminal_column, crtc, level, call, text, page, torn, irqs>>

terminal == <<screen, terminal_row, terminal_column, crtc>>
history  == <<page, torn, irqs>>

Place == {"idle", "place", "column", "wrap", "row", "scroll", "home", "home_column",
          "back", "back_column", "rub", "blank", "clear_row", "clear_column",
          "cursor", "low_index", "low", "high_index", "high"}

(* Where it is, its character, its loop index, its copies of row and       *)
(* column, the position it shows.                                          *)
Idle == [at |-> "idle", c |-> Blank, k |-> 0, row |-> 0, col |-> 0, pos |-> 0]

TtyInit ==
  /\ screen = [k \in Cell |-> Blank] /\ terminal_row = 0 /\ terminal_column = 0
  /\ crtc \in [index : {"low", "high"}, low : 0 .. BYTE - 1, high : 0 .. BYTE - 1]
  /\ level = "kernel" /\ call = [l \in Level |-> Idle] /\ text = <<>>
  /\ page = [screen |-> screen, row |-> 0, column |-> 0, cursor |-> crtc.high * BYTE + crtc.low]
  /\ torn = FALSE /\ irqs = 0

-----------------------------------------------------------------------------
(* Steps of the call in progress.                                          *)

At(place) == level \in Level /\ call[level].at = place

my == call[level]

Goes(place) == call' = [call EXCEPT ![level].at = place]

(* An interrupt has come in the call: values in its registers, or what may *)
(* be left there.                                                          *)
Lost == torn /\ level = "kernel"

Or(values, left) == IF Lost THEN values \cup left ELSE values

(* A use of a variable: the register or the variable.                      *)
RowSeen    == Or({my.row, terminal_row}, LeftNumber)
ColumnSeen == Or({my.col, terminal_column}, LeftNumber)

(* What a call finds in the variables when it begins.                      *)
Loaded(place, c) ==
  call' = [call EXCEPT ![level] =
             [at |-> place, c |-> c, k |-> 0, row |-> terminal_row, col |-> terminal_column, pos |-> 0]]

terminal_putentryat(c, x, y) ==
  screen' = [k \in Cell |-> IF k = y * Width + x THEN c ELSE screen[k]]

PutPlaces ==
  /\ At("place") /\ Goes("column")
  /\ \E x \in ColumnSeen, y \in RowSeen, c \in Or({my.c}, LeftGlyph) : terminal_putentryat(c, x, y)
  /\ UNCHANGED <<terminal_row, terminal_column, crtc, level, text, history>>

PutAdvances ==
  /\ At("column")
  /\ \E x \in ColumnSeen : \E kept, tested \in Or({x + 1}, LeftNumber) :
       /\ terminal_column' \in {kept} \cup (IF tested = Width THEN {terminal_column} ELSE {})
       /\ call' = [call EXCEPT ![level].at = IF tested = Width THEN "wrap" ELSE "cursor",
                               ![level].col = kept]
  /\ UNCHANGED <<screen, terminal_row, crtc, level, text, history>>

PutWraps ==
  /\ At("wrap")
  /\ terminal_column' = 0
  /\ call' = [call EXCEPT ![level].at = "row", ![level].col = 0]
  /\ UNCHANGED <<screen, terminal_row, crtc, level, text, history>>

PutBreaks ==
  /\ At("row")
  /\ \E y \in RowSeen : \E kept, tested \in Or({y + 1}, LeftNumber) :
       /\ terminal_row' \in {kept} \cup (IF tested = Height THEN {terminal_row} ELSE {})
       /\ call' = [call EXCEPT ![level].at = IF tested = Height THEN "scroll" ELSE "cursor",
                               ![level].row = kept]
  /\ UNCHANGED <<screen, terminal_column, crtc, level, text, history>>

(* Slip: a cell takes the one after it, not the one below.                 *)
MovedSideways(k) == IF k < Width * (Height - 1) THEN screen[k + 1] ELSE Blank

(* The cell below, in the last line a blank.                               *)
Moved(k) == IF k < Width * (Height - 1) THEN screen[k + Width] ELSE Blank

terminal_scroll ==
  /\ At("scroll")
  /\ \E c \in Or({Moved(my.k)}, LeftGlyph) : screen' = [screen EXCEPT ![my.k] = c]
  /\ call' = [call EXCEPT ![level].at = IF my.k + 1 = Width * Height THEN "home" ELSE "scroll",
                          ![level].k = my.k + 1]
  /\ UNCHANGED <<terminal_row, terminal_column, crtc, level, text, history>>

ScrollHomes ==
  /\ At("home")
  /\ terminal_row' = Height - 1
  /\ call' = [call EXCEPT ![level].at = "home_column", ![level].row = Height - 1]
  /\ UNCHANGED <<screen, terminal_column, crtc, level, text, history>>

ScrollEnds ==
  /\ At("home_column")
  /\ terminal_column' = 0
  /\ call' = [call EXCEPT ![level].at = "cursor", ![level].col = 0]
  /\ UNCHANGED <<screen, terminal_row, crtc, level, text, history>>

(* Slip: at the top of the page too it goes a row up.                      *)
BackUnchecked ==
  /\ At("back")
  /\ \E x \in ColumnSeen, y \in RowSeen :
       \/ /\ x = 0
          /\ terminal_row' = y - 1 /\ UNCHANGED terminal_column
          /\ call' = [call EXCEPT ![level].at = "back_column", ![level].row = y - 1]
       \/ /\ x # 0
          /\ terminal_column' = x - 1 /\ UNCHANGED terminal_row
          /\ call' = [call EXCEPT ![level].at = "rub", ![level].col = x - 1, ![level].row = y]
  /\ UNCHANGED <<screen, crtc, level, text, history>>

(* The test of a variable and its decrement are one load.                  *)
terminal_backspace ==
  /\ At("back")
  /\ \E x \in ColumnSeen, y \in RowSeen :
       \/ /\ x = 0 /\ y = 0
          /\ call' = [call EXCEPT ![level].at = "rub", ![level].col = x, ![level].row = y]
          /\ UNCHANGED <<terminal_row, terminal_column>>
       \/ /\ x = 0 /\ y > 0
          /\ \E kept \in Or({y - 1}, LeftNumber) :
               /\ terminal_row' = kept /\ UNCHANGED terminal_column
               /\ call' = [call EXCEPT ![level].at = "back_column", ![level].row = kept]
       \/ /\ x # 0
          /\ \E kept \in Or({x - 1}, LeftNumber) :
               /\ terminal_column' = kept /\ UNCHANGED terminal_row
               /\ call' = [call EXCEPT ![level].at = "rub", ![level].col = kept, ![level].row = y]
  /\ UNCHANGED <<screen, crtc, level, text, history>>

BackTurns ==
  /\ At("back_column")
  /\ terminal_column' = Width - 1
  /\ call' = [call EXCEPT ![level].at = "rub", ![level].col = Width - 1]
  /\ UNCHANGED <<screen, terminal_row, crtc, level, text, history>>

BackRubs ==
  /\ At("rub") /\ Goes("cursor")
  /\ \E x \in ColumnSeen, y \in RowSeen, c \in Or({Blank}, LeftGlyph) : terminal_putentryat(c, x, y)
  /\ UNCHANGED <<terminal_row, terminal_column, crtc, level, text, history>>

terminal_clear ==
  /\ At("blank")
  /\ \E c \in Or({Blank}, LeftGlyph) : screen' = [screen EXCEPT ![my.k] = c]
  /\ call' = [call EXCEPT ![level].at = IF my.k + 1 = Width * Height THEN "clear_row" ELSE "blank",
                          ![level].k = my.k + 1]
  /\ UNCHANGED <<terminal_row, terminal_column, crtc, level, text, history>>

ClearRow ==
  /\ At("clear_row")
  /\ terminal_row' = 0
  /\ call' = [call EXCEPT ![level].at = "clear_column", ![level].row = 0]
  /\ UNCHANGED <<screen, terminal_column, crtc, level, text, history>>

(* Slip: the column stays.                                                 *)
ClearNoColumn ==
  /\ At("clear_column") /\ Goes("cursor")
  /\ UNCHANGED <<screen, terminal_row, terminal_column, crtc, level, text, history>>

ClearColumn ==
  /\ At("clear_column")
  /\ terminal_column' = 0
  /\ call' = [call EXCEPT ![level].at = "cursor", ![level].col = 0]
  /\ UNCHANGED <<screen, terminal_row, crtc, level, text, history>>

-----------------------------------------------------------------------------
(* terminal_setcursorpos: an index is written, then the byte it selects.   *)
(* With registers lost the position or the byte may be another, and what is*)
(* written may go to another port.                                         *)

Sent(byte) ==
  Or({[crtc EXCEPT ![crtc.index] = byte]},
     {crtc} \cup {[crtc EXCEPT ![crtc.index] = n % BYTE] : n \in LeftNumber})

terminal_setcursorpos ==
  /\ At("cursor")
  /\ \E x \in ColumnSeen, y \in RowSeen :
       \E line \in Or({y * Width}, LeftNumber) : \E pos \in Or({line + x}, LeftNumber) :
         call' = [call EXCEPT ![level].at = "low_index", ![level].pos = pos % (BYTE * BYTE)]
  /\ UNCHANGED <<terminal, level, text, history>>

SelectLow ==
  /\ At("low_index") /\ Goes("low")
  /\ crtc' \in Or({[crtc EXCEPT !.index = "low"]}, {crtc})
  /\ UNCHANGED <<screen, terminal_row, terminal_column, level, text, history>>

SendLow ==
  /\ At("low") /\ Goes("high_index")
  /\ crtc' \in Sent(my.pos % BYTE)
  /\ UNCHANGED <<screen, terminal_row, terminal_column, level, text, history>>

SelectHigh ==
  /\ At("high_index") /\ Goes("high")
  /\ crtc' \in Or({[crtc EXCEPT !.index = "high"]}, {crtc})
  /\ UNCHANGED <<screen, terminal_row, terminal_column, level, text, history>>

(* No call is in progress but the one that ends.                           *)
Alone == level # "handler" \/ call["kernel"] = Idle

(* The last byte: the call ends.                                           *)
SendHigh ==
  /\ At("high")
  /\ crtc' \in Sent(my.pos \div BYTE)
  /\ call' = [call EXCEPT ![level] = Idle]
  /\ IF Alone
     THEN /\ page' = [screen |-> screen, row |-> terminal_row, column |-> terminal_column,
                      cursor |-> crtc'.high * BYTE + crtc'.low]
          /\ torn' = FALSE /\ irqs' = 0
     ELSE UNCHANGED history
  /\ UNCHANGED <<screen, terminal_row, terminal_column, level, text>>

(* The newline is lost before it is looked at.                             *)
CharLost ==
  /\ Lost /\ At("wrap") /\ my.c = Newline
  /\ \E c \in LeftGlyph : call' = [call EXCEPT ![level].at = "place", ![level].c = c]
  /\ UNCHANGED <<terminal, level, text, history>>

(* The address of a store is lost: it changes other memory, the loops all  *)
(* that comes after it.                                                    *)
StoreMisses ==
  /\ Lost /\ my.at \in {"place", "rub", "scroll", "blank"}
  /\ level' = "wild"
  /\ UNCHANGED <<terminal, call, text, history>>

Step ==
  \/ PutPlaces \/ PutAdvances \/ PutWraps \/ PutBreaks
  \/ terminal_scroll \/ ScrollHomes \/ ScrollEnds
  \/ terminal_backspace \/ BackTurns \/ BackRubs
  \/ terminal_clear \/ ClearRow \/ ClearColumn
  \/ terminal_setcursorpos \/ SelectLow \/ SendLow \/ SelectHigh \/ SendHigh
  \/ CharLost \/ StoreMisses

-----------------------------------------------------------------------------
(* Who calls.                                                              *)

terminal_putchar(c) == Loaded(IF c = Newline THEN "wrap" ELSE "place", c)

Bounded == terminal_row <= MaxPlace /\ terminal_column <= MaxPlace

KernelCalls ==
  /\ level = "kernel" /\ At("idle") /\ Bounded
  /\ \/ \E c \in InChar : terminal_putchar(c)
     \/ Loaded("back", Blank)
     \/ Loaded("blank", Blank)
  /\ UNCHANGED <<terminal, level, text, history>>

(* printf in the handler and in abort, terminal_write below it.            *)
HandlerTypes ==
  /\ level # "kernel" /\ At("idle") /\ text # <<>>
  /\ terminal_putchar(Head(text)) /\ text' = Tail(text)
  /\ UNCHANGED <<terminal, level, history>>

(* Of a vector it has a case for it types nothing.                         *)
irq_handler ==
  /\ level = "kernel" /\ Bounded
  /\ call["kernel"] # Idle => irqs < MaxIrqs
  /\ level' = "handler" /\ text' \in {<<>>, Message}
  /\ torn' = (torn \/ call["kernel"] # Idle)
  /\ irqs' = IF call["kernel"] # Idle THEN irqs + 1 ELSE irqs
  /\ UNCHANGED <<terminal, call, page>>

(* The stub returns, and Lost holds of the call it came in.                *)
Iret ==
  /\ level = "handler" /\ At("idle") /\ text = <<>>
  /\ level' = "kernel"
  /\ UNCHANGED <<terminal, call, text, history>>

(* What was in progress is never taken up again.                           *)
exception_handler ==
  /\ level \in {"kernel", "handler"}
  /\ level' = "panic" /\ text' = PanicText
  /\ call' = [l \in Level |-> IF l = "panic" THEN [Idle EXCEPT !.at = "blank"] ELSE Idle]
  /\ UNCHANGED <<terminal, history>>

abort ==
  /\ level = "panic" /\ At("idle") /\ text = <<>>
  /\ level' = "halted"
  /\ UNCHANGED <<terminal, call, text, history>>

TtyNext ==
  Step \/ KernelCalls \/ HandlerTypes \/ irq_handler \/ Iret \/ exception_handler \/ abort

TtySpec == TtyInit /\ [][TtyNext]_tty_vars

-----------------------------------------------------------------------------
(* Properties.                                                             *)

Call == [at : Place, c : Char, k : 0 .. Width * Height, row : Nat, col : Nat,
         pos : 0 .. BYTE * BYTE - 1]

(* Rows, columns, registers and calls keep their shapes: none goes below   *)
(* zero, which in C is 2^32 - 1.                                           *)
TtyTypeOK ==
  /\ screen \in [Cell -> Glyph] /\ terminal_row \in Nat /\ terminal_column \in Nat
  /\ crtc \in [index : {"low", "high"}, low : 0 .. BYTE - 1, high : 0 .. BYTE - 1]
  /\ level \in Level \cup {"halted", "wild"} /\ call \in [Level -> Call] /\ text \in Seq(Char)

Lines(cells) == [y \in 0 .. Height - 1 |-> [x \in 0 .. Width - 1 |-> cells[y * Width + x]]]

Page == INSTANCE TtyPage WITH
  page <- [lines |-> Lines(page.screen), row |-> page.row, column |-> page.column,
           cursor |-> page.cursor]

(* Cell by cell and byte by byte, each call that was not interrupted does  *)
(* to a page with its place on it what a terminal promises, the cursor     *)
(* included.  After an interrupted call the row may be below the page;     *)
(* nothing is promised of what is typed there, but a clear mends it.       *)
ImplementsPage == Page!PageSpec

(* The page when the first n characters of s are typed on a blank one.     *)
Written(s, n) ==
  LET written[k \in 0 .. Len(s)] ==
        IF k = 0 THEN Page!BlankPage ELSE Page!Shown(Page!Typed(written[k - 1], s[k]))
  IN  written[n]

(* Whatever an exception interrupted, the machine halts with its text, and *)
(* nothing else, on the screen.                                            *)
PanicShows ==
  level = "halted" =>
    [lines |-> Lines(screen), row |-> terminal_row, column |-> terminal_column,
     cursor |-> crtc.high * BYTE + crtc.low]
      = Written(PanicText, Len(PanicText))
=============================================================================
