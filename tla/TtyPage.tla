------------------------------ MODULE TtyPage ------------------------------
(***************************************************************************)
(* What a terminal promises: a page of lines, a place to type at, and a    *)
(* cursor that shows the place.  Every operation is one step.  One during  *)
(* which an interrupt came may leave anything, and nothing is promised     *)
(* while the place is off the page.                                        *)
(***************************************************************************)
EXTENDS Integers

CONSTANTS Width, Height, Char, Newline, Blank

VARIABLES
  page,   (* [lines, row, column, cursor]                         *)
  torn    (* an interrupt has come since the last operation ended *)

page_vars == <<page, torn>>

Rows      == 0 .. Height - 1
Columns   == 0 .. Width - 1
BlankLine == [x \in Columns |-> Blank]
BlankPage == [lines |-> [y \in Rows |-> BlankLine], row |-> 0, column |-> 0, cursor |-> 0]

OnPage(p) == p.row \in Rows /\ p.column \in Columns

(* The cursor is where the next character goes.                            *)
Shown(p) == [p EXCEPT !.cursor = p.row * Width + p.column]

(* The next line begins; on the last one the page moves up.                *)
Broken(p) ==
  IF p.row < Height - 1 THEN [p EXCEPT !.row = @ + 1, !.column = 0]
  ELSE [p EXCEPT !.lines = [y \in Rows |-> IF y < Height - 1 THEN @[y + 1] ELSE BlankLine],
                 !.column = 0]

Placed(p, c) == [p EXCEPT !.lines[p.row][p.column] = c]

Typed(p, c) ==
  IF c = Newline THEN Broken(p)
  ELSE IF p.column = Width - 1 THEN Broken(Placed(p, c))
  ELSE [Placed(p, c) EXCEPT !.column = @ + 1]

(* A step back, from the start of a line to the end of the one before.     *)
Back(p) ==
  IF p.column > 0 THEN [p EXCEPT !.column = @ - 1]
  ELSE IF p.row > 0 THEN [p EXCEPT !.row = @ - 1, !.column = Width - 1]
  ELSE p

Type      == ~torn /\ OnPage(page) /\ (\E c \in Char : page' = Shown(Typed(page, c))) /\ UNCHANGED torn
Backspace == ~torn /\ OnPage(page) /\ page' = Shown(Placed(Back(page), Blank)) /\ UNCHANGED torn
Clear     == page' = BlankPage /\ torn' = FALSE
Interrupt == torn' = TRUE /\ UNCHANGED page
Settle    == torn /\ torn' = FALSE
Stray     == ~OnPage(page) /\ UNCHANGED torn

PageNext == Type \/ Backspace \/ Clear \/ Interrupt \/ Settle \/ Stray

PageInit == torn = FALSE /\ page = [BlankPage EXCEPT !.cursor = page.cursor]

PageSpec == PageInit /\ [][PageNext]_page_vars
=============================================================================
