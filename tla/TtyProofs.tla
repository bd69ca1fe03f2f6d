----------------------------- MODULE TtyProofs -----------------------------
(***************************************************************************)
(* The types of the terminal whatever interrupts leave in the registers of *)
(* its calls; that it implements TtyPage, and what a panic shows; for every*)
(* size of the page and every text.                                        *)
(***************************************************************************)
EXTENDS Tty, LeastNat, TLAPS

(* A loop's index is in the page; what is placed can be shown.             *)
Ready(d) ==
  /\ d.at \in {"place", "column", "wrap", "row", "scroll", "blank"} => d.k \in Cell
  /\ d.at = "place" => d.c \in Glyph
  /\ d.at = "idle" => d = Idle

(* Who runs has interrupted the kernel, or the kernel's call is over.      *)
Nested ==
  /\ level # "handler" => call["handler"] = Idle
  /\ level # "panic" => call["panic"] = Idle
  /\ level \in {"panic", "halted"} => call["kernel"] = Idle

IInv == TtyTypeOK /\ Nested /\ \A l \in Level : Ready(call[l])

-----------------------------------------------------------------------------
(* Arithmetic.                                                             *)

(* A page has a cell, and the cells below those of the other lines.        *)
LEMMA CellFacts ==
  /\ 0 \in Cell /\ Width * Height \in Nat
  /\ \A k \in Cell : k + 1 \in 0 .. Width * Height /\ k \in 0 .. Width * Height
  /\ \A k \in Cell : k < Width * (Height - 1) => k + Width \in Cell
  /\ \A k \in Cell : k + 1 # Width * Height => k + 1 \in Cell
<1>1. Width * Height \in Nat /\ Width * Height >= 1
  BY TtyAssumption
<1>2. Width * (Height - 1) = Width * Height - Width
  BY TtyAssumption
<1> QED
  BY <1>1, <1>2, TtyAssumption DEF Cell

(* The last row and column.                                                *)
LEMMA LastFacts ==
  /\ Height - 1 \in Nat /\ Height - 1 < Height /\ 0 < Height
  /\ Width - 1 \in Nat /\ Width - 1 < Width /\ 0 < Width
BY TtyAssumption

(* The place and what it leaves of a position.                             *)
LEMMA PosFacts ==
  /\ BYTE * BYTE \in Nat \ {0}
  /\ \A n \in Nat : n % (BYTE * BYTE) \in 0 .. BYTE * BYTE - 1
  /\ \A x, y \in Nat : (y * Width + x) % (BYTE * BYTE) \in 0 .. BYTE * BYTE - 1
  /\ \A p \in 0 .. BYTE * BYTE - 1 : p % BYTE \in 0 .. BYTE - 1 /\ p \div BYTE \in 0 .. BYTE - 1
<1>1. BYTE * BYTE \in Nat \ {0}
  BY TtyAssumption
<1>2. ASSUME NEW a \in Nat, NEW b \in Nat \ {0} PROVE a % b \in 0 .. b - 1
  OBVIOUS
<1>3. ASSUME NEW x \in Nat, NEW y \in Nat PROVE y * Width + x \in Nat
  BY TtyAssumption
<1>4. ASSUME NEW p \in 0 .. BYTE * BYTE - 1
      PROVE p % BYTE \in 0 .. BYTE - 1 /\ p \div BYTE \in 0 .. BYTE - 1
  <2> DEFINE q == p \div BYTE
  <2>1. p \in Nat /\ p % BYTE \in 0 .. BYTE - 1
    BY <1>1, <1>2, TtyAssumption
  <2>2. q \in Nat /\ p = BYTE * q + (p % BYTE)
    BY <2>1, TtyAssumption
  <2>3. BYTE * q <= p
    BY <2>1, <2>2, TtyAssumption
  <2> HIDE DEF q
  <2>4. ASSUME q >= BYTE PROVE FALSE
    <3>1. BYTE * q >= BYTE * BYTE
      BY <2>2, <2>4, TtyAssumption
    <3> QED
      BY <3>1, <2>3, <2>2, <1>1, TtyAssumption
  <2>5. q \in 0 .. BYTE - 1
    BY <2>2, <2>4, TtyAssumption
  <2> QED
    BY <2>1, <2>5 DEF q
<1> QED
  BY <1>1, <1>2, <1>3, <1>4

(* A byte sent leaves the cursor's registers bytes.                        *)
LEMMA SendKeeps ==
  ASSUME IInv, level \in Level
  PROVE  /\ Sent(my.pos % BYTE)
                \subseteq [index : {"low", "high"}, low : 0 .. BYTE - 1, high : 0 .. BYTE - 1]
         /\ Sent(my.pos \div BYTE)
                \subseteq [index : {"low", "high"}, low : 0 .. BYTE - 1, high : 0 .. BYTE - 1]
<1>1. my.pos \in 0 .. BYTE * BYTE - 1
  BY DEF IInv, TtyTypeOK, my, Call
<1> DEFINE a == my.pos % BYTE
           b == my.pos \div BYTE
<1>2. a \in 0 .. BYTE - 1 /\ b \in 0 .. BYTE - 1
  BY <1>1, PosFacts
<1> HIDE DEF a, b
<1>3. crtc \in [index : {"low", "high"}, low : 0 .. BYTE - 1, high : 0 .. BYTE - 1]
  BY DEF IInv, TtyTypeOK
<1>4. \A v \in 0 .. BYTE - 1 :
        [crtc EXCEPT ![crtc.index] = v]
          \in [index : {"low", "high"}, low : 0 .. BYTE - 1, high : 0 .. BYTE - 1]
  <2>1. CASE crtc.index = "low"
    BY <1>3, <2>1
  <2>2. CASE crtc.index = "high"
    BY <1>3, <2>2
  <2> QED
    BY <1>3, <2>1, <2>2
<1>5. \A n \in LeftNumber : n % BYTE \in 0 .. BYTE - 1
  BY TtyAssumption
<1>6. \A v \in 0 .. BYTE - 1 :
        Sent(v) \subseteq [index : {"low", "high"}, low : 0 .. BYTE - 1, high : 0 .. BYTE - 1]
  BY <1>3, <1>4, <1>5 DEF Sent, Or
<1> QED
  BY <1>2, <1>6 DEF a, b

(* The empty call has its type.                                            *)
LEMMA IdleIsCall == Idle \in Call /\ Ready(Idle)
<1>1. ASSUME NEW n \in Nat \ {0} PROVE 0 \in 0 .. n - 1
  OBVIOUS
<1>2. 0 \in 0 .. BYTE * BYTE - 1 /\ 0 \in 0 .. Width * Height
  BY <1>1, PosFacts, CellFacts
<1> QED
  BY <1>2, TtyAssumption DEF Idle, Call, Place, Char, Ready

-----------------------------------------------------------------------------
(* A step of who runs.                                                     *)

(* What who runs may take for row and column, and for what it makes of     *)
(* them, is a number; for a character, one that can be shown.              *)
LEMMA Found ==
  ASSUME IInv, level \in Level
  PROVE  /\ my \in Call /\ Ready(my) /\ call \in [Level -> Call]
         /\ terminal_row \in RowSeen /\ my.row \in RowSeen /\ RowSeen \subseteq Nat
         /\ terminal_column \in ColumnSeen /\ my.col \in ColumnSeen /\ ColumnSeen \subseteq Nat
         /\ \A n \in Nat : n \in Or({n}, LeftNumber) /\ Or({n}, LeftNumber) \subseteq Nat
         /\ \A c \in Glyph : c \in Or({c}, LeftGlyph) /\ Or({c}, LeftGlyph) \subseteq Glyph
<1>1. my \in Call /\ Ready(my) /\ call \in [Level -> Call]
  BY DEF IInv, TtyTypeOK, my
<1>2. my.row \in Nat /\ my.col \in Nat /\ terminal_row \in Nat /\ terminal_column \in Nat
  BY <1>1 DEF Call, IInv, TtyTypeOK
<1>3. \A n \in Nat : n \in Or({n}, LeftNumber) /\ Or({n}, LeftNumber) \subseteq Nat
  BY TtyAssumption DEF Or
<1>4. \A c \in Glyph : c \in Or({c}, LeftGlyph) /\ Or({c}, LeftGlyph) \subseteq Glyph
  BY TtyAssumption DEF Or
<1>5. /\ terminal_row \in RowSeen /\ my.row \in RowSeen /\ RowSeen \subseteq Nat
      /\ terminal_column \in ColumnSeen /\ my.col \in ColumnSeen /\ ColumnSeen \subseteq Nat
  BY <1>2, TtyAssumption DEF RowSeen, ColumnSeen, Or
<1> QED
  BY <1>1, <1>3, <1>4, <1>5

(* A step that takes the call of who runs to d keeps the invariant.        *)
LEMMA StepKeeps ==
  ASSUME IInv, level \in Level, level' = level, text' \in Seq(Char),
         NEW d, d \in Call, Ready(d), call' = [call EXCEPT ![level] = d],
         screen' \in [Cell -> Glyph],
         crtc' \in [index : {"low", "high"}, low : 0 .. BYTE - 1, high : 0 .. BYTE - 1],
         terminal_row' \in Nat, terminal_column' \in Nat
  PROVE  IInv'
<1>1. /\ call \in [Level -> Call] /\ call'[level] = d
      /\ \A l \in Level \ {level} : call'[l] = call[l]
  BY DEF IInv, TtyTypeOK
<1>2. TtyTypeOK'
  BY <1>1 DEF IInv, TtyTypeOK
<1>3. \A l \in Level : Ready(call[l])'
  BY <1>1 DEF IInv, Ready
<1>4. Nested'
  BY <1>1 DEF IInv, Nested, Level
<1> QED
  BY <1>2, <1>3, <1>4 DEF IInv

(* The character.                                                          *)
LEMMA PutPlacesKeeps == ASSUME IInv, PutPlaces PROVE IInv'
<1>1. level \in Level /\ my.at = "place" /\ level' = level /\ text' = text
  BY DEF PutPlaces, At, my
<1> DEFINE d == [my EXCEPT !.at = "column"]
<1>2. call' = [call EXCEPT ![level] = d]
  BY DEF PutPlaces, Goes, my
<1>3. d \in Call /\ Ready(d)
  BY <1>1, Found, TtyAssumption DEF Call, Place, Ready
<1>4. /\ screen' \in [Cell -> Glyph] /\ terminal_row' \in Nat /\ terminal_column' \in Nat
      /\ crtc' \in [index : {"low", "high"}, low : 0 .. BYTE - 1, high : 0 .. BYTE - 1]
  <2>1. PICK x \in ColumnSeen, y \in RowSeen, c \in Or({my.c}, LeftGlyph) : terminal_putentryat(c, x, y)
    BY DEF PutPlaces
  <2>2. my.c \in Glyph
    BY <1>1, Found DEF Ready
  <2>3. c \in Glyph
    BY <1>1, <2>1, <2>2, Found
  <2>4. screen' \in [Cell -> Glyph]
    BY <2>1, <2>3 DEF terminal_putentryat, IInv, TtyTypeOK
  <2> QED
    BY <2>4 DEF PutPlaces, IInv, TtyTypeOK
<1>5. text' \in Seq(Char)
  BY <1>1 DEF IInv, TtyTypeOK
<1> HIDE DEF d
<1> QED
  BY <1>1, <1>2, <1>3, <1>4, <1>5, StepKeeps

(* The column after it.                                                    *)
LEMMA PutAdvancesKeeps == ASSUME IInv, PutAdvances PROVE IInv'
<1>1. level \in Level /\ my.at = "column" /\ level' = level /\ text' = text
  BY DEF PutAdvances, At, my
<1>2. PICK x \in ColumnSeen : \E kept, tested \in Or({x + 1}, LeftNumber) :
        /\ terminal_column' \in {kept} \cup (IF tested = Width THEN {terminal_column} ELSE {})
        /\ call' = [call EXCEPT ![level].at = IF tested = Width THEN "wrap" ELSE "cursor",
                                ![level].col = kept]
  BY DEF PutAdvances
<1>3. PICK kept \in Or({x + 1}, LeftNumber), tested \in Or({x + 1}, LeftNumber) :
        /\ terminal_column' \in {kept} \cup (IF tested = Width THEN {terminal_column} ELSE {})
        /\ call' = [call EXCEPT ![level].at = IF tested = Width THEN "wrap" ELSE "cursor",
                                ![level].col = kept]
  BY <1>2
<1>4. x \in Nat /\ x + 1 \in Nat /\ kept \in Nat /\ my \in Call /\ Ready(my)
  <2>1. x \in Nat /\ x + 1 \in Nat
    BY <1>1, Found
  <2> QED
    BY <1>1, <2>1, Found
<1> DEFINE to == IF tested = Width THEN "wrap" ELSE "cursor"
           d == [my EXCEPT !.at = to, !.col = kept]
<1>5. call' = [call EXCEPT ![level] = d]
  BY <1>3 DEF my
<1>6. to \in {"wrap", "cursor"}
  OBVIOUS
<1> HIDE DEF to
<1>7. d \in Call /\ Ready(d)
  BY <1>1, <1>4, <1>6 DEF Call, Place, Ready
<1>8. terminal_column' \in Nat /\ terminal_column \in Nat
  BY <1>3, <1>4 DEF IInv, TtyTypeOK
<1>9. /\ screen' \in [Cell -> Glyph] /\ terminal_row' \in Nat /\ text' \in Seq(Char)
      /\ crtc' \in [index : {"low", "high"}, low : 0 .. BYTE - 1, high : 0 .. BYTE - 1]
  BY DEF PutAdvances, IInv, TtyTypeOK
<1> HIDE DEF d
<1> QED
  BY <1>1, <1>5, <1>7, <1>8, <1>9, StepKeeps

(* The first column of the next line.                                      *)
LEMMA PutWrapsKeeps == ASSUME IInv, PutWraps PROVE IInv'
<1>1. level \in Level /\ my.at = "wrap" /\ level' = level /\ text' = text
  BY DEF PutWraps, At, my
<1> DEFINE d == [my EXCEPT !.at = "row", !.col = 0]
<1>2. call' = [call EXCEPT ![level] = d]
  BY DEF PutWraps, Goes, my
<1>3. d \in Call /\ Ready(d)
  BY <1>1, Found, TtyAssumption DEF Call, Place, Ready
<1>4. /\ screen' \in [Cell -> Glyph] /\ terminal_row' \in Nat /\ terminal_column' \in Nat
      /\ crtc' \in [index : {"low", "high"}, low : 0 .. BYTE - 1, high : 0 .. BYTE - 1]
  BY <1>1, Found, TtyAssumption DEF PutWraps, IInv, TtyTypeOK
<1>5. text' \in Seq(Char)
  BY <1>1 DEF IInv, TtyTypeOK
<1> HIDE DEF d
<1> QED
  BY <1>1, <1>2, <1>3, <1>4, <1>5, StepKeeps

(* The next row, or the last one and a scroll.                             *)
LEMMA PutBreaksKeeps == ASSUME IInv, PutBreaks PROVE IInv'
<1>1. level \in Level /\ my.at = "row" /\ level' = level /\ text' = text
  BY DEF PutBreaks, At, my
<1>2. PICK y \in RowSeen : \E kept, tested \in Or({y + 1}, LeftNumber) :
        /\ terminal_row' \in {kept} \cup (IF tested = Height THEN {terminal_row} ELSE {})
        /\ call' = [call EXCEPT ![level].at = IF tested = Height THEN "scroll" ELSE "cursor",
                                ![level].row = kept]
  BY DEF PutBreaks
<1>3. PICK kept \in Or({y + 1}, LeftNumber), tested \in Or({y + 1}, LeftNumber) :
        /\ terminal_row' \in {kept} \cup (IF tested = Height THEN {terminal_row} ELSE {})
        /\ call' = [call EXCEPT ![level].at = IF tested = Height THEN "scroll" ELSE "cursor",
                                ![level].row = kept]
  BY <1>2
<1>4. y \in Nat /\ y + 1 \in Nat /\ kept \in Nat /\ my \in Call /\ Ready(my)
  <2>1. y \in Nat /\ y + 1 \in Nat
    BY <1>1, Found
  <2> QED
    BY <1>1, <2>1, Found
<1> DEFINE to == IF tested = Height THEN "scroll" ELSE "cursor"
           d == [my EXCEPT !.at = to, !.row = kept]
<1>5. call' = [call EXCEPT ![level] = d]
  BY <1>3 DEF my
<1>6. to \in {"scroll", "cursor"}
  OBVIOUS
<1> HIDE DEF to
<1>7. d \in Call /\ Ready(d)
  BY <1>1, <1>4, <1>6 DEF Call, Place, Ready
<1>8. terminal_row' \in Nat /\ terminal_row \in Nat
  BY <1>3, <1>4 DEF IInv, TtyTypeOK
<1>9. /\ screen' \in [Cell -> Glyph] /\ terminal_column' \in Nat /\ text' \in Seq(Char)
      /\ crtc' \in [index : {"low", "high"}, low : 0 .. BYTE - 1, high : 0 .. BYTE - 1]
  BY DEF PutBreaks, IInv, TtyTypeOK
<1> HIDE DEF d
<1> QED
  BY <1>1, <1>5, <1>7, <1>8, <1>9, StepKeeps

(* A cell of the scroll.                                                   *)
LEMMA terminal_scrollKeeps == ASSUME IInv, terminal_scroll PROVE IInv'
<1>1. level \in Level /\ my.at = "scroll" /\ level' = level /\ text' = text
  BY DEF terminal_scroll, At, my
<1> DEFINE d == [my EXCEPT !.at = IF my.k + 1 = Width * Height THEN "home" ELSE "scroll", !.k = my.k + 1]
<1>2. call' = [call EXCEPT ![level] = d]
  BY DEF terminal_scroll, Goes, my
<1>3. d \in Call /\ Ready(d)
  <2> DEFINE to == IF my.k + 1 = Width * Height THEN "home" ELSE "scroll"
  <2>1. to = "home" \/ (to = "scroll" /\ ~(my.k + 1 = Width * Height))
    OBVIOUS
  <2>2. d = [my EXCEPT !.at = to, !.k = my.k + 1]
    OBVIOUS
  <2> HIDE DEF to, d
  <2>3. my.k \in Cell /\ my \in Call /\ Ready(my)
    BY <1>1, Found DEF Ready
  <2>4. my.k + 1 \in 0 .. Width * Height /\ (to = "scroll" => my.k + 1 \in Cell)
    BY <1>1, <2>1, <2>3, CellFacts DEF Ready
  <2>5. d \in Call
    BY <2>1, <2>2, <2>3, <2>4 DEF Call, Place
  <2>6. d.at = to /\ d.k = my.k + 1
    BY <2>2, <2>3 DEF Call
  <2> QED
    BY <2>1, <2>4, <2>5, <2>6 DEF Ready
<1>4. /\ screen' \in [Cell -> Glyph] /\ terminal_row' \in Nat /\ terminal_column' \in Nat
      /\ crtc' \in [index : {"low", "high"}, low : 0 .. BYTE - 1, high : 0 .. BYTE - 1]
  BY <1>1, Found, TtyAssumption, CellFacts DEF terminal_scroll, IInv, TtyTypeOK, Ready, Moved
<1>5. text' \in Seq(Char)
  BY <1>1 DEF IInv, TtyTypeOK
<1> HIDE DEF d
<1> QED
  BY <1>1, <1>2, <1>3, <1>4, <1>5, StepKeeps

(* The last row.                                                           *)
LEMMA ScrollHomesKeeps == ASSUME IInv, ScrollHomes PROVE IInv'
<1>1. level \in Level /\ my.at = "home" /\ level' = level /\ text' = text
  BY DEF ScrollHomes, At, my
<1> DEFINE d == [my EXCEPT !.at = "home_column", !.row = Height - 1]
<1>2. call' = [call EXCEPT ![level] = d]
  BY DEF ScrollHomes, Goes, my
<1>3. d \in Call /\ Ready(d)
  BY <1>1, Found, LastFacts, TtyAssumption DEF Call, Place, Ready
<1>4. /\ screen' \in [Cell -> Glyph] /\ terminal_row' \in Nat /\ terminal_column' \in Nat
      /\ crtc' \in [index : {"low", "high"}, low : 0 .. BYTE - 1, high : 0 .. BYTE - 1]
  BY <1>1, Found, TtyAssumption DEF ScrollHomes, IInv, TtyTypeOK
<1>5. text' \in Seq(Char)
  BY <1>1 DEF IInv, TtyTypeOK
<1> HIDE DEF d
<1> QED
  BY <1>1, <1>2, <1>3, <1>4, <1>5, StepKeeps

(* Its first column.                                                       *)
LEMMA ScrollEndsKeeps == ASSUME IInv, ScrollEnds PROVE IInv'
<1>1. level \in Level /\ my.at = "home_column" /\ level' = level /\ text' = text
  BY DEF ScrollEnds, At, my
<1> DEFINE d == [my EXCEPT !.at = "cursor", !.col = 0]
<1>2. call' = [call EXCEPT ![level] = d]
  BY DEF ScrollEnds, Goes, my
<1>3. d \in Call /\ Ready(d)
  BY <1>1, Found, TtyAssumption DEF Call, Place, Ready
<1>4. /\ screen' \in [Cell -> Glyph] /\ terminal_row' \in Nat /\ terminal_column' \in Nat
      /\ crtc' \in [index : {"low", "high"}, low : 0 .. BYTE - 1, high : 0 .. BYTE - 1]
  BY <1>1, Found, TtyAssumption DEF ScrollEnds, IInv, TtyTypeOK
<1>5. text' \in Seq(Char)
  BY <1>1 DEF IInv, TtyTypeOK
<1> HIDE DEF d
<1> QED
  BY <1>1, <1>2, <1>3, <1>4, <1>5, StepKeeps

(* The last column of the row above.                                       *)
LEMMA BackTurnsKeeps == ASSUME IInv, BackTurns PROVE IInv'
<1>1. level \in Level /\ my.at = "back_column" /\ level' = level /\ text' = text
  BY DEF BackTurns, At, my
<1> DEFINE d == [my EXCEPT !.at = "rub", !.col = Width - 1]
<1>2. call' = [call EXCEPT ![level] = d]
  BY DEF BackTurns, Goes, my
<1>3. d \in Call /\ Ready(d)
  BY <1>1, Found, LastFacts, TtyAssumption DEF Call, Place, Ready
<1>4. /\ screen' \in [Cell -> Glyph] /\ terminal_row' \in Nat /\ terminal_column' \in Nat
      /\ crtc' \in [index : {"low", "high"}, low : 0 .. BYTE - 1, high : 0 .. BYTE - 1]
  BY <1>1, Found, TtyAssumption DEF BackTurns, IInv, TtyTypeOK
<1>5. text' \in Seq(Char)
  BY <1>1 DEF IInv, TtyTypeOK
<1> HIDE DEF d
<1> QED
  BY <1>1, <1>2, <1>3, <1>4, <1>5, StepKeeps

(* A blank where the character was.                                        *)
LEMMA BackRubsKeeps == ASSUME IInv, BackRubs PROVE IInv'
<1>1. level \in Level /\ my.at = "rub" /\ level' = level /\ text' = text
  BY DEF BackRubs, At, my
<1> DEFINE d == [my EXCEPT !.at = "cursor"]
<1>2. call' = [call EXCEPT ![level] = d]
  BY DEF BackRubs, Goes, my
<1>3. d \in Call /\ Ready(d)
  BY <1>1, Found, TtyAssumption DEF Call, Place, Ready
<1>4. /\ screen' \in [Cell -> Glyph] /\ terminal_row' \in Nat /\ terminal_column' \in Nat
      /\ crtc' \in [index : {"low", "high"}, low : 0 .. BYTE - 1, high : 0 .. BYTE - 1]
  BY <1>1, Found, TtyAssumption DEF BackRubs, IInv, TtyTypeOK, terminal_putentryat
<1>5. text' \in Seq(Char)
  BY <1>1 DEF IInv, TtyTypeOK
<1> HIDE DEF d
<1> QED
  BY <1>1, <1>2, <1>3, <1>4, <1>5, StepKeeps

(* A cell of the clear.                                                    *)
LEMMA terminal_clearKeeps == ASSUME IInv, terminal_clear PROVE IInv'
<1>1. level \in Level /\ my.at = "blank" /\ level' = level /\ text' = text
  BY DEF terminal_clear, At, my
<1> DEFINE d == [my EXCEPT !.at = IF my.k + 1 = Width * Height THEN "clear_row" ELSE "blank", !.k = my.k + 1]
<1>2. call' = [call EXCEPT ![level] = d]
  BY DEF terminal_clear, Goes, my
<1>3. d \in Call /\ Ready(d)
  <2> DEFINE to == IF my.k + 1 = Width * Height THEN "clear_row" ELSE "blank"
  <2>1. to = "clear_row" \/ (to = "blank" /\ ~(my.k + 1 = Width * Height))
    OBVIOUS
  <2>2. d = [my EXCEPT !.at = to, !.k = my.k + 1]
    OBVIOUS
  <2> HIDE DEF to, d
  <2>3. my.k \in Cell /\ my \in Call /\ Ready(my)
    BY <1>1, Found DEF Ready
  <2>4. my.k + 1 \in 0 .. Width * Height /\ (to = "blank" => my.k + 1 \in Cell)
    BY <1>1, <2>1, <2>3, CellFacts DEF Ready
  <2>5. d \in Call
    BY <2>1, <2>2, <2>3, <2>4 DEF Call, Place
  <2>6. d.at = to /\ d.k = my.k + 1
    BY <2>2, <2>3 DEF Call
  <2> QED
    BY <2>1, <2>4, <2>5, <2>6 DEF Ready
<1>4. /\ screen' \in [Cell -> Glyph] /\ terminal_row' \in Nat /\ terminal_column' \in Nat
      /\ crtc' \in [index : {"low", "high"}, low : 0 .. BYTE - 1, high : 0 .. BYTE - 1]
  BY <1>1, Found, TtyAssumption DEF terminal_clear, IInv, TtyTypeOK
<1>5. text' \in Seq(Char)
  BY <1>1 DEF IInv, TtyTypeOK
<1> HIDE DEF d
<1> QED
  BY <1>1, <1>2, <1>3, <1>4, <1>5, StepKeeps

(* Its row.                                                                *)
LEMMA ClearRowKeeps == ASSUME IInv, ClearRow PROVE IInv'
<1>1. level \in Level /\ my.at = "clear_row" /\ level' = level /\ text' = text
  BY DEF ClearRow, At, my
<1> DEFINE d == [my EXCEPT !.at = "clear_column", !.row = 0]
<1>2. call' = [call EXCEPT ![level] = d]
  BY DEF ClearRow, Goes, my
<1>3. d \in Call /\ Ready(d)
  BY <1>1, Found, TtyAssumption DEF Call, Place, Ready
<1>4. /\ screen' \in [Cell -> Glyph] /\ terminal_row' \in Nat /\ terminal_column' \in Nat
      /\ crtc' \in [index : {"low", "high"}, low : 0 .. BYTE - 1, high : 0 .. BYTE - 1]
  BY <1>1, Found, TtyAssumption DEF ClearRow, IInv, TtyTypeOK
<1>5. text' \in Seq(Char)
  BY <1>1 DEF IInv, TtyTypeOK
<1> HIDE DEF d
<1> QED
  BY <1>1, <1>2, <1>3, <1>4, <1>5, StepKeeps

(* Its column.                                                             *)
LEMMA ClearColumnKeeps == ASSUME IInv, ClearColumn PROVE IInv'
<1>1. level \in Level /\ my.at = "clear_column" /\ level' = level /\ text' = text
  BY DEF ClearColumn, At, my
<1> DEFINE d == [my EXCEPT !.at = "cursor", !.col = 0]
<1>2. call' = [call EXCEPT ![level] = d]
  BY DEF ClearColumn, Goes, my
<1>3. d \in Call /\ Ready(d)
  BY <1>1, Found, TtyAssumption DEF Call, Place, Ready
<1>4. /\ screen' \in [Cell -> Glyph] /\ terminal_row' \in Nat /\ terminal_column' \in Nat
      /\ crtc' \in [index : {"low", "high"}, low : 0 .. BYTE - 1, high : 0 .. BYTE - 1]
  BY <1>1, Found, TtyAssumption DEF ClearColumn, IInv, TtyTypeOK
<1>5. text' \in Seq(Char)
  BY <1>1 DEF IInv, TtyTypeOK
<1> HIDE DEF d
<1> QED
  BY <1>1, <1>2, <1>3, <1>4, <1>5, StepKeeps

(* The position to show.                                                   *)
LEMMA terminal_setcursorposKeeps == ASSUME IInv, terminal_setcursorpos PROVE IInv'
<1>1. level \in Level /\ my.at = "cursor" /\ level' = level /\ text' = text
  BY DEF terminal_setcursorpos, At, my
<1>2. PICK x \in ColumnSeen, y \in RowSeen :
        \E line \in Or({y * Width}, LeftNumber) : \E pos \in Or({line + x}, LeftNumber) :
          call' = [call EXCEPT ![level].at = "low_index", ![level].pos = pos % (BYTE * BYTE)]
  BY DEF terminal_setcursorpos
<1>3. PICK line \in Or({y * Width}, LeftNumber) : \E pos \in Or({line + x}, LeftNumber) :
        call' = [call EXCEPT ![level].at = "low_index", ![level].pos = pos % (BYTE * BYTE)]
  BY <1>2
<1>4. PICK pos \in Or({line + x}, LeftNumber) :
        call' = [call EXCEPT ![level].at = "low_index", ![level].pos = pos % (BYTE * BYTE)]
  BY <1>3
<1>5. pos \in Nat /\ my \in Call /\ Ready(my)
  <2>1. x \in Nat /\ y \in Nat /\ my \in Call /\ Ready(my)
    BY <1>1, Found
  <2>2. y * Width \in Nat
    BY <2>1, TtyAssumption
  <2>3. line \in Nat
    BY <1>1, <2>2, Found
  <2>4. line + x \in Nat
    BY <2>1, <2>3
  <2> QED
    BY <1>1, <2>1, <2>4, Found
<1> DEFINE d == [my EXCEPT !.at = "low_index", !.pos = pos % (BYTE * BYTE)]
<1>6. call' = [call EXCEPT ![level] = d]
  BY <1>4 DEF my
<1>7. pos % (BYTE * BYTE) \in 0 .. BYTE * BYTE - 1
  BY <1>5, PosFacts
<1>8. d \in Call /\ Ready(d)
  BY <1>1, <1>5, <1>7 DEF Call, Place, Ready
<1>9. /\ screen' \in [Cell -> Glyph] /\ terminal_row' \in Nat /\ terminal_column' \in Nat
      /\ crtc' \in [index : {"low", "high"}, low : 0 .. BYTE - 1, high : 0 .. BYTE - 1]
      /\ text' \in Seq(Char)
  BY DEF terminal_setcursorpos, IInv, TtyTypeOK, terminal
<1> HIDE DEF d
<1> QED
  BY <1>1, <1>6, <1>8, <1>9, StepKeeps

(* The index of the low byte.                                              *)
LEMMA SelectLowKeeps == ASSUME IInv, SelectLow PROVE IInv'
<1>1. level \in Level /\ my.at = "low_index" /\ level' = level /\ text' = text
  BY DEF SelectLow, At, my
<1> DEFINE d == [my EXCEPT !.at = "low"]
<1>2. call' = [call EXCEPT ![level] = d]
  BY DEF SelectLow, Goes, my
<1>3. d \in Call /\ Ready(d)
  BY <1>1, Found, TtyAssumption DEF Call, Place, Ready
<1>4. /\ screen' \in [Cell -> Glyph] /\ terminal_row' \in Nat /\ terminal_column' \in Nat
      /\ crtc' \in [index : {"low", "high"}, low : 0 .. BYTE - 1, high : 0 .. BYTE - 1]
  <2>1. crtc' \in {crtc, [crtc EXCEPT !.index = "low"]}
    BY DEF SelectLow, Or
  <2> QED
    BY <2>1 DEF SelectLow, IInv, TtyTypeOK
<1>5. text' \in Seq(Char)
  BY <1>1 DEF IInv, TtyTypeOK
<1> HIDE DEF d
<1> QED
  BY <1>1, <1>2, <1>3, <1>4, <1>5, StepKeeps

(* The low byte.                                                           *)
LEMMA SendLowKeeps == ASSUME IInv, SendLow PROVE IInv'
<1>1. level \in Level /\ my.at = "low" /\ level' = level /\ text' = text
  BY DEF SendLow, At, my
<1> DEFINE d == [my EXCEPT !.at = "high_index"]
<1>2. call' = [call EXCEPT ![level] = d]
  BY DEF SendLow, Goes, my
<1>3. d \in Call /\ Ready(d)
  BY <1>1, Found, TtyAssumption DEF Call, Place, Ready
<1>4. /\ screen' \in [Cell -> Glyph] /\ terminal_row' \in Nat /\ terminal_column' \in Nat
      /\ crtc' \in [index : {"low", "high"}, low : 0 .. BYTE - 1, high : 0 .. BYTE - 1]
  BY <1>1, Found, TtyAssumption, SendKeeps DEF SendLow, IInv, TtyTypeOK, my
<1>5. text' \in Seq(Char)
  BY <1>1 DEF IInv, TtyTypeOK
<1> HIDE DEF d
<1> QED
  BY <1>1, <1>2, <1>3, <1>4, <1>5, StepKeeps

(* The index of the high byte.                                             *)
LEMMA SelectHighKeeps == ASSUME IInv, SelectHigh PROVE IInv'
<1>1. level \in Level /\ my.at = "high_index" /\ level' = level /\ text' = text
  BY DEF SelectHigh, At, my
<1> DEFINE d == [my EXCEPT !.at = "high"]
<1>2. call' = [call EXCEPT ![level] = d]
  BY DEF SelectHigh, Goes, my
<1>3. d \in Call /\ Ready(d)
  BY <1>1, Found, TtyAssumption DEF Call, Place, Ready
<1>4. /\ screen' \in [Cell -> Glyph] /\ terminal_row' \in Nat /\ terminal_column' \in Nat
      /\ crtc' \in [index : {"low", "high"}, low : 0 .. BYTE - 1, high : 0 .. BYTE - 1]
  <2>1. crtc' \in {crtc, [crtc EXCEPT !.index = "high"]}
    BY DEF SelectHigh, Or
  <2> QED
    BY <2>1 DEF SelectHigh, IInv, TtyTypeOK
<1>5. text' \in Seq(Char)
  BY <1>1 DEF IInv, TtyTypeOK
<1> HIDE DEF d
<1> QED
  BY <1>1, <1>2, <1>3, <1>4, <1>5, StepKeeps

(* The high byte, and the end of the call.                                 *)
LEMMA SendHighKeeps == ASSUME IInv, SendHigh PROVE IInv'
<1>1. level \in Level /\ my.at = "high" /\ level' = level /\ text' = text
  BY DEF SendHigh, At, my
<1> DEFINE d == Idle
<1>2. call' = [call EXCEPT ![level] = d]
  BY DEF SendHigh, Goes, my
<1>3. d \in Call /\ Ready(d)
  BY <1>1, Found, IdleIsCall, TtyAssumption DEF Call, Place, Ready
<1>4. /\ screen' \in [Cell -> Glyph] /\ terminal_row' \in Nat /\ terminal_column' \in Nat
      /\ crtc' \in [index : {"low", "high"}, low : 0 .. BYTE - 1, high : 0 .. BYTE - 1]
  BY <1>1, Found, TtyAssumption, SendKeeps DEF SendHigh, IInv, TtyTypeOK, my
<1>5. text' \in Seq(Char)
  BY <1>1 DEF IInv, TtyTypeOK
<1> HIDE DEF d
<1> QED
  BY <1>1, <1>2, <1>3, <1>4, <1>5, StepKeeps

(* A step back.                                                            *)
LEMMA terminal_backspaceKeeps == ASSUME IInv, terminal_backspace PROVE IInv'
<1>1. /\ level \in Level /\ my.at = "back" /\ level' = level
      /\ UNCHANGED <<screen, crtc, text>>
  BY DEF terminal_backspace, At, my
<1>2. PICK x \in ColumnSeen, y \in RowSeen :
       \/ /\ x = 0 /\ y = 0
          /\ call' = [call EXCEPT ![level].at = "rub", ![level].col = x, ![level].row = y]
          /\ UNCHANGED <<terminal_row, terminal_column>>
       \/ /\ x = 0 /\ y > 0
          /\ \E kept \in Or({y - 1}, LeftNumber) :
               /\ terminal_row' = kept /\ UNCHANGED terminal_column
               /\ call' = [call EXCEPT ![level].at = "back_column", ![level].row = kept]
       \/ /\ x # 0
          /\ \E kept \in Or({x - 1}, LeftNumber) :
               /\ terminal_column' = kept /\ UNCHANGED terminal_row
               /\ call' = [call EXCEPT ![level].at = "rub", ![level].col = kept, ![level].row = y]
  BY DEF terminal_backspace
<1>3. x \in Nat /\ y \in Nat /\ my \in Call
  BY <1>1, <1>2, Found
<1>4. /\ screen' \in [Cell -> Glyph] /\ text' \in Seq(Char)
      /\ crtc' \in [index : {"low", "high"}, low : 0 .. BYTE - 1, high : 0 .. BYTE - 1]
      /\ terminal_row \in Nat /\ terminal_column \in Nat
  BY <1>1 DEF IInv, TtyTypeOK
<1>5. CASE /\ x = 0 /\ y = 0 /\ UNCHANGED <<terminal_row, terminal_column>>
           /\ call' = [call EXCEPT ![level].at = "rub", ![level].col = x, ![level].row = y]
  <2> DEFINE d == [my EXCEPT !.at = "rub", !.col = x, !.row = y]
  <2>1. call' = [call EXCEPT ![level] = d]
    BY <1>5 DEF my
  <2>2. d \in Call /\ Ready(d)
    BY <1>3 DEF Call, Place, Ready
  <2> HIDE DEF d
  <2> QED
    BY <1>1, <1>4, <1>5, <2>1, <2>2, StepKeeps
<1>6. CASE /\ x = 0 /\ y > 0
           /\ \E kept \in Or({y - 1}, LeftNumber) :
                /\ terminal_row' = kept /\ UNCHANGED terminal_column
                /\ call' = [call EXCEPT ![level].at = "back_column", ![level].row = kept]
  <2>1. PICK kept \in Or({y - 1}, LeftNumber) :
          /\ terminal_row' = kept /\ UNCHANGED terminal_column
          /\ call' = [call EXCEPT ![level].at = "back_column", ![level].row = kept]
    BY <1>6
  <2>2. y - 1 \in Nat
    BY <1>3, <1>6
  <2>3. kept \in Nat
    BY <1>1, <2>2, Found
  <2> DEFINE d == [my EXCEPT !.at = "back_column", !.row = kept]
  <2>4. call' = [call EXCEPT ![level] = d]
    BY <2>1 DEF my
  <2>5. d \in Call /\ Ready(d)
    BY <1>3, <2>3 DEF Call, Place, Ready
  <2> HIDE DEF d
  <2> QED
    BY <1>1, <1>4, <2>1, <2>3, <2>4, <2>5, StepKeeps
<1>7. CASE /\ x # 0
           /\ \E kept \in Or({x - 1}, LeftNumber) :
                /\ terminal_column' = kept /\ UNCHANGED terminal_row
                /\ call' = [call EXCEPT ![level].at = "rub", ![level].col = kept, ![level].row = y]
  <2>1. PICK kept \in Or({x - 1}, LeftNumber) :
          /\ terminal_column' = kept /\ UNCHANGED terminal_row
          /\ call' = [call EXCEPT ![level].at = "rub", ![level].col = kept, ![level].row = y]
    BY <1>7
  <2>2. x - 1 \in Nat
    BY <1>3, <1>7
  <2>3. kept \in Nat
    BY <1>1, <2>2, Found
  <2> DEFINE d == [my EXCEPT !.at = "rub", !.col = kept, !.row = y]
  <2>4. call' = [call EXCEPT ![level] = d]
    BY <2>1 DEF my
  <2>5. d \in Call /\ Ready(d)
    BY <1>3, <2>3 DEF Call, Place, Ready
  <2> HIDE DEF d
  <2> QED
    BY <1>1, <1>4, <2>1, <2>3, <2>4, <2>5, StepKeeps
<1> QED
  BY <1>2, <1>5, <1>6, <1>7

(* A newline taken for a character.                                        *)
LEMMA CharLostKeeps == ASSUME IInv, CharLost PROVE IInv'
<1>1. /\ level \in Level /\ my.at = "wrap" /\ level' = level
      /\ UNCHANGED <<screen, terminal_row, terminal_column, crtc, text>>
  BY DEF CharLost, At, my, terminal
<1>2. PICK c \in LeftGlyph : call' = [call EXCEPT ![level].at = "place", ![level].c = c]
  BY DEF CharLost
<1> DEFINE d == [my EXCEPT !.at = "place", !.c = c]
<1>3. call' = [call EXCEPT ![level] = d]
  BY <1>2 DEF my
<1>4. c \in Glyph /\ my \in Call /\ Ready(my)
  BY <1>1, Found, TtyAssumption
<1>5. d \in Call /\ Ready(d)
  BY <1>1, <1>4 DEF Call, Place, Ready, Char
<1> HIDE DEF d
<1> QED
  BY <1>1, <1>3, <1>5, StepKeeps DEF IInv, TtyTypeOK

(* A store that goes astray ends what is modelled.                         *)
LEMMA StoreMissesKeeps == ASSUME IInv, StoreMisses PROVE IInv'
<1>1. /\ UNCHANGED <<screen, terminal_row, terminal_column, crtc, call, text>>
      /\ level = "kernel" /\ level' = "wild"
  BY DEF StoreMisses, Lost, terminal
<1>2. TtyTypeOK'
  BY <1>1 DEF IInv, TtyTypeOK
<1>3. Nested' /\ \A l \in Level : Ready(call[l])'
  BY <1>1 DEF IInv, Nested, Ready
<1> QED
  BY <1>2, <1>3 DEF IInv

(* Any step of a call.                                                     *)
LEMMA StepsKeep == ASSUME IInv, Step PROVE IInv'
BY PutPlacesKeeps, PutAdvancesKeeps, PutWrapsKeeps, PutBreaksKeeps, terminal_scrollKeeps,
   ScrollHomesKeeps, ScrollEndsKeeps, terminal_backspaceKeeps, BackTurnsKeeps, BackRubsKeeps,
   terminal_clearKeeps, ClearRowKeeps, ClearColumnKeeps, terminal_setcursorposKeeps,
   SelectLowKeeps, SendLowKeeps, SelectHighKeeps, SendHighKeeps, CharLostKeeps,
   StoreMissesKeeps DEF Step

-----------------------------------------------------------------------------
(* Who calls.                                                              *)

(* A call that begins has loaded what it found.                            *)
LEMMA LoadedKeeps ==
  ASSUME IInv, level \in Level, level' = level, my.at = "idle", UNCHANGED terminal,
         text' \in Seq(Char), NEW place \in {"wrap", "place", "back", "blank"}, NEW c \in Char,
         place = "place" => c \in Glyph, Loaded(place, c)
  PROVE  IInv'
<1> DEFINE d == [at |-> place, c |-> c, k |-> 0, row |-> terminal_row, col |-> terminal_column, pos |-> 0]
<1>1. call' = [call EXCEPT ![level] = d]
  BY DEF Loaded
<1>2. /\ screen' \in [Cell -> Glyph] /\ terminal_row' \in Nat /\ terminal_column' \in Nat
      /\ crtc' \in [index : {"low", "high"}, low : 0 .. BYTE - 1, high : 0 .. BYTE - 1]
      /\ terminal_row' = terminal_row /\ terminal_column' = terminal_column
  BY DEF IInv, TtyTypeOK, terminal
<1>3. 0 \in 0 .. Width * Height /\ 0 \in 0 .. BYTE * BYTE - 1 /\ 0 \in Cell
  BY IdleIsCall, CellFacts DEF Idle, Call
<1>4. d \in Call /\ Ready(d) /\ d.row = terminal_row /\ d.col = terminal_column
  BY <1>2, <1>3 DEF Call, Place, Ready
<1> HIDE DEF d
<1> QED
  BY <1>1, <1>2, <1>4, StepKeeps

(* The kernel's calls, and the handlers'.                                  *)
LEMMA CallsKeep == ASSUME IInv, KernelCalls \/ HandlerTypes PROVE IInv'
<1>1. text \in Seq(Char) /\ Blank \in Char /\ InChar \subseteq Char /\ "place" # "wrap"
  BY TtyAssumption DEF IInv, TtyTypeOK, Char
<1>2. CASE KernelCalls
  <2>1. /\ level \in Level /\ level' = level /\ my.at = "idle" /\ UNCHANGED terminal
        /\ text' \in Seq(Char)
    BY <1>1, <1>2 DEF KernelCalls, At, my
  <2>2. CASE \E c \in InChar : terminal_putchar(c)
    <3>1. PICK c \in InChar : terminal_putchar(c)
      BY <2>2
    <3>2. CASE c = Newline
      BY <1>1, <2>1, <3>1, <3>2, LoadedKeeps DEF terminal_putchar
    <3>3. CASE c # Newline
      BY <1>1, <2>1, <3>1, <3>3, LoadedKeeps DEF terminal_putchar, Char
    <3> QED
      BY <3>2, <3>3
  <2>3. CASE Loaded("back", Blank)
    BY <1>1, <2>1, <2>3, LoadedKeeps
  <2>4. CASE Loaded("blank", Blank)
    BY <1>1, <2>1, <2>4, LoadedKeeps
  <2> QED
    BY <1>2, <2>2, <2>3, <2>4 DEF KernelCalls
<1>3. CASE HandlerTypes
  <2> DEFINE c == Head(text)
  <2>1. /\ level \in Level /\ level' = level /\ my.at = "idle" /\ UNCHANGED terminal
        /\ text # <<>> /\ text' = Tail(text)
    BY <1>3 DEF HandlerTypes, At, my
  <2>2. text' \in Seq(Char) /\ c \in Char
    BY <1>1, <2>1
  <2>3. terminal_putchar(c)
    BY <1>3 DEF HandlerTypes
  <2> HIDE DEF c
  <2>4. CASE c = Newline
    BY <1>1, <2>1, <2>2, <2>3, <2>4, LoadedKeeps DEF terminal_putchar
  <2>5. CASE c # Newline
    BY <1>1, <2>1, <2>2, <2>3, <2>5, LoadedKeeps DEF terminal_putchar, Char
  <2> QED
    BY <2>4, <2>5
<1> QED
  BY <1>2, <1>3

(* What comes in between, and how it ends.                                 *)
LEMMA SwitchKeeps == ASSUME IInv, irq_handler \/ Iret \/ exception_handler \/ abort PROVE IInv'
<1>1. /\ UNCHANGED <<screen, terminal_row, terminal_column, crtc>>
      /\ level' \in Level \cup {"halted"}
  BY DEF irq_handler, Iret, exception_handler, abort, terminal, Level
<1>2. text' \in Seq(Char)
  <2>1. <<>> \in Seq(Char) /\ text \in Seq(Char)
    BY DEF IInv, TtyTypeOK
  <2>2. text' \in {<<>>, Message, PanicText, text}
    BY DEF irq_handler, Iret, exception_handler, abort
  <2> QED
    BY <2>1, <2>2, TtyAssumption
<1>3. CASE irq_handler \/ Iret \/ abort
  <2>1. UNCHANGED call
    BY <1>3 DEF irq_handler, Iret, abort
  <2>2. Nested'
    <3>1. CASE irq_handler
      BY <2>1, <3>1 DEF irq_handler, IInv, Nested
    <3>2. CASE Iret
      BY <2>1, <3>2 DEF Iret, At, IInv, Nested, Ready, Level
    <3>3. CASE abort
      BY <2>1, <3>3 DEF abort, At, IInv, Nested, Ready, Level
    <3> QED
      BY <1>3, <3>1, <3>2, <3>3
  <2>3. TtyTypeOK'
    BY <1>1, <1>2, <2>1 DEF IInv, TtyTypeOK
  <2>4. \A l \in Level : Ready(call[l])'
    BY <1>1, <2>1 DEF IInv, Ready
  <2> QED
    BY <2>2, <2>3, <2>4 DEF IInv
<1>4. CASE exception_handler
  <2> DEFINE d == [Idle EXCEPT !.at = "blank"]
  <2>1. /\ level' = "panic" /\ call' \in [Level -> Call] /\ call'["panic"] = d
        /\ call'["kernel"] = Idle /\ call'["handler"] = Idle
    <3>1. d \in Call
      BY IdleIsCall DEF Call, Place
    <3> QED
      BY <1>4, <3>1, IdleIsCall DEF exception_handler, Level
  <2>2. d.at = "blank" /\ d.k \in Cell
    BY CellFacts DEF Idle
  <2> HIDE DEF d
  <2>3. \A l \in Level : Ready(call'[l])
    <3>1. Ready(d)
      BY <2>2 DEF Ready
    <3> QED
      BY <2>1, <3>1, IdleIsCall DEF Level
  <2>4. \A l \in Level : Ready(call[l])'
    BY <2>3 DEF Ready
  <2>5. Nested' /\ TtyTypeOK'
    BY <1>1, <1>2, <2>1 DEF Nested, IInv, TtyTypeOK
  <2> QED
    BY <2>4, <2>5 DEF IInv
<1> QED
  BY <1>3, <1>4

(* The invariant holds and is kept.                                        *)
THEOREM TtyInvariance == TtySpec => []IInv
<1>1. TtyInit => IInv
  <2> SUFFICES ASSUME TtyInit PROVE IInv
    OBVIOUS
  <2>1. call \in [Level -> Call] /\ \A l \in Level : call[l] = Idle
    BY IdleIsCall DEF TtyInit
  <2>2. TtyTypeOK
    BY <2>1, TtyAssumption DEF TtyInit, TtyTypeOK, Level, Char
  <2>3. \A l \in Level : Ready(call[l])
    BY <2>1, IdleIsCall
  <2>4. Nested
    BY <2>1 DEF Nested, Level
  <2> QED
    BY <2>2, <2>3, <2>4 DEF IInv
<1>2. IInv /\ [TtyNext]_tty_vars => IInv'
  <2>1. ASSUME IInv, UNCHANGED tty_vars PROVE IInv'
    BY <2>1 DEF tty_vars, IInv, TtyTypeOK, Nested, Ready
  <2> QED
    BY <2>1, StepsKeep, CallsKeep, SwitchKeeps DEF TtyNext
<1> QED
  BY <1>1, <1>2, PTL DEF TtySpec

(* Type correctness: no row or column goes below zero, and every position  *)
(* sent fits the two bytes.                                                *)
THEOREM TtyTypeCorrect == TtySpec => []TtyTypeOK
<1>1. IInv => TtyTypeOK
  BY DEF IInv
<1> QED
  BY <1>1, TtyInvariance, PTL

-----------------------------------------------------------------------------
(* What a call that no interrupt came in the middle of has done so far: d  *)
(* is the call, p the page the last call left, s, y, x and r are the       *)
(* screen, the row, the column and the cursor's registers.                 *)

(* The two bytes of the cursor can show every cell.                        *)
CursorFits == Width * Height <= BYTE * BYTE

PageType ==
  /\ torn \in BOOLEAN
  /\ page \in [screen : [Cell -> Glyph], row : Nat, column : Nat, cursor : Nat]

Same(p, s, y, x) == s = p.screen /\ y = p.row /\ x = p.column

(* The copies are those of the variables.                                  *)
Regs(d, y, x) == d.row = y /\ d.col = x

With(s, y, x, c) == [k \in Cell |-> IF k = y * Width + x THEN c ELSE s[k]]

(* The screen when c is placed, and when j cells of it have moved up.      *)
Into(p, c) == IF c = Newline THEN p.screen ELSE With(p.screen, p.row, p.column, c)

Scrolled(s, j) ==
  [k \in Cell |-> IF k < j THEN (IF k < Width * (Height - 1) THEN s[k + Width] ELSE Blank) ELSE s[k]]

Cleared == [k \in Cell |-> Blank]

Ends(p, c) == c = Newline \/ p.column = Width - 1

(* The outcomes.                                                           *)
TypeDone(p, c, s, y, x) ==
  \/ ~Ends(p, c) /\ s = Into(p, c) /\ y = p.row /\ x = p.column + 1
  \/ Ends(p, c) /\ p.row # Height - 1 /\ s = Into(p, c) /\ y = p.row + 1 /\ x = 0
  \/ /\ Ends(p, c) /\ p.row = Height - 1
     /\ s = Scrolled(Into(p, c), Width * Height) /\ y = Height - 1 /\ x = 0

BackAt(p, y, x) ==
  \/ p.column > 0 /\ y = p.row /\ x = p.column - 1
  \/ p.column = 0 /\ p.row > 0 /\ y = p.row - 1 /\ x = Width - 1
  \/ p.column = 0 /\ p.row = 0 /\ y = 0 /\ x = 0

BackDone(p, s, y, x) == BackAt(p, y, x) /\ s = With(p.screen, y, x, Blank)
ClearDone(s, y, x)   == s = Cleared /\ y = 0 /\ x = 0

ShowPlaces   == {"low_index", "low", "high_index", "high"}
CursorPlaces == {"cursor", "low_index", "low", "high_index", "high"}
ClearPlaces  == {"blank", "clear_row", "clear_column"}

(* On the way there.                                                       *)
TypeFollows(d, p, s, y, x) ==
  /\ d.at \in {"place", "column"} => d.c # Newline /\ Regs(d, y, x)
  /\ d.at \in {"place", "column", "wrap", "row"} => d.k = 0
  /\ d.at = "column" => s = Into(p, d.c) /\ y = p.row /\ x = p.column
  /\ d.at \in {"wrap", "row"} => Ends(p, d.c) /\ s = Into(p, d.c) /\ y = p.row /\ d.row = p.row
  /\ d.at \in {"row", "scroll", "home", "home_column"} => x = 0 /\ d.col = 0
  /\ d.at \in {"scroll", "home", "home_column"} => Ends(p, d.c) /\ p.row = Height - 1
  /\ d.at = "scroll" => s = Scrolled(Into(p, d.c), d.k)
  /\ d.at \in {"home", "home_column"} => s = Scrolled(Into(p, d.c), Width * Height)
  /\ d.at = "home_column" => y = Height - 1 /\ d.row = Height - 1

BackFollows(d, p, s, y, x) ==
  /\ d.at = "back" => Regs(d, y, x)
  /\ d.at = "back_column" =>
       s = p.screen /\ p.column = 0 /\ p.row > 0 /\ y = p.row - 1 /\ d.row = y
  /\ d.at = "rub" => s = p.screen /\ BackAt(p, y, x) /\ Regs(d, y, x)

ClearFollows(d, s, y, x) ==
  /\ d.at = "blank" => \A k \in Cell : k < d.k => s[k] = Blank
  /\ d.at \in {"clear_row", "clear_column"} => s = Cleared
  /\ d.at = "clear_column" => y = 0 /\ d.row = 0

CursorFollows(d, y, x, r) ==
  /\ d.at = "cursor" => Regs(d, y, x)
  /\ d.at \in ShowPlaces => d.pos = (y * Width + x) % (BYTE * BYTE)
  /\ d.at = "low" => r.index = "low"
  /\ d.at \in {"high_index", "high"} => r.low = d.pos % BYTE
  /\ d.at = "high" => r.index = "high"

Tracking(d, p, s, y, x, r) ==
  /\ d.at \in {"idle", "place", "back"} => Same(p, s, y, x)
  /\ d.at = "idle" => p.cursor = r.high * BYTE + r.low
  /\ TypeFollows(d, p, s, y, x) /\ BackFollows(d, p, s, y, x)
  /\ ClearFollows(d, s, y, x) /\ CursorFollows(d, y, x, r)
  /\ d.at \in CursorPlaces =>
       TypeDone(p, d.c, s, y, x) \/ BackDone(p, s, y, x) \/ ClearDone(s, y, x)

(* After an exception the terminal is cleared whatever the page was.       *)
Clearing(d, s, y, x, r) ==
  /\ d.at \in ClearPlaces \cup CursorPlaces
  /\ ClearFollows(d, s, y, x) /\ CursorFollows(d, y, x, r)
  /\ d.at \in CursorPlaces => ClearDone(s, y, x)

Tracks ==
  /\ PageType
  /\ ~torn /\ level = "handler" => call["kernel"] = Idle
  /\ level \in Level /\ ~torn =>
       Tracking(my, page, screen, terminal_row, terminal_column, crtc)
  /\ level = "panic" /\ torn => Clearing(my, screen, terminal_row, terminal_column, crtc)

(* What a step of who runs has to show.                                    *)
LEMMA TrackStep ==
  ASSUME IInv, Tracks, level \in Level, level' = level, UNCHANGED <<page, torn>>,
         NEW d, call' = [call EXCEPT ![level] = d],
         ~torn => Tracking(d, page, screen', terminal_row', terminal_column', crtc'),
         level = "panic" /\ torn => Clearing(d, screen', terminal_row', terminal_column', crtc')
  PROVE  Tracks'
<1>1. my' = d /\ (level = "handler" => call'["kernel"] = call["kernel"])
  BY DEF IInv, TtyTypeOK, my, Level
<1>2. PageType'
  BY DEF Tracks, PageType
<1> QED BY <1>1, <1>2 DEF Tracks

(* The character.                                                          *)
LEMMA PutPlacesTracks == ASSUME IInv, Tracks, PutPlaces PROVE Tracks'
<1> DEFINE d == [my EXCEPT !.at = "column"]
<1>1. /\ level \in Level /\ my.at = "place" /\ level' = level
      /\ UNCHANGED <<terminal_row, terminal_column, crtc, page, torn>> /\ call' = [call EXCEPT ![level] = d]
  BY DEF PutPlaces, At, Goes, my, history, terminal
<1>2. my \in Call /\ d.at = "column" /\ d.c = my.c /\ d.k = my.k /\ d.row = my.row /\ d.col = my.col
  BY <1>1, Found DEF Call
<1> HIDE DEF d
<1>3. ASSUME ~torn
      PROVE  Tracking(d, page, screen', terminal_row', terminal_column', crtc')
  <2>1. Tracking(my, page, screen, terminal_row, terminal_column, crtc)
    BY <1>1, <1>3 DEF Tracks
  <2>2. screen' = Into(page, my.c)
    <3>1. /\ my.c # Newline /\ my.row = terminal_row /\ my.col = terminal_column
          /\ screen = page.screen /\ terminal_row = page.row /\ terminal_column = page.column
      BY <1>1, <2>1 DEF Tracking, TypeFollows, Same, Regs
    <3> QED BY <1>3, <3>1 DEF PutPlaces, terminal_putentryat, RowSeen, ColumnSeen, Or, Lost, Into, With
  <2> QED BY <1>1, <1>2, <2>1, <2>2 DEF Tracking, TypeFollows, BackFollows, ClearFollows, CursorFollows, ShowPlaces, CursorPlaces, Same, Regs
<1>4. ~(level = "panic" /\ torn)
  BY <1>1 DEF Tracks, Clearing, ClearPlaces, CursorPlaces
<1> QED BY <1>1, <1>3, <1>4, TrackStep

(* The first column of the next line.                                      *)
LEMMA PutWrapsTracks == ASSUME IInv, Tracks, PutWraps PROVE Tracks'
<1> DEFINE d == [my EXCEPT !.at = "row", !.col = 0]
<1>1. /\ level \in Level /\ my.at = "wrap" /\ level' = level
      /\ UNCHANGED <<screen, terminal_row, crtc, page, torn>> /\ call' = [call EXCEPT ![level] = d]
  BY DEF PutWraps, At, Goes, my, history, terminal
<1>2. my \in Call /\ d.at = "row" /\ d.c = my.c /\ d.k = my.k /\ d.row = my.row /\ d.col = 0
  BY <1>1, Found DEF Call
<1> HIDE DEF d
<1>3. ASSUME ~torn
      PROVE  Tracking(d, page, screen', terminal_row', terminal_column', crtc')
  <2>1. Tracking(my, page, screen, terminal_row, terminal_column, crtc)
    BY <1>1, <1>3 DEF Tracks
  <2>2. terminal_column' = 0
    BY DEF PutWraps
  <2> QED BY <1>1, <1>2, <2>1, <2>2 DEF Tracking, TypeFollows, BackFollows, ClearFollows, CursorFollows, ShowPlaces, CursorPlaces
<1>4. ~(level = "panic" /\ torn)
  BY <1>1 DEF Tracks, Clearing, ClearPlaces, CursorPlaces
<1> QED BY <1>1, <1>3, <1>4, TrackStep

(* The last row.                                                           *)
LEMMA ScrollHomesTracks == ASSUME IInv, Tracks, ScrollHomes PROVE Tracks'
<1> DEFINE d == [my EXCEPT !.at = "home_column", !.row = Height - 1]
<1>1. /\ level \in Level /\ my.at = "home" /\ level' = level
      /\ UNCHANGED <<screen, terminal_column, crtc, page, torn>> /\ call' = [call EXCEPT ![level] = d]
  BY DEF ScrollHomes, At, Goes, my, history, terminal
<1>2. my \in Call /\ d.at = "home_column" /\ d.c = my.c /\ d.k = my.k /\ d.row = Height - 1 /\ d.col = my.col
  BY <1>1, Found DEF Call
<1> HIDE DEF d
<1>3. ASSUME ~torn
      PROVE  Tracking(d, page, screen', terminal_row', terminal_column', crtc')
  <2>1. Tracking(my, page, screen, terminal_row, terminal_column, crtc)
    BY <1>1, <1>3 DEF Tracks
  <2>2. terminal_row' = Height - 1
    BY DEF ScrollHomes
  <2> QED BY <1>1, <1>2, <2>1, <2>2 DEF Tracking, TypeFollows, BackFollows, ClearFollows, CursorFollows, ShowPlaces, CursorPlaces
<1>4. ~(level = "panic" /\ torn)
  BY <1>1 DEF Tracks, Clearing, ClearPlaces, CursorPlaces
<1> QED BY <1>1, <1>3, <1>4, TrackStep

(* Its first column.                                                       *)
LEMMA ScrollEndsTracks == ASSUME IInv, Tracks, ScrollEnds PROVE Tracks'
<1> DEFINE d == [my EXCEPT !.at = "cursor", !.col = 0]
<1>1. /\ level \in Level /\ my.at = "home_column" /\ level' = level
      /\ UNCHANGED <<screen, terminal_row, crtc, page, torn>> /\ call' = [call EXCEPT ![level] = d]
  BY DEF ScrollEnds, At, Goes, my, history, terminal
<1>2. my \in Call /\ d.at = "cursor" /\ d.c = my.c /\ d.k = my.k /\ d.row = my.row /\ d.col = 0
  BY <1>1, Found DEF Call
<1> HIDE DEF d
<1>3. ASSUME ~torn
      PROVE  Tracking(d, page, screen', terminal_row', terminal_column', crtc')
  <2>1. Tracking(my, page, screen, terminal_row, terminal_column, crtc)
    BY <1>1, <1>3 DEF Tracks
  <2>2. terminal_column' = 0
    BY DEF ScrollEnds
  <2> QED BY <1>1, <1>2, <2>1, <2>2 DEF Tracking, TypeFollows, BackFollows, ClearFollows, CursorFollows, ShowPlaces, CursorPlaces, Regs, TypeDone
<1>4. ~(level = "panic" /\ torn)
  BY <1>1 DEF Tracks, Clearing, ClearPlaces, CursorPlaces
<1> QED BY <1>1, <1>3, <1>4, TrackStep

(* The last column of the row above.                                       *)
LEMMA BackTurnsTracks == ASSUME IInv, Tracks, BackTurns PROVE Tracks'
<1> DEFINE d == [my EXCEPT !.at = "rub", !.col = Width - 1]
<1>1. /\ level \in Level /\ my.at = "back_column" /\ level' = level
      /\ UNCHANGED <<screen, terminal_row, crtc, page, torn>> /\ call' = [call EXCEPT ![level] = d]
  BY DEF BackTurns, At, Goes, my, history, terminal
<1>2. my \in Call /\ d.at = "rub" /\ d.c = my.c /\ d.k = my.k /\ d.row = my.row /\ d.col = Width - 1
  BY <1>1, Found DEF Call
<1> HIDE DEF d
<1>3. ASSUME ~torn
      PROVE  Tracking(d, page, screen', terminal_row', terminal_column', crtc')
  <2>1. Tracking(my, page, screen, terminal_row, terminal_column, crtc)
    BY <1>1, <1>3 DEF Tracks
  <2>2. terminal_column' = Width - 1
    BY DEF BackTurns
  <2> QED BY <1>1, <1>2, <2>1, <2>2 DEF Tracking, TypeFollows, BackFollows, ClearFollows, CursorFollows, ShowPlaces, CursorPlaces, Regs, BackAt
<1>4. ~(level = "panic" /\ torn)
  BY <1>1 DEF Tracks, Clearing, ClearPlaces, CursorPlaces
<1> QED BY <1>1, <1>3, <1>4, TrackStep

(* A blank where the character was.                                        *)
LEMMA BackRubsTracks == ASSUME IInv, Tracks, BackRubs PROVE Tracks'
<1> DEFINE d == [my EXCEPT !.at = "cursor"]
<1>1. /\ level \in Level /\ my.at = "rub" /\ level' = level
      /\ UNCHANGED <<terminal_row, terminal_column, crtc, page, torn>> /\ call' = [call EXCEPT ![level] = d]
  BY DEF BackRubs, At, Goes, my, history, terminal
<1>2. my \in Call /\ d.at = "cursor" /\ d.c = my.c /\ d.k = my.k /\ d.row = my.row /\ d.col = my.col
  BY <1>1, Found DEF Call
<1> HIDE DEF d
<1>3. ASSUME ~torn
      PROVE  Tracking(d, page, screen', terminal_row', terminal_column', crtc')
  <2>1. Tracking(my, page, screen, terminal_row, terminal_column, crtc)
    BY <1>1, <1>3 DEF Tracks
  <2>2. screen' = With(page.screen, terminal_row, terminal_column, Blank)
    <3>1. my.row = terminal_row /\ my.col = terminal_column /\ screen = page.screen
      BY <1>1, <2>1 DEF Tracking, BackFollows, Regs
    <3> QED BY <1>3, <3>1 DEF BackRubs, terminal_putentryat, RowSeen, ColumnSeen, Or, Lost, With
  <2> QED BY <1>1, <1>2, <2>1, <2>2 DEF Tracking, TypeFollows, BackFollows, ClearFollows, CursorFollows, ShowPlaces, CursorPlaces, Regs, BackDone
<1>4. ~(level = "panic" /\ torn)
  BY <1>1 DEF Tracks, Clearing, ClearPlaces, CursorPlaces
<1> QED BY <1>1, <1>3, <1>4, TrackStep

(* Its row.                                                                *)
LEMMA ClearRowTracks == ASSUME IInv, Tracks, ClearRow PROVE Tracks'
<1> DEFINE d == [my EXCEPT !.at = "clear_column", !.row = 0]
<1>1. /\ level \in Level /\ my.at = "clear_row" /\ level' = level
      /\ UNCHANGED <<screen, terminal_column, crtc, page, torn>> /\ call' = [call EXCEPT ![level] = d]
  BY DEF ClearRow, At, Goes, my, history, terminal
<1>2. my \in Call /\ d.at = "clear_column" /\ d.c = my.c /\ d.k = my.k /\ d.row = 0 /\ d.col = my.col
  BY <1>1, Found DEF Call
<1> HIDE DEF d
<1>3. terminal_row' = 0
  BY DEF ClearRow
<1>4. ASSUME ~torn
      PROVE  Tracking(d, page, screen', terminal_row', terminal_column', crtc')
  <2>1. Tracking(my, page, screen, terminal_row, terminal_column, crtc)
    BY <1>1, <1>4 DEF Tracks
  <2> QED BY <1>1, <1>2, <2>1, <1>3 DEF Tracking, TypeFollows, BackFollows, ClearFollows, CursorFollows, ShowPlaces, CursorPlaces
<1>5. ASSUME level = "panic", torn
      PROVE  Clearing(d, screen', terminal_row', terminal_column', crtc')
  <2>1. Clearing(my, screen, terminal_row, terminal_column, crtc)
    BY <1>5 DEF Tracks
  <2> QED BY <1>1, <1>2, <2>1, <1>3
          DEF Clearing, ClearFollows, CursorFollows, ShowPlaces, CursorPlaces, ClearPlaces
<1> QED BY <1>1, <1>4, <1>5, TrackStep

(* Its column.                                                             *)
LEMMA ClearColumnTracks == ASSUME IInv, Tracks, ClearColumn PROVE Tracks'
<1> DEFINE d == [my EXCEPT !.at = "cursor", !.col = 0]
<1>1. /\ level \in Level /\ my.at = "clear_column" /\ level' = level
      /\ UNCHANGED <<screen, terminal_row, crtc, page, torn>> /\ call' = [call EXCEPT ![level] = d]
  BY DEF ClearColumn, At, Goes, my, history, terminal
<1>2. my \in Call /\ d.at = "cursor" /\ d.c = my.c /\ d.k = my.k /\ d.row = my.row /\ d.col = 0
  BY <1>1, Found DEF Call
<1> HIDE DEF d
<1>3. terminal_column' = 0
  BY DEF ClearColumn
<1>4. ASSUME ~torn
      PROVE  Tracking(d, page, screen', terminal_row', terminal_column', crtc')
  <2>1. Tracking(my, page, screen, terminal_row, terminal_column, crtc)
    BY <1>1, <1>4 DEF Tracks
  <2> QED BY <1>1, <1>2, <2>1, <1>3 DEF Tracking, TypeFollows, BackFollows, ClearFollows, CursorFollows, ShowPlaces, CursorPlaces, Regs, ClearDone
<1>5. ASSUME level = "panic", torn
      PROVE  Clearing(d, screen', terminal_row', terminal_column', crtc')
  <2>1. Clearing(my, screen, terminal_row, terminal_column, crtc)
    BY <1>5 DEF Tracks
  <2> QED BY <1>1, <1>2, <2>1, <1>3
          DEF Clearing, ClearFollows, CursorFollows, ShowPlaces, CursorPlaces, ClearPlaces, Regs, ClearDone
<1> QED BY <1>1, <1>4, <1>5, TrackStep

(* The index of the low byte.                                              *)
LEMMA SelectLowTracks == ASSUME IInv, Tracks, SelectLow PROVE Tracks'
<1> DEFINE d == [my EXCEPT !.at = "low"]
<1>1. /\ level \in Level /\ my.at = "low_index" /\ level' = level
      /\ UNCHANGED <<screen, terminal_row, terminal_column, page, torn>> /\ call' = [call EXCEPT ![level] = d]
  BY DEF SelectLow, At, Goes, my, history, terminal
<1>2. my \in Call /\ d.at = "low" /\ d.c = my.c /\ d.pos = my.pos
  BY <1>1, Found DEF Call
<1> HIDE DEF d
<1>3. ~Lost => crtc'.index = "low"
  BY DEF SelectLow, Or, IInv, TtyTypeOK
<1>4. ASSUME ~torn
      PROVE  Tracking(d, page, screen', terminal_row', terminal_column', crtc')
  <2>1. Tracking(my, page, screen, terminal_row, terminal_column, crtc)
    BY <1>1, <1>4 DEF Tracks
  <2> QED BY <1>1, <1>2, <1>4, <2>1, <1>3 DEF Lost, Tracking, TypeFollows, BackFollows, ClearFollows, CursorFollows, ShowPlaces, CursorPlaces
<1>5. ASSUME level = "panic", torn
      PROVE  Clearing(d, screen', terminal_row', terminal_column', crtc')
  <2>1. Clearing(my, screen, terminal_row, terminal_column, crtc)
    BY <1>5 DEF Tracks
  <2> QED BY <1>1, <1>2, <1>5, <2>1, <1>3
          DEF Lost, Clearing, ClearFollows, CursorFollows, ShowPlaces, CursorPlaces, ClearPlaces
<1> QED BY <1>1, <1>4, <1>5, TrackStep

(* The low byte.                                                           *)
LEMMA SendLowTracks == ASSUME IInv, Tracks, SendLow PROVE Tracks'
<1> DEFINE d == [my EXCEPT !.at = "high_index"]
<1>1. /\ level \in Level /\ my.at = "low" /\ level' = level
      /\ UNCHANGED <<screen, terminal_row, terminal_column, page, torn>> /\ call' = [call EXCEPT ![level] = d]
  BY DEF SendLow, At, Goes, my, history, terminal
<1>2. my \in Call /\ d.at = "high_index" /\ d.c = my.c /\ d.pos = my.pos
  BY <1>1, Found DEF Call
<1> HIDE DEF d
<1>3. ~Lost /\ crtc.index = "low" => crtc'.low = my.pos % BYTE
  BY DEF SendLow, Sent, Or, IInv, TtyTypeOK
<1>4. ASSUME ~torn
      PROVE  Tracking(d, page, screen', terminal_row', terminal_column', crtc')
  <2>1. Tracking(my, page, screen, terminal_row, terminal_column, crtc)
    BY <1>1, <1>4 DEF Tracks
  <2> QED BY <1>1, <1>2, <1>4, <2>1, <1>3 DEF Lost, Tracking, TypeFollows, BackFollows, ClearFollows, CursorFollows, ShowPlaces, CursorPlaces
<1>5. ASSUME level = "panic", torn
      PROVE  Clearing(d, screen', terminal_row', terminal_column', crtc')
  <2>1. Clearing(my, screen, terminal_row, terminal_column, crtc)
    BY <1>5 DEF Tracks
  <2> QED BY <1>1, <1>2, <1>5, <2>1, <1>3
          DEF Lost, Clearing, ClearFollows, CursorFollows, ShowPlaces, CursorPlaces, ClearPlaces
<1> QED BY <1>1, <1>4, <1>5, TrackStep

(* The index of the high byte.                                             *)
LEMMA SelectHighTracks == ASSUME IInv, Tracks, SelectHigh PROVE Tracks'
<1> DEFINE d == [my EXCEPT !.at = "high"]
<1>1. /\ level \in Level /\ my.at = "high_index" /\ level' = level
      /\ UNCHANGED <<screen, terminal_row, terminal_column, page, torn>> /\ call' = [call EXCEPT ![level] = d]
  BY DEF SelectHigh, At, Goes, my, history, terminal
<1>2. my \in Call /\ d.at = "high" /\ d.c = my.c /\ d.pos = my.pos
  BY <1>1, Found DEF Call
<1> HIDE DEF d
<1>3. ~Lost => crtc'.index = "high" /\ crtc'.low = crtc.low
  BY DEF SelectHigh, Or, IInv, TtyTypeOK
<1>4. ASSUME ~torn
      PROVE  Tracking(d, page, screen', terminal_row', terminal_column', crtc')
  <2>1. Tracking(my, page, screen, terminal_row, terminal_column, crtc)
    BY <1>1, <1>4 DEF Tracks
  <2> QED BY <1>1, <1>2, <1>4, <2>1, <1>3 DEF Lost, Tracking, TypeFollows, BackFollows, ClearFollows, CursorFollows, ShowPlaces, CursorPlaces
<1>5. ASSUME level = "panic", torn
      PROVE  Clearing(d, screen', terminal_row', terminal_column', crtc')
  <2>1. Clearing(my, screen, terminal_row, terminal_column, crtc)
    BY <1>5 DEF Tracks
  <2> QED BY <1>1, <1>2, <1>5, <2>1, <1>3
          DEF Lost, Clearing, ClearFollows, CursorFollows, ShowPlaces, CursorPlaces, ClearPlaces
<1> QED BY <1>1, <1>4, <1>5, TrackStep

(* The column after it.                                                    *)
LEMMA PutAdvancesTracks == ASSUME IInv, Tracks, PutAdvances PROVE Tracks'
<1>1. /\ level \in Level /\ my.at = "column" /\ level' = level
      /\ UNCHANGED <<screen, terminal_row, crtc, page, torn>>
  BY DEF PutAdvances, At, my, history
<1>2. PICK x \in ColumnSeen : \E kept, tested \in Or({x + 1}, LeftNumber) :
        /\ terminal_column' \in {kept} \cup (IF tested = Width THEN {terminal_column} ELSE {})
        /\ call' = [call EXCEPT ![level].at = IF tested = Width THEN "wrap" ELSE "cursor",
                                ![level].col = kept]
  BY DEF PutAdvances
<1>3. PICK kept \in Or({x + 1}, LeftNumber), tested \in Or({x + 1}, LeftNumber) :
        /\ terminal_column' \in {kept} \cup (IF tested = Width THEN {terminal_column} ELSE {})
        /\ call' = [call EXCEPT ![level].at = IF tested = Width THEN "wrap" ELSE "cursor",
                                ![level].col = kept]
  BY <1>2
<1>4. ~torn => kept = x + 1 /\ tested = x + 1
  BY <1>3 DEF Or, Lost
<1> DEFINE to == IF tested = Width THEN "wrap" ELSE "cursor"
           d == [my EXCEPT !.at = to, !.col = kept]
<1>5. call' = [call EXCEPT ![level] = d]
  BY <1>3 DEF my
<1>6. my \in Call /\ d.at = to /\ d.c = my.c /\ d.k = my.k /\ d.row = my.row /\ d.col = kept
  BY <1>1, Found DEF Call
<1> HIDE DEF d
<1>7. ASSUME ~torn
      PROVE  Tracking(d, page, screen', terminal_row', terminal_column', crtc')
  <2>1. Tracking(my, page, screen, terminal_row, terminal_column, crtc)
    BY <1>1, <1>7 DEF Tracks
  <2>2. /\ my.c # Newline /\ my.row = terminal_row /\ my.col = terminal_column
        /\ screen = Into(page, my.c) /\ terminal_row = page.row /\ terminal_column = page.column
    BY <1>1, <2>1 DEF Tracking, TypeFollows, Regs
  <2>3. x = page.column /\ x \in Nat /\ Width \in Nat
    BY <1>2, <1>7, <2>2, TtyAssumption DEF ColumnSeen, Or, Lost, IInv, TtyTypeOK
  <2>4. CASE x + 1 = Width
    <3>1. to = "wrap" /\ page.column = Width - 1
      BY <1>7, <1>4, <2>3, <2>4
    <3> HIDE DEF to
    <3>2. Ends(page, my.c)
      BY <3>1 DEF Ends
    <3>3. d.at = "wrap"
      BY <1>6, <3>1
    <3>4. my.k = 0
      BY <1>1, <2>1 DEF Tracking, TypeFollows
    <3> QED BY <1>1, <1>6, <2>2, <3>2, <3>3, <3>4
            DEF Tracking, TypeFollows, BackFollows, ClearFollows, CursorFollows, ShowPlaces, CursorPlaces
  <2>5. CASE x + 1 # Width
    <3>1. to = "cursor" /\ page.column # Width - 1 /\ terminal_column' = x + 1
      BY <1>7, <1>3, <1>4, <2>3, <2>5
    <3> HIDE DEF to
    <3>2. ~Ends(page, my.c)
      BY <2>2, <3>1 DEF Ends
    <3>3. TypeDone(page, d.c, screen', terminal_row', terminal_column')
      BY <1>1, <1>6, <2>2, <2>3, <3>1, <3>2 DEF TypeDone
    <3>4. d.at = "cursor" /\ Regs(d, terminal_row', terminal_column')
      BY <1>1, <1>6, <1>7, <1>4, <2>2, <3>1 DEF Regs
    <3> QED BY <3>3, <3>4
            DEF Tracking, TypeFollows, BackFollows, ClearFollows, CursorFollows, ShowPlaces, CursorPlaces
  <2> QED BY <2>4, <2>5
<1>8. ~(level = "panic" /\ torn)
  BY <1>1 DEF Tracks, Clearing, ClearPlaces, CursorPlaces
<1> QED BY <1>1, <1>5, <1>7, <1>8, TrackStep

(* The next row, or the last one and a scroll.                             *)
LEMMA PutBreaksTracks == ASSUME IInv, Tracks, PutBreaks PROVE Tracks'
<1>1. /\ level \in Level /\ my.at = "row" /\ level' = level
      /\ UNCHANGED <<screen, terminal_column, crtc, page, torn>>
  BY DEF PutBreaks, At, my, history
<1>2. PICK y \in RowSeen : \E kept, tested \in Or({y + 1}, LeftNumber) :
        /\ terminal_row' \in {kept} \cup (IF tested = Height THEN {terminal_row} ELSE {})
        /\ call' = [call EXCEPT ![level].at = IF tested = Height THEN "scroll" ELSE "cursor",
                                ![level].row = kept]
  BY DEF PutBreaks
<1>3. PICK kept \in Or({y + 1}, LeftNumber), tested \in Or({y + 1}, LeftNumber) :
        /\ terminal_row' \in {kept} \cup (IF tested = Height THEN {terminal_row} ELSE {})
        /\ call' = [call EXCEPT ![level].at = IF tested = Height THEN "scroll" ELSE "cursor",
                                ![level].row = kept]
  BY <1>2
<1>4. ~torn => kept = y + 1 /\ tested = y + 1
  BY <1>3 DEF Or, Lost
<1> DEFINE to == IF tested = Height THEN "scroll" ELSE "cursor"
           d == [my EXCEPT !.at = to, !.row = kept]
<1>5. call' = [call EXCEPT ![level] = d]
  BY <1>3 DEF my
<1>6. my \in Call /\ d.at = to /\ d.c = my.c /\ d.k = my.k /\ d.row = kept /\ d.col = my.col
  BY <1>1, Found DEF Call
<1> HIDE DEF d
<1>7. ASSUME ~torn
      PROVE  Tracking(d, page, screen', terminal_row', terminal_column', crtc')
  <2>1. Tracking(my, page, screen, terminal_row, terminal_column, crtc)
    BY <1>1, <1>7 DEF Tracks
  <2>2. /\ Ends(page, my.c) /\ screen = Into(page, my.c) /\ terminal_row = page.row
        /\ my.row = page.row /\ terminal_column = 0 /\ my.col = 0 /\ my.k = 0
    BY <1>1, <2>1 DEF Tracking, TypeFollows
  <2>3. y = page.row /\ y \in Nat /\ Height \in Nat
    BY <1>2, <1>7, <2>2, TtyAssumption DEF RowSeen, Or, Lost, Tracks, PageType
  <2>4. CASE y + 1 = Height
    <3>1. to = "scroll" /\ page.row = Height - 1
      BY <1>7, <1>4, <2>3, <2>4
    <3> HIDE DEF to
    <3>2. d.at = "scroll" /\ d.k = 0
      BY <1>6, <2>2, <3>1
    <3>3. screen = Scrolled(Into(page, my.c), 0)
      <4>1. \A k \in Cell : ~(k < 0)
        BY DEF Cell
      <4>2. screen = [k \in Cell |-> screen[k]]
        BY DEF IInv, TtyTypeOK
      <4> QED BY <2>2, <4>1, <4>2 DEF Scrolled
    <3> QED BY <1>1, <1>6, <2>2, <3>1, <3>2, <3>3
            DEF Tracking, TypeFollows, BackFollows, ClearFollows, CursorFollows, ShowPlaces, CursorPlaces
  <2>5. CASE y + 1 # Height
    <3>1. to = "cursor" /\ page.row # Height - 1 /\ terminal_row' = y + 1
      BY <1>7, <1>3, <1>4, <2>3, <2>5
    <3> HIDE DEF to
    <3>2. TypeDone(page, d.c, screen', terminal_row', terminal_column')
      BY <1>1, <1>6, <2>2, <2>3, <3>1 DEF TypeDone
    <3>3. d.at = "cursor" /\ Regs(d, terminal_row', terminal_column')
      BY <1>1, <1>6, <1>7, <1>4, <2>2, <3>1 DEF Regs
    <3> QED BY <3>2, <3>3
            DEF Tracking, TypeFollows, BackFollows, ClearFollows, CursorFollows, ShowPlaces, CursorPlaces
  <2> QED BY <2>4, <2>5
<1>8. ~(level = "panic" /\ torn)
  BY <1>1 DEF Tracks, Clearing, ClearPlaces, CursorPlaces
<1> QED BY <1>1, <1>5, <1>7, <1>8, TrackStep

(* A cell of the scroll: those above it have moved, it and those it takes  *)
(* from have not.                                                          *)
LEMMA terminal_scrollTracks == ASSUME IInv, Tracks, terminal_scroll PROVE Tracks'
<1> DEFINE to == IF my.k + 1 = Width * Height THEN "home" ELSE "scroll"
           d == [my EXCEPT !.at = to, !.k = my.k + 1]
           s == Into(page, my.c)
<1>1. /\ level \in Level /\ my.at = "scroll" /\ level' = level
      /\ UNCHANGED <<terminal_row, terminal_column, crtc, page, torn>>
      /\ ~Lost => screen' = [screen EXCEPT ![my.k] = Moved(my.k)]
      /\ call' = [call EXCEPT ![level] = d]
  BY DEF terminal_scroll, Or, At, my, history
<1>2. /\ my \in Call /\ d.at = to /\ d.c = my.c /\ d.k = my.k + 1 /\ d.row = my.row /\ d.col = my.col
      /\ my.k \in Cell
  BY <1>1, Found DEF Call, Ready
<1> HIDE DEF d
<1>3. ASSUME ~torn
      PROVE  Tracking(d, page, screen', terminal_row', terminal_column', crtc')
  <2>1. Tracking(my, page, screen, terminal_row, terminal_column, crtc)
    BY <1>1, <1>3 DEF Tracks
  <2>2. /\ Ends(page, my.c) /\ page.row = Height - 1 /\ screen = Scrolled(s, my.k)
        /\ terminal_column = 0 /\ my.col = 0
    BY <1>1, <2>1 DEF Tracking, TypeFollows
  <2> HIDE DEF s
  <2>3. screen' = [screen EXCEPT ![my.k] = Moved(my.k)]
    BY <1>1, <1>3 DEF Lost
  <2>4. screen' = Scrolled(s, my.k + 1)
    <3>1. my.k \in Nat /\ Width \in Nat /\ Width > 0 /\ \A k \in Cell : k \in Nat
      BY <1>2, TtyAssumption DEF Cell
    <3>2. \A k \in Cell : screen[k] = IF k < my.k THEN (IF k < Width * (Height - 1) THEN s[k + Width] ELSE Blank) ELSE s[k]
      BY <2>2 DEF Scrolled
    <3>3. Moved(my.k) = IF my.k < Width * (Height - 1) THEN s[my.k + Width] ELSE Blank
      <4>1. CASE my.k < Width * (Height - 1)
        <5>1. my.k + Width \in Cell /\ ~(my.k + Width < my.k)
          BY <1>2, <3>1, <4>1, CellFacts
        <5>2. screen[my.k + Width] = s[my.k + Width]
          BY <3>2, <5>1
        <5> QED BY <4>1, <5>2 DEF Moved
      <4>2. CASE ~(my.k < Width * (Height - 1))
        BY <4>2 DEF Moved
      <4> QED BY <4>1, <4>2
    <3>4. \A k \in Cell : screen'[k] = IF k < my.k + 1 THEN (IF k < Width * (Height - 1) THEN s[k + Width] ELSE Blank) ELSE s[k]
      <4> SUFFICES ASSUME NEW k \in Cell
                   PROVE  screen'[k] = IF k < my.k + 1 THEN (IF k < Width * (Height - 1) THEN s[k + Width] ELSE Blank) ELSE s[k]
        OBVIOUS
      <4>1. screen \in [Cell -> Glyph]
        BY DEF IInv, TtyTypeOK
      <4>2. CASE k = my.k
        BY <2>3, <1>2, <3>1, <3>3, <4>1, <4>2
      <4>3. CASE k # my.k
        <5>1. (k < my.k + 1 <=> k < my.k) /\ screen'[k] = screen[k]
          BY <2>3, <1>2, <3>1, <4>1, <4>3
        <5> QED BY <3>2, <5>1
      <4> QED BY <4>2, <4>3
    <3>5. screen' = [k \in Cell |-> screen'[k]]
      BY <2>3 DEF IInv, TtyTypeOK
    <3> QED BY <3>4, <3>5 DEF Scrolled
  <2>5. CASE my.k + 1 = Width * Height
    <3>1. d.at = "home"
      BY <1>2, <2>5
    <3> QED BY <1>1, <1>2, <2>2, <2>4, <2>5, <3>1
            DEF Tracking, TypeFollows, BackFollows, ClearFollows, CursorFollows, ShowPlaces, CursorPlaces, s
  <2>6. CASE my.k + 1 # Width * Height
    <3>1. d.at = "scroll"
      BY <1>2, <2>6
    <3> QED BY <1>1, <1>2, <2>2, <2>4, <3>1
            DEF Tracking, TypeFollows, BackFollows, ClearFollows, CursorFollows, ShowPlaces, CursorPlaces, s
  <2> QED BY <2>5, <2>6
<1>4. ~(level = "panic" /\ torn)
  BY <1>1 DEF Tracks, Clearing, ClearPlaces, CursorPlaces
<1> QED BY <1>1, <1>3, <1>4, TrackStep

(* A step back.                                                            *)
LEMMA terminal_backspaceTracks == ASSUME IInv, Tracks, terminal_backspace PROVE Tracks'
<1>1. /\ level \in Level /\ my.at = "back" /\ level' = level
      /\ UNCHANGED <<screen, crtc, page, torn>> /\ my \in Call
  BY Found DEF terminal_backspace, At, my, history
<1>2. PICK x \in ColumnSeen, y \in RowSeen :
       \/ /\ x = 0 /\ y = 0
          /\ call' = [call EXCEPT ![level].at = "rub", ![level].col = x, ![level].row = y]
          /\ UNCHANGED <<terminal_row, terminal_column>>
       \/ /\ x = 0 /\ y > 0
          /\ \E kept \in Or({y - 1}, LeftNumber) :
               /\ terminal_row' = kept /\ UNCHANGED terminal_column
               /\ call' = [call EXCEPT ![level].at = "back_column", ![level].row = kept]
       \/ /\ x # 0
          /\ \E kept \in Or({x - 1}, LeftNumber) :
               /\ terminal_column' = kept /\ UNCHANGED terminal_row
               /\ call' = [call EXCEPT ![level].at = "rub", ![level].col = kept, ![level].row = y]
  BY DEF terminal_backspace
<1>3. ASSUME ~torn
      PROVE  /\ my.row = terminal_row /\ my.col = terminal_column /\ screen = page.screen
             /\ terminal_row = page.row /\ terminal_column = page.column
             /\ x = page.column /\ y = page.row /\ x \in Nat /\ y \in Nat
  <2>1. Tracking(my, page, screen, terminal_row, terminal_column, crtc)
    BY <1>1, <1>3 DEF Tracks
  <2>2. /\ my.row = terminal_row /\ my.col = terminal_column /\ screen = page.screen
        /\ terminal_row = page.row /\ terminal_column = page.column
    BY <1>1, <2>1 DEF Tracking, BackFollows, Same, Regs
  <2> QED BY <1>2, <1>3, <2>2 DEF RowSeen, ColumnSeen, Or, Lost, IInv, TtyTypeOK
<1>4. ~(level = "panic" /\ torn)
  BY <1>1 DEF Tracks, Clearing, ClearPlaces, CursorPlaces
<1>5. CASE /\ x = 0 /\ y = 0 /\ UNCHANGED <<terminal_row, terminal_column>>
           /\ call' = [call EXCEPT ![level].at = "rub", ![level].col = x, ![level].row = y]
  <2> DEFINE d == [my EXCEPT !.at = "rub", !.col = x, !.row = y]
  <2>1. call' = [call EXCEPT ![level] = d]
    BY <1>5 DEF my
  <2>2. d.at = "rub" /\ d.col = x /\ d.row = y
    BY <1>1 DEF Call
  <2> HIDE DEF d
  <2>3. ~torn => Tracking(d, page, screen', terminal_row', terminal_column', crtc')
    BY <1>1, <1>3, <1>5, <2>2
    DEF Tracking, TypeFollows, BackFollows, ClearFollows, CursorFollows, ShowPlaces, CursorPlaces, BackAt, Regs
  <2> QED BY <1>1, <1>4, <2>1, <2>3, TrackStep
<1>6. CASE /\ x = 0 /\ y > 0
           /\ \E kept \in Or({y - 1}, LeftNumber) :
                /\ terminal_row' = kept /\ UNCHANGED terminal_column
                /\ call' = [call EXCEPT ![level].at = "back_column", ![level].row = kept]
  <2>1. PICK kept \in Or({y - 1}, LeftNumber) :
          /\ terminal_row' = kept /\ UNCHANGED terminal_column
          /\ call' = [call EXCEPT ![level].at = "back_column", ![level].row = kept]
    BY <1>6
  <2>2. ~torn => kept = y - 1
    BY <2>1 DEF Or, Lost
  <2> DEFINE d == [my EXCEPT !.at = "back_column", !.row = kept]
  <2>3. call' = [call EXCEPT ![level] = d]
    BY <2>1 DEF my
  <2>4. d.at = "back_column" /\ d.row = kept
    BY <1>1 DEF Call
  <2> HIDE DEF d
  <2>5. ~torn => Tracking(d, page, screen', terminal_row', terminal_column', crtc')
    BY <1>1, <1>3, <1>6, <2>4, <2>1, <2>2
    DEF Tracking, TypeFollows, BackFollows, ClearFollows, CursorFollows, ShowPlaces, CursorPlaces
  <2> QED BY <1>1, <1>4, <2>3, <2>5, TrackStep
<1>7. CASE /\ x # 0
           /\ \E kept \in Or({x - 1}, LeftNumber) :
                /\ terminal_column' = kept /\ UNCHANGED terminal_row
                /\ call' = [call EXCEPT ![level].at = "rub", ![level].col = kept, ![level].row = y]
  <2>1. PICK kept \in Or({x - 1}, LeftNumber) :
          /\ terminal_column' = kept /\ UNCHANGED terminal_row
          /\ call' = [call EXCEPT ![level].at = "rub", ![level].col = kept, ![level].row = y]
    BY <1>7
  <2>2. ~torn => kept = x - 1
    BY <2>1 DEF Or, Lost
  <2> DEFINE d == [my EXCEPT !.at = "rub", !.col = kept, !.row = y]
  <2>3. call' = [call EXCEPT ![level] = d]
    BY <2>1 DEF my
  <2>4. d.at = "rub" /\ d.col = kept /\ d.row = y
    BY <1>1 DEF Call
  <2> HIDE DEF d
  <2>5. ~torn => Tracking(d, page, screen', terminal_row', terminal_column', crtc')
    BY <1>1, <1>3, <1>7, <2>4, <2>1, <2>2
    DEF Tracking, TypeFollows, BackFollows, ClearFollows, CursorFollows, ShowPlaces, CursorPlaces, BackAt, Regs
  <2> QED BY <1>1, <1>4, <2>3, <2>5, TrackStep
<1> QED BY <1>2, <1>5, <1>6, <1>7

(* A cell of the clear.                                                    *)
LEMMA terminal_clearTracks == ASSUME IInv, Tracks, terminal_clear PROVE Tracks'
<1> DEFINE to == IF my.k + 1 = Width * Height THEN "clear_row" ELSE "blank"
           d == [my EXCEPT !.at = to, !.k = my.k + 1]
<1>1. /\ level \in Level /\ my.at = "blank" /\ level' = level
      /\ UNCHANGED <<terminal_row, terminal_column, crtc, page, torn>>
      /\ ~Lost => screen' = [screen EXCEPT ![my.k] = Blank]
      /\ call' = [call EXCEPT ![level] = d]
  BY DEF terminal_clear, Or, At, my, history
<1>2. my \in Call /\ d.at = to /\ d.k = my.k + 1 /\ my.k \in Cell
  BY <1>1, Found DEF Call, Ready
<1> HIDE DEF d
<1>3. ASSUME ~Lost, ClearFollows(my, screen, terminal_row, terminal_column)
      PROVE  ClearFollows(d, screen', terminal_row', terminal_column')
  <2>1. \A k \in Cell : k < my.k => screen[k] = Blank
    BY <1>1, <1>3 DEF ClearFollows
  <2>2. my.k \in Nat /\ (\A k \in Cell : k \in Nat) /\ screen \in [Cell -> Glyph]
    BY <1>2, TtyAssumption DEF Cell, IInv, TtyTypeOK
  <2>3. \A k \in Cell : k < my.k + 1 => screen'[k] = Blank
    BY <1>1, <1>2, <1>3, <2>1, <2>2
  <2>4. CASE my.k + 1 = Width * Height
    <3>1. d.at = "clear_row"
      BY <1>2, <2>4
    <3>2. \A k \in Cell : screen'[k] = Blank
      <4>1. \A k \in Cell : k < Width * Height
        BY CellFacts DEF Cell
      <4> QED BY <2>3, <2>4, <4>1
    <3>3. screen' = Cleared
      BY <1>1, <1>3, <2>2, <3>2 DEF Cleared
    <3> QED BY <3>1, <3>3 DEF ClearFollows
  <2>5. CASE my.k + 1 # Width * Height
    <3>1. d.at = "blank"
      BY <1>2, <2>5
    <3> QED BY <1>2, <2>3, <3>1 DEF ClearFollows
  <2> QED BY <2>4, <2>5
<1>4. d.at \in {"clear_row", "blank"}
  BY <1>2
<1>5. ASSUME ~torn
      PROVE  Tracking(d, page, screen', terminal_row', terminal_column', crtc')
  <2>1. ClearFollows(d, screen', terminal_row', terminal_column')
    BY <1>1, <1>3, <1>5 DEF Tracks, Tracking, Lost
  <2> QED BY <1>4, <2>1 DEF Tracking, TypeFollows, BackFollows, CursorFollows, ShowPlaces, CursorPlaces
<1>6. ASSUME level = "panic", torn
      PROVE  Clearing(d, screen', terminal_row', terminal_column', crtc')
  <2>1. ClearFollows(d, screen', terminal_row', terminal_column')
    BY <1>3, <1>6 DEF Tracks, Clearing, Lost
  <2> QED BY <1>4, <2>1 DEF Clearing, CursorFollows, ShowPlaces, CursorPlaces, ClearPlaces
<1> QED BY <1>1, <1>5, <1>6, TrackStep

(* A place on the page has a cell, and only its own.                       *)
LEMMA PlaceFacts ==
  ASSUME NEW y \in 0 .. Height - 1, NEW x \in 0 .. Width - 1
  PROVE  /\ y * Width + x \in Cell
         /\ y + 1 <= Height - 1 => (y + 1) * Width + x = y * Width + x + Width
         /\ (y * Width + x < Width * (Height - 1)) <=> y < Height - 1
         /\ \A v \in 0 .. Height - 1, u \in 0 .. Width - 1 :
              v * Width + u = y * Width + x => v = y /\ u = x
<1>1. /\ y \in Nat /\ x \in Nat /\ Width \in Nat /\ Height \in Nat /\ y <= Height - 1 /\ x < Width
      /\ Width > 0 /\ Height > 0
  BY TtyAssumption
<1>2. ASSUME NEW a \in Nat, NEW b \in Nat, a <= b PROVE a * Width <= b * Width
  <2>1. PICK d \in Nat : b = a + d
    BY <1>2
  <2>2. b * Width = a * Width + d * Width /\ d * Width \in Nat /\ a * Width \in Nat
    BY <1>1, <2>1
  <2> QED BY <2>2
<1>3. /\ y * Width \in Nat /\ Width * Height \in Nat
      /\ (Height - 1) * Width = Width * Height - Width
      /\ Width * (Height - 1) = Width * Height - Width
      /\ (y + 1) * Width = y * Width + Width
  BY <1>1
<1>4. y * Width + x \in Cell
  <2>1. y * Width <= (Height - 1) * Width
    BY <1>1, <1>2
  <2> QED BY <1>1, <1>3, <2>1 DEF Cell
<1>5. (y * Width + x < Width * (Height - 1)) <=> y < Height - 1
  <2>1. CASE y < Height - 1
    <3>1. (y + 1) * Width <= (Height - 1) * Width
      BY <1>1, <1>2, <2>1
    <3> QED BY <1>1, <1>3, <2>1, <3>1
  <2>2. CASE y = Height - 1
    BY <1>1, <1>3, <2>2
  <2> QED BY <1>1, <2>1, <2>2
<1>6. ASSUME NEW v \in 0 .. Height - 1, NEW u \in 0 .. Width - 1, v * Width + u = y * Width + x
      PROVE  v = y /\ u = x
  <2>1. v \in Nat /\ u \in Nat /\ u < Width /\ v * Width \in Nat /\ (v + 1) * Width = v * Width + Width
    BY <1>1
  <2>2. ~(v < y)
    <3> SUFFICES ASSUME v < y PROVE FALSE
      OBVIOUS
    <3>1. (v + 1) * Width <= y * Width
      BY <1>1, <1>2, <2>1
    <3> QED BY <1>1, <1>3, <1>6, <2>1, <3>1
  <2>3. ~(y < v)
    <3> SUFFICES ASSUME y < v PROVE FALSE
      OBVIOUS
    <3>1. (y + 1) * Width <= v * Width
      BY <1>1, <1>2, <2>1
    <3> QED BY <1>1, <1>3, <1>6, <2>1, <3>1
  <2>4. v = y
    BY <1>1, <2>1, <2>2, <2>3
  <2> QED BY <1>1, <1>6, <1>3, <2>1, <2>4
<1> QED BY <1>1, <1>3, <1>4, <1>5, <1>6

(* A call that begins on the page ends on it.                              *)
LEMMA OutcomeOnPage ==
  ASSUME page.row \in 0 .. Height - 1, page.column \in 0 .. Width - 1,
         NEW c, NEW s, NEW y, NEW x,
         TypeDone(page, c, s, y, x) \/ BackDone(page, s, y, x) \/ ClearDone(s, y, x)
  PROVE  y \in 0 .. Height - 1 /\ x \in 0 .. Width - 1
<1>1. page.row \in 0 .. Height - 1 /\ page.column \in 0 .. Width - 1
  OBVIOUS
<1>2. /\ Height \in Nat /\ Width \in Nat /\ 0 \in 0 .. Height - 1 /\ 0 \in 0 .. Width - 1
      /\ Height - 1 \in 0 .. Height - 1 /\ Width - 1 \in 0 .. Width - 1
  BY LastFacts, TtyAssumption
<1>3. CASE TypeDone(page, c, s, y, x)
  <2>1. CASE ~Ends(page, c) /\ y = page.row /\ x = page.column + 1
    BY <1>1, <1>2, <2>1 DEF Ends
  <2>2. CASE page.row # Height - 1 /\ y = page.row + 1 /\ x = 0
    BY <1>1, <1>2, <2>2
  <2>3. CASE y = Height - 1 /\ x = 0
    BY <1>2, <2>3
  <2> QED BY <1>3, <2>1, <2>2, <2>3 DEF TypeDone
<1>4. CASE BackDone(page, s, y, x)
  BY <1>1, <1>2, <1>4 DEF BackDone, BackAt
<1>5. CASE ClearDone(s, y, x)
  BY <1>2, <1>5 DEF ClearDone
<1> QED BY <1>3, <1>4, <1>5

(* The position is that of the place.                                      *)
LEMMA terminal_setcursorposTracks == ASSUME IInv, Tracks, terminal_setcursorpos PROVE Tracks'
<1>1. /\ level \in Level /\ my.at = "cursor" /\ level' = level
      /\ UNCHANGED <<screen, terminal_row, terminal_column, crtc, page, torn>>
  BY DEF terminal_setcursorpos, At, my, history, terminal
<1>2. PICK x \in ColumnSeen, y \in RowSeen :
        \E line \in Or({y * Width}, LeftNumber) : \E pos \in Or({line + x}, LeftNumber) :
          call' = [call EXCEPT ![level].at = "low_index", ![level].pos = pos % (BYTE * BYTE)]
  BY DEF terminal_setcursorpos
<1>3. PICK line \in Or({y * Width}, LeftNumber) : \E pos \in Or({line + x}, LeftNumber) :
        call' = [call EXCEPT ![level].at = "low_index", ![level].pos = pos % (BYTE * BYTE)]
  BY <1>2
<1>4. PICK pos \in Or({line + x}, LeftNumber) :
        call' = [call EXCEPT ![level].at = "low_index", ![level].pos = pos % (BYTE * BYTE)]
  BY <1>3
<1>5. ~Lost => pos = y * Width + x
  BY <1>3, <1>4 DEF Or
<1> DEFINE to == pos % (BYTE * BYTE)
           d  == [my EXCEPT !.at = "low_index", !.pos = to]
<1>6. call' = [call EXCEPT ![level] = d]
  BY <1>4 DEF my
<1>7. my \in Call /\ d.at = "low_index" /\ d.c = my.c /\ d.pos = to
  BY <1>1, Found DEF Call
<1> HIDE DEF d
<1>8. ASSUME ~Lost, Regs(my, terminal_row, terminal_column)
      PROVE  d.pos = (terminal_row * Width + terminal_column) % (BYTE * BYTE)
  <2>1. y = terminal_row /\ x = terminal_column
    BY <1>2, <1>8 DEF Regs, RowSeen, ColumnSeen, Or
  <2> QED BY <1>5, <1>7, <1>8, <2>1
<1> HIDE DEF to
<1>9. ASSUME ~torn
      PROVE  Tracking(d, page, screen', terminal_row', terminal_column', crtc')
  <2>1. Tracking(my, page, screen, terminal_row, terminal_column, crtc)
    BY <1>1, <1>9 DEF Tracks
  <2>2. Regs(my, terminal_row, terminal_column) /\ ~Lost
    BY <1>1, <1>9, <2>1 DEF Tracking, CursorFollows, Lost
  <2>3. TypeDone(page, my.c, screen, terminal_row, terminal_column)
        \/ BackDone(page, screen, terminal_row, terminal_column)
        \/ ClearDone(screen, terminal_row, terminal_column)
    BY <1>1, <2>1 DEF Tracking, CursorPlaces
  <2>4. d.pos = (terminal_row * Width + terminal_column) % (BYTE * BYTE)
    BY <1>8, <2>2
  <2> QED BY <1>1, <1>7, <2>3, <2>4
          DEF Tracking, TypeFollows, BackFollows, ClearFollows, CursorFollows, ShowPlaces
<1>10. ASSUME level = "panic", torn
       PROVE  Clearing(d, screen', terminal_row', terminal_column', crtc')
  <2>1. Clearing(my, screen, terminal_row, terminal_column, crtc)
    BY <1>10 DEF Tracks
  <2>2. /\ Regs(my, terminal_row, terminal_column) /\ ~Lost
        /\ ClearDone(screen, terminal_row, terminal_column)
    BY <1>1, <1>10, <2>1 DEF Clearing, CursorFollows, CursorPlaces, Lost
  <2>3. d.pos = (terminal_row * Width + terminal_column) % (BYTE * BYTE)
    BY <1>8, <2>2
  <2> QED BY <1>1, <1>7, <2>2, <2>3
          DEF Clearing, ClearFollows, CursorFollows, ShowPlaces, CursorPlaces
<1> QED BY <1>1, <1>6, <1>9, <1>10, TrackStep

(* A position is what its two bytes say.                                   *)
LEMMA BytesFacts ==
  ASSUME NEW pos \in 0 .. BYTE * BYTE - 1
  PROVE  (pos \div BYTE) * BYTE + (pos % BYTE) = pos
<1> DEFINE q == pos \div BYTE
           m == pos % BYTE
<1>1. pos \in Nat /\ BYTE \in Nat \ {0}
  BY PosFacts, TtyAssumption
<1>2. q \in Nat /\ m \in Nat /\ pos = BYTE * q + m
  BY <1>1
<1> HIDE DEF q, m
<1>3. BYTE * q = q * BYTE
  BY <1>1, <1>2
<1> QED BY <1>2, <1>3 DEF q, m

(* When the last byte is sent the cursor's registers are the position.     *)
LEMMA CursorSent ==
  ASSUME IInv, level \in Level, ~Lost, SendHigh, crtc.index = "high", crtc.low = my.pos % BYTE
  PROVE  crtc'.high * BYTE + crtc'.low = my.pos
<1>1. my.pos \in 0 .. BYTE * BYTE - 1
  BY Found DEF Call
<1> DEFINE q == my.pos \div BYTE
<1>2. crtc' = [crtc EXCEPT !["high"] = q]
  BY DEF SendHigh, Sent, Or
<1> HIDE DEF q
<1>3. crtc'.high = q /\ crtc'.low = my.pos % BYTE
  BY <1>2 DEF IInv, TtyTypeOK
<1> QED BY <1>1, <1>3, BytesFacts DEF q

(* The last byte: what the call leaves is the page.                        *)
LEMMA SendHighTracks == ASSUME IInv, Tracks, SendHigh PROVE Tracks'
<1>1. /\ level \in Level /\ my.at = "high" /\ level' = level
      /\ UNCHANGED <<screen, terminal_row, terminal_column>>
      /\ call' = [call EXCEPT ![level] = Idle]
  BY DEF SendHigh, At, my
<1>2. my' = Idle /\ (level = "handler" => call'["kernel"] = call["kernel"])
  BY <1>1 DEF IInv, TtyTypeOK, my, Level
<1>3. CASE Alone
  <2>1. /\ page' = [screen |-> screen, row |-> terminal_row, column |-> terminal_column,
                    cursor |-> crtc'.high * BYTE + crtc'.low]
        /\ torn' = FALSE
    BY <1>3 DEF SendHigh
  <2>2. terminal_row \in Nat /\ terminal_column \in Nat
    BY DEF IInv, TtyTypeOK
  <2>3. crtc'.high * BYTE + crtc'.low \in Nat
    <3>1. crtc' \in [index : {"low", "high"}, low : 0 .. BYTE - 1, high : 0 .. BYTE - 1]
      BY <1>1, SendKeeps DEF SendHigh
    <3> QED BY <3>1, TtyAssumption
  <2>4. PageType'
    BY <2>1, <2>2, <2>3 DEF PageType, IInv, TtyTypeOK
  <2>5. Tracking(Idle, page', screen', terminal_row', terminal_column', crtc')
    BY <1>1, <2>1
    DEF Tracking, Same, TypeFollows, BackFollows, ClearFollows, CursorFollows, ShowPlaces, CursorPlaces, Idle
  <2> QED BY <1>1, <1>2, <1>3, <2>1, <2>4, <2>5 DEF Tracks, Alone
<1>4. CASE ~Alone
  <2>1. level = "handler" /\ torn /\ UNCHANGED <<page, torn>>
    BY <1>4 DEF Alone, Tracks, SendHigh, history
  <2>2. PageType'
    BY <2>1 DEF Tracks, PageType
  <2> QED BY <1>1, <2>1, <2>2 DEF Tracks
<1> QED BY <1>3, <1>4

(* After an interrupt nothing is said of the call it came in.              *)
LEMMA LostTracks == ASSUME IInv, Tracks, CharLost \/ StoreMisses PROVE Tracks'
BY DEF CharLost, StoreMisses, Lost, Tracks, PageType, history, Level

(* A call that begins has done nothing yet.                                *)
LEMMA LoadedTracks ==
  ASSUME IInv, Tracks, level \in Level, level' = level, my.at = "idle",
         UNCHANGED <<terminal, page, torn>>, NEW place, NEW c, Loaded(place, c),
         \/ (place = "wrap" /\ c = Newline)
         \/ (place = "place" /\ c # Newline)
         \/ place \in {"back", "blank"}
  PROVE  Tracks'
<1> DEFINE d == [at |-> place, c |-> c, k |-> 0, row |-> terminal_row, col |-> terminal_column, pos |-> 0]
<1>1. call' = [call EXCEPT ![level] = d]
  BY DEF Loaded
<1>2. /\ d.at = place /\ d.c = c /\ d.k = 0 /\ d.row = terminal_row /\ d.col = terminal_column
  OBVIOUS
<1> HIDE DEF d
<1>3. ASSUME ~torn
      PROVE  Tracking(d, page, screen', terminal_row', terminal_column', crtc')
  <2>1. Same(page, screen', terminal_row', terminal_column')
    BY <1>3 DEF Tracks, Tracking, terminal, Same
  <2>2. Regs(d, terminal_row', terminal_column')
    BY <1>2 DEF Regs, terminal
  <2>3. CASE place = "wrap" /\ c = Newline
    BY <1>2, <2>1, <2>2, <2>3
    DEF Tracking, Same, Regs, TypeFollows, BackFollows, ClearFollows, CursorFollows, ShowPlaces, CursorPlaces, Ends, Into
  <2>4. CASE place = "place" /\ c # Newline
    BY <1>2, <2>1, <2>2, <2>4
    DEF Tracking, TypeFollows, BackFollows, ClearFollows, CursorFollows, ShowPlaces, CursorPlaces
  <2>5. CASE place = "back"
    BY <1>2, <2>1, <2>2, <2>5
    DEF Tracking, TypeFollows, BackFollows, ClearFollows, CursorFollows, ShowPlaces, CursorPlaces
  <2>6. CASE place = "blank"
    <3>1. \A k \in Cell : ~(k < 0)
      BY DEF Cell
    <3> QED BY <1>2, <2>6, <3>1
    DEF Tracking, TypeFollows, BackFollows, ClearFollows, CursorFollows, ShowPlaces, CursorPlaces
  <2> QED BY <2>3, <2>4, <2>5, <2>6
<1>4. ~(level = "panic" /\ torn)
  BY DEF Tracks, Clearing, ClearPlaces, CursorPlaces
<1> QED BY <1>1, <1>3, <1>4, TrackStep

(* Who types, rubs out or clears.                                          *)
LEMMA CallsTrack == ASSUME IInv, Tracks, KernelCalls \/ HandlerTypes PROVE Tracks'
<1>1. ASSUME NEW c, terminal_putchar(c)
      PROVE  \E place : /\ Loaded(place, c)
                        /\ (place = "wrap" /\ c = Newline) \/ (place = "place" /\ c # Newline)
  BY <1>1 DEF terminal_putchar
<1>2. /\ level \in Level /\ level' = level /\ my.at = "idle" /\ UNCHANGED <<terminal, page, torn>>
  BY DEF KernelCalls, HandlerTypes, At, my, history
<1>3. (\E c : terminal_putchar(c)) \/ Loaded("back", Blank) \/ Loaded("blank", Blank)
  BY DEF KernelCalls, HandlerTypes
<1>4. ASSUME NEW c, terminal_putchar(c) PROVE Tracks'
  <2>1. PICK place : /\ Loaded(place, c)
                     /\ (place = "wrap" /\ c = Newline) \/ (place = "place" /\ c # Newline)
    BY <1>1, <1>4
  <2> QED BY <1>2, <2>1, LoadedTracks
<1>5. CASE Loaded("back", Blank) \/ Loaded("blank", Blank)
  BY <1>2, <1>5, LoadedTracks
<1> QED BY <1>3, <1>4, <1>5

(* Who comes and who goes.                                                 *)
LEMMA SwitchTracks ==
  ASSUME IInv, Tracks, irq_handler \/ Iret \/ exception_handler \/ abort
  PROVE  Tracks'
<1>1. PageType' /\ UNCHANGED <<page, screen, terminal_row, terminal_column, crtc>>
  BY DEF Tracks, PageType, irq_handler, Iret, exception_handler, abort, history, terminal
<1>2. CASE irq_handler
  <2>1. /\ level = "kernel" /\ level' = "handler" /\ call' = call
        /\ torn' = (torn \/ call["kernel"] # Idle)
    BY <1>2 DEF irq_handler
  <2>2. call["handler"] = Idle
    BY <2>1 DEF IInv, Nested
  <2>3. ~torn' => Tracking(Idle, page', screen', terminal_row', terminal_column', crtc')
    BY <1>1, <2>1 DEF Tracks, my, Level
  <2>4. my' = Idle
    BY <2>1, <2>2 DEF my
  <2> QED BY <1>1, <2>1, <2>3, <2>4 DEF Tracks
<1>3. CASE Iret
  <2>1. level = "handler" /\ level' = "kernel" /\ call' = call /\ torn' = torn /\ my.at = "idle"
    BY <1>3 DEF Iret, At, my, history
  <2>2. my = Idle
    BY <2>1, Found DEF Ready, Level
  <2>3. ~torn => my' = Idle
    BY <2>1 DEF Tracks, my
  <2> QED BY <1>1, <2>1, <2>2, <2>3 DEF Tracks, Level
<1>4. CASE exception_handler
  <2> DEFINE d == [Idle EXCEPT !.at = "blank"]
  <2>1. level' = "panic" /\ torn' = torn /\ my' = d
    BY <1>4 DEF exception_handler, my, Level, history
  <2>2. d.at = "blank" /\ d.k = 0 /\ \A k \in Cell : ~(k < 0)
    BY DEF Idle, Cell
  <2> HIDE DEF d
  <2>3. Tracking(d, page', screen', terminal_row', terminal_column', crtc')
    BY <2>2 DEF Tracking, TypeFollows, BackFollows, ClearFollows, CursorFollows, ShowPlaces, CursorPlaces
  <2>4. Clearing(d, screen', terminal_row', terminal_column', crtc')
    BY <2>2 DEF Clearing, ClearFollows, CursorFollows, ShowPlaces, CursorPlaces, ClearPlaces
  <2> QED BY <1>1, <2>1, <2>3, <2>4 DEF Tracks
<1>5. CASE abort
  <2>1. level' = "halted"
    BY <1>5 DEF abort
  <2> QED BY <1>1, <2>1 DEF Tracks, Level
<1> QED BY <1>2, <1>3, <1>4, <1>5

(* The page is the blank one before the first call.                        *)
LEMMA TracksInit == TtyInit => Tracks
<1> SUFFICES ASSUME TtyInit PROVE Tracks
  OBVIOUS
<1>1. /\ page = [screen |-> screen, row |-> 0, column |-> 0, cursor |-> crtc.high * BYTE + crtc.low]
      /\ terminal_row = 0 /\ terminal_column = 0 /\ torn = FALSE /\ level = "kernel" /\ my = Idle
  BY DEF TtyInit, my, Level
<1>2. crtc.high * BYTE + crtc.low \in Nat
  BY TtyAssumption DEF TtyInit
<1>3. screen \in [Cell -> Glyph]
  BY TtyAssumption DEF TtyInit
<1>4. PageType
  BY <1>1, <1>2, <1>3 DEF PageType
<1>5. Tracking(Idle, page, screen, terminal_row, terminal_column, crtc)
  BY <1>1 DEF Tracking, Same, TypeFollows, BackFollows, ClearFollows, CursorFollows, ShowPlaces, CursorPlaces, Idle
<1> QED BY <1>1, <1>4, <1>5 DEF Tracks

(* Every call that nothing interrupted has done so far what a terminal     *)
(* promises, store by store.                                               *)
THEOREM TrackInvariance == TtySpec => [](IInv /\ Tracks)
<1>1. TtyInit => Tracks
  BY TracksInit
<1>2. ASSUME IInv, Tracks, Step PROVE Tracks'
  BY <1>2, PutPlacesTracks, PutAdvancesTracks, PutWrapsTracks, PutBreaksTracks,
     terminal_scrollTracks, ScrollHomesTracks, ScrollEndsTracks,
     terminal_backspaceTracks, BackTurnsTracks, BackRubsTracks,
     terminal_clearTracks, ClearRowTracks, ClearColumnTracks,
     terminal_setcursorposTracks, SelectLowTracks, SendLowTracks, SelectHighTracks, SendHighTracks,
     LostTracks
  DEF Step
<1>3. ASSUME IInv, Tracks, UNCHANGED tty_vars PROVE Tracks'
  BY <1>3 DEF tty_vars, Tracks, PageType, my
<1>4. IInv /\ Tracks /\ [TtyNext]_tty_vars => Tracks'
  BY <1>2, <1>3, CallsTrack, SwitchTracks DEF TtyNext
<1> QED BY <1>1, <1>4, TtyInvariance, PTL DEF TtySpec

-----------------------------------------------------------------------------
(* The cells as the lines of a page.                                       *)

Abs(s, y, x, k) == [lines |-> Lines(s), row |-> y, column |-> x, cursor |-> k]

(* A character placed in its cell is placed in its line.                   *)
LEMMA LinesWith ==
  ASSUME NEW s, NEW y \in 0 .. Height - 1, NEW x \in 0 .. Width - 1, NEW c
  PROVE  Lines(With(s, y, x, c)) = [Lines(s) EXCEPT ![y] = [Lines(s)[y] EXCEPT ![x] = c]]
<1> DEFINE t == With(s, y, x, c)
           lines == [Lines(s) EXCEPT ![y] = [Lines(s)[y] EXCEPT ![x] = c]]
<1>1. ASSUME NEW v \in 0 .. Height - 1, NEW u \in 0 .. Width - 1
      PROVE  t[v * Width + u] = lines[v][u]
  <2>1. v * Width + u \in Cell /\ (v * Width + u = y * Width + x => v = y /\ u = x)
    BY PlaceFacts
  <2>2. t[v * Width + u] = IF v = y /\ u = x THEN c ELSE s[v * Width + u]
    BY <2>1 DEF With
  <2>3. Lines(s)[v][u] = s[v * Width + u]
    BY DEF Lines
  <2>4. lines[v][u] = IF v = y /\ u = x THEN c ELSE Lines(s)[v][u]
    BY DEF Lines
  <2> QED BY <2>2, <2>3, <2>4
<1>2. lines = [v \in 0 .. Height - 1 |-> [u \in 0 .. Width - 1 |-> lines[v][u]]]
  BY DEF Lines
<1> HIDE DEF t, lines
<1>3. Lines(t) = [v \in 0 .. Height - 1 |-> [u \in 0 .. Width - 1 |-> t[v * Width + u]]]
  BY DEF Lines
<1>4. Lines(t) = lines
  BY <1>1, <1>2, <1>3
<1> QED BY <1>4 DEF t, lines

(* Cells that have all moved are lines that have moved.                    *)
LEMMA LinesScrolled ==
  ASSUME NEW s
  PROVE  Lines(Scrolled(s, Width * Height))
           = [v \in Page!Rows |-> IF v < Height - 1 THEN Lines(s)[v + 1] ELSE Page!BlankLine]
<1> DEFINE t == Scrolled(s, Width * Height)
           lines == [v \in 0 .. Height - 1 |-> IF v < Height - 1 THEN Lines(s)[v + 1] ELSE Page!BlankLine]
<1>1. ASSUME NEW v \in 0 .. Height - 1, NEW u \in 0 .. Width - 1
      PROVE  t[v * Width + u] = lines[v][u]
  <2> DEFINE k == v * Width + u
  <2>1. /\ k \in Cell
        /\ v + 1 <= Height - 1 => (v + 1) * Width + u = k + Width
        /\ (k < Width * (Height - 1)) <=> v < Height - 1
    BY PlaceFacts
  <2>2. k < Width * Height
    BY <2>1, CellFacts DEF Cell
  <2>3. t[k] = IF k < Width * (Height - 1) THEN s[k + Width] ELSE Blank
    BY <2>1, <2>2 DEF Scrolled
  <2>4. CASE v < Height - 1
    <3>1. v + 1 \in 0 .. Height - 1 /\ v + 1 <= Height - 1
      BY <2>4, TtyAssumption
    <3>2. lines[v] = Lines(s)[v + 1]
      BY <2>4
    <3>3. Lines(s)[v + 1][u] = s[(v + 1) * Width + u]
      BY <3>1 DEF Lines
    <3> HIDE DEF k, t, lines
    <3> QED BY <2>1, <2>3, <2>4, <3>1, <3>2, <3>3 DEF k
  <2>5. CASE ~(v < Height - 1)
    <3>1. lines[v] = Page!BlankLine
      BY <2>5
    <3>2. Page!BlankLine[u] = Blank
      BY DEF Page!BlankLine, Page!Columns
    <3> HIDE DEF k, t, lines
    <3> QED BY <2>1, <2>3, <2>5, <3>1, <3>2 DEF k
  <2> QED BY <2>4, <2>5
<1>2. \A v \in 0 .. Height - 1 : lines[v] = [u \in 0 .. Width - 1 |-> lines[v][u]]
  <2> SUFFICES ASSUME NEW v \in 0 .. Height - 1
               PROVE  lines[v] = [u \in 0 .. Width - 1 |-> lines[v][u]]
    OBVIOUS
  <2>1. CASE v < Height - 1
    <3>1. v + 1 \in 0 .. Height - 1
      BY <2>1, TtyAssumption
    <3> QED BY <2>1, <3>1 DEF Lines
  <2>2. CASE ~(v < Height - 1)
    BY <2>2 DEF Page!BlankLine, Page!Columns
  <2> QED BY <2>1, <2>2
<1>3. lines = [v \in 0 .. Height - 1 |-> lines[v]]
  OBVIOUS
<1> HIDE DEF t, lines
<1>4. Lines(t) = [v \in 0 .. Height - 1 |-> [u \in 0 .. Width - 1 |-> t[v * Width + u]]]
  BY DEF Lines
<1>5. Lines(t) = lines
  BY <1>1, <1>2, <1>3, <1>4
<1> QED BY <1>5 DEF t, lines, Page!Rows

(* Blank cells are blank lines.                                            *)
LEMMA LinesCleared == Abs(Cleared, 0, 0, 0) = Page!BlankPage
<1>1. ASSUME NEW v \in 0 .. Height - 1, NEW u \in 0 .. Width - 1
      PROVE  Cleared[v * Width + u] = Blank
  BY PlaceFacts DEF Cleared
<1> QED BY <1>1 DEF Abs, Lines, Page!BlankPage, Page!BlankLine, Page!Rows, Page!Columns

(* The operations of the page: a character is placed,                      *)
LEMMA PagePlaces ==
  ASSUME NEW s, NEW y \in 0 .. Height - 1, NEW x \in 0 .. Width - 1, NEW k, NEW c
  PROVE  Page!Placed(Abs(s, y, x, k), c) = Abs(With(s, y, x, c), y, x, k)
<1> DEFINE p == Abs(s, y, x, k)
<1>1. p.lines = Lines(s) /\ p.row = y /\ p.column = x
  BY DEF Abs
<1>2. Page!Placed(p, c) = [p EXCEPT !.lines = [Lines(s) EXCEPT ![y] = [Lines(s)[y] EXCEPT ![x] = c]]]
  BY <1>1 DEF Page!Placed
<1> QED BY <1>2, LinesWith DEF Abs

(* the cursor shows the place,                                             *)
LEMMA PageShows ==
  ASSUME NEW s, NEW y, NEW x, NEW k
  PROVE  Page!Shown(Abs(s, y, x, k)) = Abs(s, y, x, y * Width + x)
BY DEF Page!Shown, Abs

(* a line begins,                                                          *)
LEMMA PageBreaks ==
  ASSUME NEW s, NEW y, NEW x, NEW k
  PROVE  Page!Broken(Abs(s, y, x, k)) = IF y < Height - 1 THEN Abs(s, y + 1, 0, k)
                                        ELSE Abs(Scrolled(s, Width * Height), y, 0, k)
<1> DEFINE p == Abs(s, y, x, k)
           lines == [v \in Page!Rows |-> IF v < Height - 1 THEN Lines(s)[v + 1] ELSE Page!BlankLine]
<1>1. p.lines = Lines(s) /\ p.row = y
  BY DEF Abs
<1>2. Page!Broken(p) = IF y < Height - 1 THEN [p EXCEPT !.row = y + 1, !.column = 0]
                       ELSE [p EXCEPT !.lines = lines, !.column = 0]
  <2> HIDE DEF p
  <2> QED BY <1>1 DEF Page!Broken
<1>3. [p EXCEPT !.row = y + 1, !.column = 0] = Abs(s, y + 1, 0, k)
  <2>1. [p EXCEPT !.row = y + 1] = Abs(s, y + 1, x, k)
    BY DEF Abs
  <2>2. [Abs(s, y + 1, x, k) EXCEPT !.column = 0] = Abs(s, y + 1, 0, k)
    BY DEF Abs
  <2> HIDE DEF p
  <2>3. [p EXCEPT !.row = y + 1, !.column = 0] = [[p EXCEPT !.row = y + 1] EXCEPT !.column = 0]
    OBVIOUS
  <2> QED BY <2>1, <2>2, <2>3
<1>4. lines = Lines(Scrolled(s, Width * Height))
  BY LinesScrolled
<1> HIDE DEF lines
<1>5. [p EXCEPT !.lines = lines, !.column = 0] = Abs(Scrolled(s, Width * Height), y, 0, k)
  <2> DEFINE t == Scrolled(s, Width * Height)
  <2>1. [p EXCEPT !.lines = lines] = Abs(t, y, x, k)
    BY <1>4 DEF Abs
  <2>2. [Abs(t, y, x, k) EXCEPT !.column = 0] = Abs(t, y, 0, k)
    BY DEF Abs
  <2> HIDE DEF p, t
  <2>3. [p EXCEPT !.lines = lines, !.column = 0] = [[p EXCEPT !.lines = lines] EXCEPT !.column = 0]
    OBVIOUS
  <2> QED BY <2>1, <2>2, <2>3 DEF t
<1> HIDE DEF p
<1> QED BY <1>2, <1>3, <1>5 DEF p

(* and a step back is taken.                                               *)
LEMMA PageTurns ==
  ASSUME NEW s, NEW y, NEW x, NEW k
  PROVE  Page!Back(Abs(s, y, x, k)) = IF x > 0 THEN Abs(s, y, x - 1, k)
                                      ELSE IF y > 0 THEN Abs(s, y - 1, Width - 1, k)
                                      ELSE Abs(s, y, x, k)
<1> DEFINE p == Abs(s, y, x, k)
<1>1. p.row = y /\ p.column = x
  BY DEF Abs
<1>2. Page!Back(p) = IF x > 0 THEN [p EXCEPT !.column = x - 1]
                     ELSE IF y > 0 THEN [p EXCEPT !.row = y - 1, !.column = Width - 1]
                     ELSE p
  <2> HIDE DEF p
  <2> QED BY <1>1 DEF Page!Back
<1>3. [p EXCEPT !.column = x - 1] = Abs(s, y, x - 1, k)
  BY DEF Abs
<1>4. [p EXCEPT !.row = y - 1, !.column = Width - 1] = Abs(s, y - 1, Width - 1, k)
  <2>1. [p EXCEPT !.row = y - 1] = Abs(s, y - 1, x, k)
    BY DEF Abs
  <2>2. [Abs(s, y - 1, x, k) EXCEPT !.column = Width - 1] = Abs(s, y - 1, Width - 1, k)
    BY DEF Abs
  <2> HIDE DEF p
  <2>3. [p EXCEPT !.row = y - 1, !.column = Width - 1]
          = [[p EXCEPT !.row = y - 1] EXCEPT !.column = Width - 1]
    OBVIOUS
  <2> QED BY <2>1, <2>2, <2>3
<1> HIDE DEF p
<1> QED BY <1>2, <1>3, <1>4 DEF p

(* The page of a history.                                                  *)
Shows(p) == Abs(p.screen, p.row, p.column, p.cursor)

(* The place it left is on the page.                                       *)
PlaceOnPage == page.row \in 0 .. Height - 1 /\ page.column \in 0 .. Width - 1

(* What typing leaves is what the page promises.                           *)
LEMMA TypeShown ==
  ASSUME PlaceOnPage, NEW c, NEW s, NEW y, NEW x, TypeDone(page, c, s, y, x)
  PROVE  Abs(s, y, x, y * Width + x) = Page!Shown(Page!Typed(Shows(page), c))
<1> DEFINE k == page.cursor
           a == page.row
           b == page.column
<1>1. /\ a \in 0 .. Height - 1 /\ b \in 0 .. Width - 1
      /\ y \in 0 .. Height - 1 /\ x \in 0 .. Width - 1
  BY OutcomeOnPage DEF PlaceOnPage
<1>2. Page!Shown(Abs(s, y, x, k)) = Abs(s, y, x, y * Width + x)
  BY PageShows
<1>3. Shows(page).column = b
  BY DEF Shows, Abs
<1>4. ASSUME ~Ends(page, c)
      PROVE  Page!Typed(Shows(page), c) = Abs(s, y, x, k)
  <2>1. c # Newline /\ b # Width - 1 /\ s = With(page.screen, a, b, c) /\ y = a /\ x = b + 1
    BY <1>4 DEF TypeDone, Ends, Into
  <2>2. Page!Placed(Shows(page), c) = Abs(s, a, b, k)
    BY <1>1, <2>1, PagePlaces DEF Shows
  <2>3. Page!Typed(Shows(page), c) = [Abs(s, a, b, k) EXCEPT !.column = @ + 1]
    BY <1>3, <2>1, <2>2 DEF Page!Typed
  <2> HIDE DEF a, b, k
  <2> QED BY <2>1, <2>3 DEF Abs
<1>5. ASSUME Ends(page, c)
      PROVE  Page!Typed(Shows(page), c) = Abs(s, y, x, k)
  <2> DEFINE t == Into(page, c)
  <2>1. Page!Typed(Shows(page), c) = Page!Broken(Abs(t, a, b, k))
    <3>1. CASE c = Newline
      BY <3>1 DEF Into, Page!Typed, Shows
    <3>2. CASE c # Newline
      <4>1. Page!Placed(Shows(page), c) = Abs(t, a, b, k)
        BY <1>1, <3>2, PagePlaces DEF Into, Shows
      <4>2. b = Width - 1
        BY <1>5, <3>2 DEF Ends
      <4> QED BY <1>3, <3>2, <4>1, <4>2 DEF Page!Typed
    <3> QED BY <3>1, <3>2
  <2>2. \/ a < Height - 1 /\ s = t /\ y = a + 1 /\ x = 0
        \/ ~(a < Height - 1) /\ s = Scrolled(t, Width * Height) /\ y = a /\ x = 0
    BY <1>1, <1>5, TtyAssumption DEF TypeDone
  <2> HIDE DEF a, b, k, t
  <2>3. Page!Broken(Abs(t, a, b, k)) = IF a < Height - 1 THEN Abs(t, a + 1, 0, k)
                                       ELSE Abs(Scrolled(t, Width * Height), a, 0, k)
    BY PageBreaks
  <2> QED BY <2>1, <2>2, <2>3
<1> QED BY <1>2, <1>4, <1>5

(* So is what rubbing out leaves.                                          *)
LEMMA BackShown ==
  ASSUME PlaceOnPage, NEW s, NEW y, NEW x, BackDone(page, s, y, x)
  PROVE  Abs(s, y, x, y * Width + x) = Page!Shown(Page!Placed(Page!Back(Shows(page)), Blank))
<1> DEFINE k == page.cursor
           a == page.row
           b == page.column
<1>1. /\ a \in 0 .. Height - 1 /\ b \in 0 .. Width - 1
      /\ y \in 0 .. Height - 1 /\ x \in 0 .. Width - 1
  BY OutcomeOnPage DEF PlaceOnPage
<1>2. BackAt(page, y, x) /\ s = With(page.screen, y, x, Blank)
  BY DEF BackDone
<1>3. Page!Back(Shows(page)) = Abs(page.screen, y, x, k)
  <2>1. Page!Back(Shows(page)) = IF b > 0 THEN Abs(page.screen, a, b - 1, k)
                                 ELSE IF a > 0 THEN Abs(page.screen, a - 1, Width - 1, k)
                                 ELSE Abs(page.screen, a, b, k)
    BY PageTurns DEF Shows
  <2>2. \/ b > 0 /\ y = a /\ x = b - 1
        \/ b = 0 /\ a > 0 /\ y = a - 1 /\ x = Width - 1
        \/ b = 0 /\ a = 0 /\ y = a /\ x = b
    BY <1>2 DEF BackAt
  <2> HIDE DEF a, b, k
  <2> QED BY <2>1, <2>2
<1>4. Page!Placed(Abs(page.screen, y, x, k), Blank) = Abs(s, y, x, k)
  BY <1>1, <1>2, PagePlaces
<1>5. Page!Shown(Abs(s, y, x, k)) = Abs(s, y, x, y * Width + x)
  BY PageShows
<1> QED BY <1>3, <1>4, <1>5

-----------------------------------------------------------------------------
(* The steps of the page.                                                  *)

PageStep == [Page!PageNext]_(Page!page_vars)

(* The page stays while a call is in progress.                             *)
LEMMA QuietPage == ASSUME UNCHANGED <<page, torn>> PROVE PageStep
BY DEF PageStep, Page!page_vars

(* An interrupt in the middle of a call spoils it.                         *)
LEMMA InterruptPage == ASSUME Tracks, irq_handler PROVE PageStep
<1>1. UNCHANGED page /\ torn' = (torn \/ call["kernel"] # Idle)
  BY DEF irq_handler
<1>2. (torn' = torn) \/ (torn' = TRUE)
  BY <1>1 DEF Tracks, PageType
<1>3. CASE torn' = torn
  BY <1>1, <1>3, QuietPage
<1>4. CASE torn' = TRUE
  BY <1>1, <1>4 DEF PageStep, Page!PageNext, Page!Interrupt
<1> QED BY <1>2, <1>3, <1>4

(* What a call leaves is the page, the cursor at the place, when no        *)
(* interrupt came or after an exception.                                   *)
LEMMA SendHighShows ==
  ASSUME CursorFits, IInv, Tracks, SendHigh, Alone, ~torn \/ level = "panic",
         terminal_row \in 0 .. Height - 1, terminal_column \in 0 .. Width - 1
  PROVE  Shows(page') = Abs(screen, terminal_row, terminal_column, terminal_row * Width + terminal_column)
<1> DEFINE n == terminal_row * Width + terminal_column
<1>1. level \in Level /\ my.at = "high" /\ ~Lost
  BY DEF SendHigh, At, my, Lost
<1>2. CursorFollows(my, terminal_row, terminal_column, crtc)
  BY <1>1 DEF Tracks, Tracking, Clearing
<1>3. crtc.index = "high" /\ crtc.low = my.pos % BYTE /\ my.pos = n % (BYTE * BYTE)
  BY <1>1, <1>2 DEF CursorFollows, ShowPlaces
<1>4. n \in 0 .. BYTE * BYTE - 1
  BY PlaceFacts, CellFacts, PosFacts DEF Cell, CursorFits
<1> HIDE DEF n
<1>5. my.pos = n
  <2>1. \A b \in Nat \ {0} : \A a \in 0 .. b - 1 : a % b = a
    OBVIOUS
  <2> QED BY <1>3, <1>4, <2>1, PosFacts
<1>6. crtc'.high * BYTE + crtc'.low = n
  BY <1>1, <1>3, <1>5, CursorSent
<1>7. page' = [screen |-> screen, row |-> terminal_row, column |-> terminal_column,
               cursor |-> crtc'.high * BYTE + crtc'.low]
  BY DEF SendHigh
<1> QED BY <1>6, <1>7 DEF Shows, n

(* The end of a call is an operation of the page, its settling, or, where  *)
(* the place was off the page, anything.                                   *)
LEMMA SendHighPage == ASSUME CursorFits, IInv, Tracks, SendHigh PROVE PageStep
<1> DEFINE new == Abs(screen, terminal_row, terminal_column, terminal_row * Width + terminal_column)
<1>1. level \in Level /\ my.at = "high" /\ my.c \in Char
  BY Found DEF SendHigh, At, my, Call
<1>2. CASE ~Alone
  BY <1>2, QuietPage DEF SendHigh, history
<1>3. CASE Alone /\ (~torn \/ level = "panic") /\ ClearDone(screen, terminal_row, terminal_column)
  <2>1. terminal_row \in 0 .. Height - 1 /\ terminal_column \in 0 .. Width - 1
    BY <1>3, LastFacts DEF ClearDone
  <2>2. Shows(page') = new /\ torn' = FALSE
    BY <1>3, <2>1, SendHighShows DEF SendHigh
  <2>3. new = Page!BlankPage
    <3>1. new = Abs(Cleared, 0, 0, 0 * Width + 0)
      BY <1>3 DEF ClearDone
    <3>2. 0 * Width + 0 = 0
      BY TtyAssumption
    <3> QED BY <3>1, <3>2, LinesCleared
  <2> QED BY <2>2, <2>3 DEF PageStep, Page!PageNext, Page!Clear, Shows, Abs
<1>4. CASE Alone /\ ~torn /\ PlaceOnPage /\ TypeDone(page, my.c, screen, terminal_row, terminal_column)
  <2>1. terminal_row \in 0 .. Height - 1 /\ terminal_column \in 0 .. Width - 1
    BY <1>4, OutcomeOnPage DEF PlaceOnPage
  <2>2. Shows(page') = new /\ torn' = FALSE /\ torn = FALSE
    BY <1>4, <2>1, SendHighShows DEF SendHigh, Tracks, PageType
  <2>3. new = Page!Shown(Page!Typed(Shows(page), my.c))
    BY <1>4, TypeShown
  <2> QED BY <1>1, <1>4, <2>2, <2>3
          DEF PageStep, Page!PageNext, Page!Type, Shows, Abs, PlaceOnPage, Page!OnPage, Page!Rows, Page!Columns
<1>5. CASE Alone /\ ~torn /\ PlaceOnPage /\ BackDone(page, screen, terminal_row, terminal_column)
  <2>1. terminal_row \in 0 .. Height - 1 /\ terminal_column \in 0 .. Width - 1
    BY <1>5, OutcomeOnPage DEF PlaceOnPage
  <2>2. Shows(page') = new /\ torn' = FALSE /\ torn = FALSE
    BY <1>5, <2>1, SendHighShows DEF SendHigh, Tracks, PageType
  <2>3. new = Page!Shown(Page!Placed(Page!Back(Shows(page)), Blank))
    BY <1>5, BackShown
  <2> QED BY <1>5, <2>2, <2>3
          DEF PageStep, Page!PageNext, Page!Backspace, Shows, Abs, PlaceOnPage, Page!OnPage, Page!Rows, Page!Columns
<1>6. CASE Alone /\ ~torn /\ ~PlaceOnPage
  <2>1. torn = FALSE /\ torn' = FALSE
    BY <1>6 DEF SendHigh, Tracks, PageType
  <2> QED BY <1>6, <2>1
          DEF PageStep, Page!PageNext, Page!Stray, PlaceOnPage, Page!OnPage, Page!Rows, Page!Columns
<1>7. CASE Alone /\ torn /\ level # "panic"
  <2>1. torn = TRUE /\ torn' = FALSE
    BY <1>7 DEF SendHigh, Tracks, PageType
  <2> QED BY <2>1 DEF PageStep, Page!PageNext, Page!Settle
<1>8. Alone /\ ~torn =>
        \/ TypeDone(page, my.c, screen, terminal_row, terminal_column)
        \/ BackDone(page, screen, terminal_row, terminal_column)
        \/ ClearDone(screen, terminal_row, terminal_column)
  BY <1>1 DEF Tracks, Tracking, CursorPlaces
<1>9. torn /\ level = "panic" => ClearDone(screen, terminal_row, terminal_column)
  BY <1>1 DEF Tracks, Clearing, CursorPlaces
<1> QED BY <1>2, <1>3, <1>4, <1>5, <1>6, <1>7, <1>8, <1>9

(* Every call that nothing interrupts and that begins with its place on    *)
(* the page does to it what a terminal promises, and a clear does so from  *)
(* any state, on every size of page the cursor's bytes can show.           *)
THEOREM PageCorrect == ASSUME CursorFits PROVE TtySpec => ImplementsPage
<1>1. TtyInit => Page!PageInit
  <2> SUFFICES ASSUME TtyInit PROVE Page!PageInit
    OBVIOUS
  <2>1. /\ torn = FALSE /\ page.row = 0 /\ page.column = 0 /\ page.screen = Cleared
    BY DEF TtyInit, Cleared
  <2>2. Shows(page) = Abs(Cleared, 0, 0, page.cursor)
    BY <2>1 DEF Shows
  <2>3. Abs(Cleared, 0, 0, page.cursor) = [Abs(Cleared, 0, 0, 0) EXCEPT !.cursor = page.cursor]
    BY DEF Abs
  <2>4. Shows(page) = [Page!BlankPage EXCEPT !.cursor = Shows(page).cursor]
    BY <2>2, <2>3, LinesCleared DEF Shows, Abs
  <2> QED BY <2>1, <2>4 DEF Page!PageInit, Shows, Abs
<1>2. IInv /\ Tracks /\ [TtyNext]_tty_vars => PageStep
  <2> SUFFICES ASSUME IInv, Tracks, [TtyNext]_tty_vars PROVE PageStep
    OBVIOUS
  <2>1. CASE UNCHANGED tty_vars
    BY <2>1, QuietPage DEF tty_vars
  <2>2. CASE Step
    BY <2>2, QuietPage, SendHighPage
    DEF Step, PutPlaces, PutAdvances, PutWraps, PutBreaks, terminal_scroll, ScrollHomes, ScrollEnds,
        terminal_backspace, BackTurns, BackRubs, terminal_clear, ClearRow, ClearColumn,
        terminal_setcursorpos, SelectLow, SendLow, SelectHigh, CharLost, StoreMisses, history
  <2>3. CASE KernelCalls \/ HandlerTypes \/ Iret \/ exception_handler \/ abort
    BY <2>3, QuietPage DEF KernelCalls, HandlerTypes, Iret, exception_handler, abort, history
  <2> QED BY <2>1, <2>2, <2>3, InterruptPage DEF TtyNext
<1> QED BY <1>1, <1>2, TrackInvariance, PTL DEF TtySpec, ImplementsPage, Page!PageSpec, PageStep

-----------------------------------------------------------------------------
(* An exception.  w[n] is the page when n characters of its text have been *)
(* typed on a blank one.                                                   *)

IsWritten(w, n) ==
  w = [k \in 0 .. n |-> IF k = 0 THEN Page!BlankPage ELSE Page!Shown(Page!Typed(w[k - 1], PanicText[k]))]

TypePlaces == {"place", "column", "wrap", "row", "scroll", "home", "home_column"}

(* How many of its characters have been typed or are being typed.          *)
Count == Len(PanicText) - Len(text)

Spelled == Count \in 0 .. Len(PanicText) /\ \A i \in 1 .. Len(text) : text[i] = PanicText[Count + i]

(* Its handler clears, types a character, or is between two.               *)
PanicClears ==
  /\ my.at \in ClearPlaces \cup CursorPlaces /\ Count = 0
  /\ my.at \in CursorPlaces => ClearDone(screen, terminal_row, terminal_column)

PanicTypes(w) ==
  /\ my.at \in TypePlaces \cup CursorPlaces /\ ~torn /\ PlaceOnPage
  /\ Count > 0 /\ my.c = PanicText[Count] /\ Shows(page) = w[Count - 1]
  /\ my.at \in CursorPlaces => TypeDone(page, my.c, screen, terminal_row, terminal_column)

PanicRests(w) == my.at = "idle" /\ ~torn /\ PlaceOnPage /\ Shows(page) = w[Count]

PanicInv(w) ==
  /\ level \in {"panic", "halted"} => Spelled
  /\ level = "panic" => PanicClears \/ PanicTypes(w) \/ PanicRests(w)
  /\ level = "halted" =>
       Abs(screen, terminal_row, terminal_column, crtc.high * BYTE + crtc.low) = w[Len(PanicText)]

(* What was typed along the text is a function.                            *)
LEMMA WrittenExists == \A n \in Nat : \E w : IsWritten(w, n)
<1> DEFINE Bad == {n \in Nat : ~\E w : IsWritten(w, n)}
<1>1. SUFFICES ASSUME Bad # {} PROVE FALSE
  OBVIOUS
<1>2. PICK n \in Bad : \A j \in Bad : n <= j
  BY <1>1, LeastNatural
<1>3. CASE n = 0
  <2>1. IsWritten([k \in 0 .. 0 |-> Page!BlankPage], 0)
    BY DEF IsWritten
  <2> QED BY <1>2, <1>3, <2>1
<1>4. CASE n # 0
  <2>1. n - 1 \in Nat /\ n - 1 \notin Bad
    BY <1>2, <1>4
  <2>2. PICK w : IsWritten(w, n - 1)
    BY <2>1
  <2> DEFINE v == [k \in 0 .. n |-> IF k = n THEN Page!Shown(Page!Typed(w[n - 1], PanicText[n])) ELSE w[k]]
  <2>3. \A k \in 0 .. n :
          v[k] = IF k = 0 THEN Page!BlankPage ELSE Page!Shown(Page!Typed(v[k - 1], PanicText[k]))
    <3>1. \A k \in 0 .. n - 1 :
            w[k] = IF k = 0 THEN Page!BlankPage ELSE Page!Shown(Page!Typed(w[k - 1], PanicText[k]))
      BY <2>2 DEF IsWritten
    <3> QED BY <3>1, <2>1, <1>4
  <2>4. IsWritten(v, n)
    <3> HIDE DEF v
    <3>1. v = [k \in 0 .. n |-> v[k]]
      BY DEF v
    <3> QED BY <2>3, <3>1 DEF IsWritten
  <2> QED BY <1>2, <2>4
<1> QED BY <1>3, <1>4

(* What the panic must show is its last page.                              *)
LEMMA WrittenIs ==
  \E w : IsWritten(w, Len(PanicText)) /\ Written(PanicText, Len(PanicText)) = w[Len(PanicText)]
<1>1. Len(PanicText) \in Nat
  BY TtyAssumption
<1>2. \E w : IsWritten(w, Len(PanicText))
  BY <1>1, WrittenExists
<1>3. Written(PanicText, Len(PanicText)) =
        (CHOOSE w : w = [k \in 0 .. Len(PanicText) |->
                           IF k = 0 THEN Page!BlankPage
                           ELSE Page!Shown(Page!Typed(w[k - 1], PanicText[k]))])[Len(PanicText)]
  BY DEF Written
<1> QED BY <1>2, <1>3 DEF IsWritten

(* Its pages.                                                              *)
LEMMA WrittenFacts ==
  ASSUME NEW w, IsWritten(w, Len(PanicText))
  PROVE  /\ w[0] = Page!BlankPage
         /\ \A k \in 1 .. Len(PanicText) : w[k] = Page!Shown(Page!Typed(w[k - 1], PanicText[k]))
<1>1. Len(PanicText) \in Nat
  BY TtyAssumption
<1>2. \A k \in 0 .. Len(PanicText) :
        w[k] = IF k = 0 THEN Page!BlankPage ELSE Page!Shown(Page!Typed(w[k - 1], PanicText[k]))
  BY DEF IsWritten
<1> QED BY <1>1, <1>2

(* A step of typing goes on typing, or has typed.                          *)
LEMMA TypeGoes ==
  ASSUME IInv, Tracks, Step, ~torn, my.at \in TypePlaces
  PROVE  /\ level \in Level /\ level' = level /\ UNCHANGED <<page, torn, text>>
         /\ my'.at \in TypePlaces \cup {"cursor"} /\ my'.c = my.c
         /\ my'.at = "cursor" => TypeDone(page, my.c, screen', terminal_row', terminal_column')
<1>1. level \in Level
  BY DEF Step, At, PutPlaces, PutAdvances, PutWraps, PutBreaks, terminal_scroll, ScrollHomes, ScrollEnds,
         terminal_backspace, BackTurns, BackRubs, terminal_clear, ClearRow, ClearColumn,
         terminal_setcursorpos, SelectLow, SendLow, SelectHigh, SendHigh, CharLost, StoreMisses, Lost, Level
<1>2. my \in Call /\ call \in [Level -> Call]
  BY <1>1, Found
<1>3. Tracking(my, page, screen, terminal_row, terminal_column, crtc)
  BY <1>1 DEF Tracks
<1>4. CASE PutPlaces
  <2>1. my' = [my EXCEPT !.at = "column"]
    BY <1>1, <1>2, <1>4 DEF PutPlaces, Goes, my
  <2>2. my'.at = "column" /\ my'.c = my.c
    BY <1>2, <2>1 DEF Call
  <2> QED BY <1>1, <1>4, <2>2 DEF PutPlaces, TypePlaces, history
<1>5. CASE PutAdvances
  <2>1. PICK x \in ColumnSeen : \E kept, tested \in Or({x + 1}, LeftNumber) :
          /\ terminal_column' \in {kept} \cup (IF tested = Width THEN {terminal_column} ELSE {})
          /\ call' = [call EXCEPT ![level].at = IF tested = Width THEN "wrap" ELSE "cursor",
                                  ![level].col = kept]
    BY <1>5 DEF PutAdvances
  <2>2. /\ terminal_column' \in {x + 1} \cup (IF x + 1 = Width THEN {terminal_column} ELSE {})
        /\ call' = [call EXCEPT ![level].at = IF x + 1 = Width THEN "wrap" ELSE "cursor",
                                ![level].col = x + 1]
    <3>1. PICK kept \in Or({x + 1}, LeftNumber), tested \in Or({x + 1}, LeftNumber) :
            /\ terminal_column' \in {kept} \cup (IF tested = Width THEN {terminal_column} ELSE {})
            /\ call' = [call EXCEPT ![level].at = IF tested = Width THEN "wrap" ELSE "cursor",
                                    ![level].col = kept]
      BY <2>1
    <3>2. kept = x + 1 /\ tested = x + 1
      BY <3>1 DEF Or, Lost
    <3> QED BY <3>1, <3>2
  <2> DEFINE to == IF x + 1 = Width THEN "wrap" ELSE "cursor"
  <2>3. my' = [my EXCEPT !.at = to, !.col = x + 1]
    BY <1>1, <1>2, <1>5, <2>2 DEF PutAdvances, my
  <2>4. my'.at = to /\ my'.c = my.c
    BY <1>2, <2>3 DEF Call
  <2>5. /\ my.at = "column" /\ level' = level
        /\ UNCHANGED <<screen, terminal_row, page, torn, text>>
    BY <1>5 DEF PutAdvances, At, my, history
  <2>6. /\ my.c # Newline /\ my.col = terminal_column
        /\ screen = Into(page, my.c) /\ terminal_row = page.row /\ terminal_column = page.column
    BY <1>3, <2>5 DEF Tracking, TypeFollows, Regs
  <2>7. x = page.column /\ x \in Nat /\ Width \in Nat
    BY <2>1, <2>6, TtyAssumption DEF ColumnSeen, Or, Lost, IInv, TtyTypeOK
  <2>8. ASSUME x + 1 # Width
        PROVE  TypeDone(page, my.c, screen', terminal_row', terminal_column')
    <3>1. page.column # Width - 1 /\ terminal_column' = x + 1
      BY <2>2, <2>7, <2>8
    <3>2. ~Ends(page, my.c)
      BY <2>6, <3>1 DEF Ends
    <3> QED BY <2>5, <2>6, <2>7, <3>1, <3>2 DEF TypeDone
  <2> QED BY <1>1, <2>4, <2>5, <2>8 DEF TypePlaces
<1>6. CASE PutWraps
  <2>1. my' = [my EXCEPT !.at = "row", !.col = 0]
    BY <1>1, <1>2, <1>6 DEF PutWraps, my
  <2>2. my'.at = "row" /\ my'.c = my.c
    BY <1>2, <2>1 DEF Call
  <2> QED BY <1>1, <1>6, <2>2 DEF PutWraps, TypePlaces, history
<1>7. CASE PutBreaks
  <2>1. PICK y \in RowSeen : \E kept, tested \in Or({y + 1}, LeftNumber) :
          /\ terminal_row' \in {kept} \cup (IF tested = Height THEN {terminal_row} ELSE {})
          /\ call' = [call EXCEPT ![level].at = IF tested = Height THEN "scroll" ELSE "cursor",
                                  ![level].row = kept]
    BY <1>7 DEF PutBreaks
  <2>2. /\ terminal_row' \in {y + 1} \cup (IF y + 1 = Height THEN {terminal_row} ELSE {})
        /\ call' = [call EXCEPT ![level].at = IF y + 1 = Height THEN "scroll" ELSE "cursor",
                                ![level].row = y + 1]
    <3>1. PICK kept \in Or({y + 1}, LeftNumber), tested \in Or({y + 1}, LeftNumber) :
            /\ terminal_row' \in {kept} \cup (IF tested = Height THEN {terminal_row} ELSE {})
            /\ call' = [call EXCEPT ![level].at = IF tested = Height THEN "scroll" ELSE "cursor",
                                    ![level].row = kept]
      BY <2>1
    <3>2. kept = y + 1 /\ tested = y + 1
      BY <3>1 DEF Or, Lost
    <3> QED BY <3>1, <3>2
  <2> DEFINE to == IF y + 1 = Height THEN "scroll" ELSE "cursor"
  <2>3. my' = [my EXCEPT !.at = to, !.row = y + 1]
    BY <1>1, <1>2, <1>7, <2>2 DEF PutBreaks, my
  <2>4. my'.at = to /\ my'.c = my.c
    BY <1>2, <2>3 DEF Call
  <2>5. /\ my.at = "row" /\ level' = level
        /\ UNCHANGED <<screen, terminal_column, page, torn, text>>
    BY <1>7 DEF PutBreaks, At, my, history
  <2>6. /\ Ends(page, my.c) /\ screen = Into(page, my.c) /\ terminal_row = page.row
        /\ my.row = page.row /\ terminal_column = 0
    BY <1>3, <2>5 DEF Tracking, TypeFollows
  <2>7. y = page.row /\ y \in Nat /\ Height \in Nat
    BY <2>1, <2>6, TtyAssumption DEF RowSeen, Or, Lost, Tracks, PageType
  <2>8. ASSUME y + 1 # Height
        PROVE  TypeDone(page, my.c, screen', terminal_row', terminal_column')
    <3>1. page.row # Height - 1 /\ terminal_row' = y + 1
      BY <2>2, <2>7, <2>8
    <3> QED BY <2>5, <2>6, <2>7, <3>1 DEF TypeDone
  <2> QED BY <1>1, <2>4, <2>5, <2>8 DEF TypePlaces
<1>8. CASE terminal_scroll
  <2> DEFINE to == IF my.k + 1 = Width * Height THEN "home" ELSE "scroll"
  <2>1. my' = [my EXCEPT !.at = to, !.k = my.k + 1]
    BY <1>1, <1>2, <1>8 DEF terminal_scroll, my
  <2>2. my'.at = to /\ my'.c = my.c
    BY <1>2, <2>1 DEF Call
  <2> QED BY <1>1, <1>8, <2>2 DEF terminal_scroll, TypePlaces, history
<1>9. CASE ScrollHomes
  <2>1. my' = [my EXCEPT !.at = "home_column", !.row = Height - 1]
    BY <1>1, <1>2, <1>9 DEF ScrollHomes, my
  <2>2. my'.at = "home_column" /\ my'.c = my.c
    BY <1>2, <2>1 DEF Call
  <2> QED BY <1>1, <1>9, <2>2 DEF ScrollHomes, TypePlaces, history
<1>10. CASE ScrollEnds
  <2>1. my' = [my EXCEPT !.at = "cursor", !.col = 0]
    BY <1>1, <1>2, <1>10 DEF ScrollEnds, my
  <2>2. my'.at = "cursor" /\ my'.c = my.c
    BY <1>2, <2>1 DEF Call
  <2>3. /\ my.at = "home_column" /\ level' = level /\ terminal_column' = 0
        /\ UNCHANGED <<screen, terminal_row, page, torn, text>>
    BY <1>10 DEF ScrollEnds, At, my, history
  <2>4. TypeDone(page, my.c, screen', terminal_row', terminal_column')
    BY <1>3, <2>3 DEF Tracking, TypeFollows, TypeDone
  <2> QED BY <1>1, <2>2, <2>3, <2>4
<1>11. \/ PutPlaces \/ PutAdvances \/ PutWraps \/ PutBreaks
       \/ terminal_scroll \/ ScrollHomes \/ ScrollEnds
  BY DEF Step, At, my, TypePlaces,
         terminal_backspace, BackTurns, BackRubs, terminal_clear, ClearRow, ClearColumn,
         terminal_setcursorpos, SelectLow, SendLow, SelectHigh, SendHigh, CharLost, StoreMisses, Lost
<1> QED BY <1>4, <1>5, <1>6, <1>7, <1>8, <1>9, <1>10, <1>11

(* A step of the panic's clear goes on clearing, or has cleared.           *)
LEMMA ClearGoes ==
  ASSUME IInv, Tracks, Step, level = "panic", my.at \in ClearPlaces
  PROVE  /\ level' = level /\ UNCHANGED text
         /\ my'.at \in ClearPlaces \cup {"cursor"}
         /\ my'.at = "cursor" => ClearDone(screen', terminal_row', terminal_column')
<1>1. level \in Level /\ my \in Call /\ call \in [Level -> Call]
  BY Found DEF Level
<1>2. ClearFollows(my, screen, terminal_row, terminal_column)
  BY <1>1 DEF Tracks, Tracking, Clearing
<1>3. CASE terminal_clear
  <2> DEFINE to == IF my.k + 1 = Width * Height THEN "clear_row" ELSE "blank"
  <2>1. my' = [my EXCEPT !.at = to, !.k = my.k + 1]
    BY <1>1, <1>3 DEF terminal_clear, my
  <2>2. my'.at = to
    BY <1>1, <2>1 DEF Call
  <2> QED BY <1>3, <2>2 DEF terminal_clear, ClearPlaces
<1>4. CASE ClearRow
  <2>1. my' = [my EXCEPT !.at = "clear_column", !.row = 0]
    BY <1>1, <1>4 DEF ClearRow, my
  <2>2. my'.at = "clear_column"
    BY <1>1, <2>1 DEF Call
  <2> QED BY <1>4, <2>2 DEF ClearRow, ClearPlaces
<1>5. CASE ClearColumn
  <2>1. /\ my.at = "clear_column" /\ level' = level /\ terminal_column' = 0
        /\ UNCHANGED <<screen, terminal_row, text>>
    BY <1>5 DEF ClearColumn, At, my
  <2>2. my' = [my EXCEPT !.at = "cursor", !.col = 0]
    BY <1>1, <1>5 DEF ClearColumn, my
  <2>3. my'.at = "cursor"
    BY <1>1, <2>2 DEF Call
  <2>4. ClearDone(screen', terminal_row', terminal_column')
    BY <1>2, <2>1 DEF ClearFollows, ClearDone
  <2> QED BY <2>1, <2>3, <2>4
<1>6. terminal_clear \/ ClearRow \/ ClearColumn
  BY DEF Step, At, my, ClearPlaces,
         PutPlaces, PutAdvances, PutWraps, PutBreaks, terminal_scroll, ScrollHomes, ScrollEnds,
         terminal_backspace, BackTurns, BackRubs,
         terminal_setcursorpos, SelectLow, SendLow, SelectHigh, SendHigh, CharLost, StoreMisses, Lost
<1> QED BY <1>3, <1>4, <1>5, <1>6

(* The cursor's ports leave the page as it is.                             *)
LEMMA ShowGoes ==
  ASSUME IInv, Step, my.at \in CursorPlaces, my.at # "high"
  PROVE  /\ level' = level /\ my'.at \in CursorPlaces /\ my'.c = my.c
         /\ UNCHANGED <<screen, terminal_row, terminal_column, text, page, torn>>
<1>1. terminal_setcursorpos \/ SelectLow \/ SendLow \/ SelectHigh
  BY DEF Step, At, my, CursorPlaces,
         PutPlaces, PutAdvances, PutWraps, PutBreaks, terminal_scroll, ScrollHomes, ScrollEnds,
         terminal_backspace, BackTurns, BackRubs, terminal_clear, ClearRow, ClearColumn, SendHigh,
         CharLost, StoreMisses
<1>2. level \in Level /\ my \in Call /\ call \in [Level -> Call]
  BY <1>1, Found DEF At, terminal_setcursorpos, SelectLow, SendLow, SelectHigh
<1>3. CASE terminal_setcursorpos
  <2>1. \E pos : call' = [call EXCEPT ![level].at = "low_index", ![level].pos = pos % (BYTE * BYTE)]
    BY <1>3 DEF terminal_setcursorpos
  <2>2. PICK pos : call' = [call EXCEPT ![level].at = "low_index", ![level].pos = pos % (BYTE * BYTE)]
    BY <2>1
  <2>3. level' = level
    BY <1>3 DEF terminal_setcursorpos
  <2> DEFINE to == pos % (BYTE * BYTE)
  <2>4. my' = [my EXCEPT !.at = "low_index", !.pos = to]
    BY <1>2, <2>2, <2>3 DEF my
  <2> HIDE DEF to
  <2>5. my'.at = "low_index" /\ my'.c = my.c
    BY <1>2, <2>4 DEF Call
  <2> QED BY <1>3, <2>5 DEF terminal_setcursorpos, CursorPlaces, terminal, history
<1>4. CASE SelectLow \/ SendLow \/ SelectHigh
  <2>1. PICK to \in {"low", "high_index", "high"} : Goes(to)
    BY <1>4 DEF SelectLow, SendLow, SelectHigh
  <2>2. level' = level
    BY <1>4 DEF SelectLow, SendLow, SelectHigh
  <2>3. my' = [my EXCEPT !.at = to]
    BY <1>2, <2>1, <2>2 DEF my, Goes
  <2>4. my'.at = to /\ my'.c = my.c
    BY <1>2, <2>3 DEF Call
  <2> QED BY <1>4, <2>1, <2>4 DEF SelectLow, SendLow, SelectHigh, CursorPlaces, history
<1> QED BY <1>1, <1>3, <1>4

(* The end of a call of the panic's: one page further.                     *)
LEMMA PanicEnds ==
  ASSUME CursorFits, IInv, Tracks, SendHigh, level = "panic",
         NEW w, IsWritten(w, Len(PanicText)), PanicInv(w)
  PROVE  PanicInv(w)'
<1>1. /\ level \in Level /\ my.at = "high" /\ Alone /\ my \in Call
      /\ my.at \in CursorPlaces /\ my.at # "idle"
  BY Found DEF SendHigh, At, my, Level, Alone, CursorPlaces
<1>2. level' = level /\ text' = text /\ my' = Idle /\ torn' = FALSE
  BY <1>1 DEF SendHigh, my, IInv, TtyTypeOK
<1>3. ASSUME terminal_row \in 0 .. Height - 1, terminal_column \in 0 .. Width - 1
      PROVE  /\ Shows(page') = Abs(screen, terminal_row, terminal_column, terminal_row * Width + terminal_column)
             /\ PlaceOnPage'
  <2>1. Shows(page') = Abs(screen, terminal_row, terminal_column, terminal_row * Width + terminal_column)
    BY <1>1, <1>3, SendHighShows
  <2>2. page'.row = terminal_row /\ page'.column = terminal_column
    BY <1>1 DEF SendHigh
  <2> QED BY <1>3, <2>1, <2>2 DEF PlaceOnPage
<1>4. Count' = Count /\ Spelled /\ Spelled'
  BY <1>2 DEF PanicInv, Spelled, Count
<1>5. Len(PanicText) \in Nat /\ Count \in 0 .. Len(PanicText)
  BY <1>4, TtyAssumption DEF Spelled
<1>6. CASE PanicClears
  <2>1. ClearDone(screen, terminal_row, terminal_column) /\ Count = 0
    BY <1>1, <1>6 DEF PanicClears
  <2>2. 0 * Width + 0 = 0
    BY TtyAssumption
  <2>3. terminal_row \in 0 .. Height - 1 /\ terminal_column \in 0 .. Width - 1
    BY <2>1, LastFacts DEF ClearDone
  <2>4. Shows(page') = w[0] /\ PlaceOnPage'
    BY <1>3, <2>1, <2>2, <2>3, LinesCleared, WrittenFacts DEF ClearDone
  <2> QED BY <1>2, <1>4, <2>1, <2>4 DEF PanicInv, PanicRests, Idle
<1>7. CASE PanicTypes(w)
  <2>1. /\ TypeDone(page, my.c, screen, terminal_row, terminal_column)
        /\ Count > 0 /\ my.c = PanicText[Count] /\ Shows(page) = w[Count - 1] /\ PlaceOnPage
    BY <1>1, <1>7 DEF PanicTypes
  <2>2. Count \in 1 .. Len(PanicText)
    BY <1>5, <2>1
  <2>3. w[Count] = Page!Shown(Page!Typed(w[Count - 1], PanicText[Count]))
    BY <2>2, WrittenFacts
  <2>4. terminal_row \in 0 .. Height - 1 /\ terminal_column \in 0 .. Width - 1
    BY <2>1, OutcomeOnPage DEF PlaceOnPage
  <2>5. Shows(page') = Page!Shown(Page!Typed(Shows(page), my.c)) /\ PlaceOnPage'
    BY <1>3, <2>1, <2>4, TypeShown
  <2>6. Shows(page') = w[Count]
    BY <2>1, <2>3, <2>5
  <2> QED BY <1>2, <1>4, <2>5, <2>6 DEF PanicInv, PanicRests, Idle
<1> QED BY <1>1, <1>6, <1>7 DEF PanicInv, PanicRests

(* The other steps.                                                        *)
LEMMA PanicSteps ==
  ASSUME CursorFits, IInv, Tracks, Step, NEW w, IsWritten(w, Len(PanicText)), PanicInv(w)
  PROVE  PanicInv(w)'
<1>1. level \in Level /\ (level' = level \/ (level = "kernel" /\ level' = "wild"))
  BY DEF Step, At, PutPlaces, PutAdvances, PutWraps, PutBreaks, terminal_scroll, ScrollHomes, ScrollEnds,
         terminal_backspace, BackTurns, BackRubs, terminal_clear, ClearRow, ClearColumn,
         terminal_setcursorpos, SelectLow, SendLow, SelectHigh, SendHigh, CharLost, StoreMisses, Lost, Level
<1>2. CASE level # "panic"
  BY <1>1, <1>2 DEF PanicInv, Level
<1>3. CASE level = "panic" /\ my.at \in ClearPlaces
  <2>1. /\ UNCHANGED text /\ my'.at \in ClearPlaces \cup {"cursor"}
        /\ my'.at = "cursor" => ClearDone(screen', terminal_row', terminal_column')
    BY <1>3, ClearGoes
  <2>2. PanicClears
    BY <1>3 DEF PanicInv, PanicTypes, PanicRests, ClearPlaces, TypePlaces, CursorPlaces
  <2>3. PanicClears'
    BY <2>1, <2>2 DEF PanicClears, Count, ClearPlaces, CursorPlaces
  <2> QED BY <1>1, <1>3, <2>1, <2>3 DEF PanicInv, Spelled, Count
<1>4. CASE level = "panic" /\ my.at \in TypePlaces
  <2>1. PanicTypes(w)
    BY <1>4 DEF PanicInv, PanicClears, PanicRests, ClearPlaces, TypePlaces, CursorPlaces
  <2>2. /\ UNCHANGED <<page, torn, text>>
        /\ my'.at \in TypePlaces \cup {"cursor"} /\ my'.c = my.c
        /\ my'.at = "cursor" => TypeDone(page, my.c, screen', terminal_row', terminal_column')
    BY <1>4, <2>1, TypeGoes DEF PanicTypes
  <2>3. PanicTypes(w)'
    BY <2>1, <2>2 DEF PanicTypes, PlaceOnPage, Count, TypePlaces, CursorPlaces
  <2> QED BY <1>1, <1>4, <2>2, <2>3 DEF PanicInv, Spelled, Count
<1>5. CASE level = "panic" /\ my.at \in CursorPlaces /\ my.at # "high"
  <2>1. /\ my'.at \in CursorPlaces /\ my'.c = my.c
        /\ UNCHANGED <<screen, terminal_row, terminal_column, text, page, torn>>
    BY <1>5, ShowGoes
  <2>2. PanicClears => PanicClears'
    BY <1>5, <2>1 DEF PanicClears, Count
  <2>3. PanicTypes(w) => PanicTypes(w)'
    BY <1>5, <2>1 DEF PanicTypes, PlaceOnPage, Count
  <2>4. ~PanicRests(w)
    BY <1>5 DEF PanicRests, CursorPlaces
  <2> QED BY <1>1, <1>5, <2>1, <2>2, <2>3, <2>4 DEF PanicInv, Spelled, Count
<1>6. CASE level = "panic" /\ my.at = "high"
  <2>1. SendHigh
    BY <1>6 DEF Step, At, my,
         PutPlaces, PutAdvances, PutWraps, PutBreaks, terminal_scroll, ScrollHomes, ScrollEnds,
         terminal_backspace, BackTurns, BackRubs, terminal_clear, ClearRow, ClearColumn,
         terminal_setcursorpos, SelectLow, SendLow, SelectHigh, CharLost, StoreMisses
  <2> QED BY <1>6, <2>1, PanicEnds
<1>7. my.at # "idle"
  BY DEF Step, At, my, PutPlaces, PutAdvances, PutWraps, PutBreaks, terminal_scroll, ScrollHomes, ScrollEnds,
         terminal_backspace, BackTurns, BackRubs, terminal_clear, ClearRow, ClearColumn,
         terminal_setcursorpos, SelectLow, SendLow, SelectHigh, SendHigh, CharLost, StoreMisses
<1> QED BY <1>2, <1>3, <1>4, <1>5, <1>6, <1>7 DEF PanicInv, PanicClears, PanicTypes, PanicRests

(* The next character is taken.                                            *)
LEMMA PanicCalls ==
  ASSUME IInv, KernelCalls \/ HandlerTypes,
         NEW w, IsWritten(w, Len(PanicText)), PanicInv(w)
  PROVE  PanicInv(w)'
<1>1. /\ level \in Level /\ level' = level /\ my.at = "idle" /\ UNCHANGED <<page, torn>>
      /\ call \in [Level -> Call]
  BY Found DEF KernelCalls, HandlerTypes, At, my, history
<1>2. CASE level # "panic"
  BY <1>1, <1>2 DEF PanicInv, Level
<1>3. CASE level = "panic"
  <2>1. HandlerTypes /\ text # <<>> /\ text' = Tail(text) /\ terminal_putchar(Head(text))
    BY <1>3 DEF KernelCalls, HandlerTypes
  <2>2. PanicRests(w) /\ Spelled
    BY <1>1, <1>3 DEF PanicInv, PanicClears, PanicTypes, ClearPlaces, TypePlaces, CursorPlaces
  <2>3. text \in Seq(Char) /\ PanicText \in Seq(Char)
    BY TtyAssumption DEF IInv, TtyTypeOK
  <2>4. /\ Len(text) \in Nat \ {0} /\ Len(PanicText) \in Nat
        /\ Len(Tail(text)) = Len(text) - 1 /\ Head(text) = text[1]
        /\ \A i \in 1 .. Len(text) - 1 : Tail(text)[i] = text[i + 1]
    BY <2>1, <2>3
  <2>5. Count' = Count + 1 /\ Count \in 0 .. Len(PanicText) /\ Count + Len(text) = Len(PanicText)
    BY <2>1, <2>2, <2>4 DEF Count, Spelled
  <2>6. Head(text) = PanicText[Count + 1]
    BY <2>2, <2>4 DEF Spelled
  <2>7. Spelled'
    <3>1. Count' \in 0 .. Len(PanicText)
      BY <2>4, <2>5
    <3>2. ASSUME NEW i \in 1 .. Len(text) - 1
          PROVE  Tail(text)[i] = PanicText[(Count + 1) + i]
      <4>1. i + 1 \in 1 .. Len(text) /\ Count + (i + 1) = (Count + 1) + i
        BY <2>4, <2>5
      <4>2. text[i + 1] = PanicText[Count + (i + 1)]
        BY <2>2, <4>1 DEF Spelled
      <4> QED BY <2>4, <4>1, <4>2
    <3> QED BY <2>1, <2>4, <2>5, <3>1, <3>2 DEF Spelled
  <2>8. my'.at \in {"wrap", "place"} /\ my'.c = Head(text)
    <3> DEFINE to == IF Head(text) = Newline THEN "wrap" ELSE "place"
               d  == [at |-> to, c |-> Head(text), k |-> 0, row |-> terminal_row,
                      col |-> terminal_column, pos |-> 0]
    <3>1. call' = [call EXCEPT ![level] = d]
      BY <2>1 DEF terminal_putchar, Loaded
    <3>2. d.at = to /\ d.c = Head(text)
      OBVIOUS
    <3> HIDE DEF d
    <3>3. my' = d
      BY <1>1, <3>1 DEF my
    <3> QED BY <3>2, <3>3
  <2>9. PanicTypes(w)'
    <3>1. Count' > 0 /\ Count' - 1 = Count
      BY <2>4, <2>5
    <3>2. ~torn' /\ Shows(page') = w[Count] /\ PlaceOnPage'
      BY <1>1, <2>2 DEF PanicRests, PlaceOnPage
    <3> QED BY <2>5, <2>6, <2>8, <3>1, <3>2 DEF PanicTypes, TypePlaces, CursorPlaces
  <2> QED BY <1>1, <1>3, <2>7, <2>9 DEF PanicInv
<1> QED BY <1>2, <1>3

(* The exception comes, or its handler halts.                              *)
LEMMA PanicSwitches ==
  ASSUME IInv, Tracks, irq_handler \/ Iret \/ exception_handler \/ abort,
         NEW w, IsWritten(w, Len(PanicText)), PanicInv(w)
  PROVE  PanicInv(w)'
<1>1. CASE irq_handler \/ Iret
  BY <1>1 DEF irq_handler, Iret, PanicInv
<1>2. CASE exception_handler
  <2> DEFINE d == [Idle EXCEPT !.at = "blank"]
  <2>1. level' = "panic" /\ text' = PanicText /\ my' = d
    BY <1>2 DEF exception_handler, my, Level
  <2>2. d.at = "blank"
    BY DEF Idle
  <2> HIDE DEF d
  <2>3. Count' = 0 /\ Len(PanicText) \in Nat
    BY <2>1, TtyAssumption DEF Count
  <2>4. Spelled'
    BY <2>1, <2>3 DEF Spelled
  <2>5. PanicClears'
    BY <2>1, <2>2, <2>3 DEF PanicClears, ClearPlaces, CursorPlaces
  <2> QED BY <2>1, <2>4, <2>5 DEF PanicInv
<1>3. CASE abort
  <2>1. /\ level = "panic" /\ level' = "halted" /\ my.at = "idle" /\ text = <<>>
        /\ UNCHANGED <<screen, terminal_row, terminal_column, crtc, text, call>>
    BY <1>3 DEF abort, At, my, terminal
  <2>2. PanicRests(w) /\ Spelled
    BY <2>1 DEF PanicInv, PanicClears, PanicTypes, ClearPlaces, TypePlaces, CursorPlaces
  <2>3. Count = Len(PanicText)
    <3>1. Len(PanicText) \in Nat /\ Len(text) = 0
      BY <2>1, TtyAssumption
    <3> QED BY <3>1 DEF Count
  <2>4. Tracking(my, page, screen, terminal_row, terminal_column, crtc)
    BY <2>1, <2>2 DEF Tracks, PanicRests, Level
  <2>5. Abs(screen, terminal_row, terminal_column, crtc.high * BYTE + crtc.low) = Shows(page)
    BY <2>1, <2>4 DEF Tracking, Same, Shows
  <2>6. Abs(screen', terminal_row', terminal_column', crtc'.high * BYTE + crtc'.low) = w[Len(PanicText)]
    BY <2>1, <2>2, <2>3, <2>5 DEF PanicRests
  <2>7. Spelled'
    BY <2>1, <2>2 DEF Spelled, Count
  <2> QED BY <2>1, <2>6, <2>7 DEF PanicInv
<1> QED BY <1>1, <1>2, <1>3

(* Whatever an exception interrupted, at whatever step of whatever call,   *)
(* the machine halts with its text, and nothing else, on the screen.       *)
THEOREM PanicCorrect == ASSUME CursorFits PROVE TtySpec => []PanicShows
<1>1. PICK w : /\ IsWritten(w, Len(PanicText))
               /\ Written(PanicText, Len(PanicText)) = w[Len(PanicText)]
  BY WrittenIs
<1>2. TtyInit => PanicInv(w)
  BY DEF TtyInit, PanicInv
<1>3. IInv /\ Tracks /\ PanicInv(w) /\ [TtyNext]_tty_vars => PanicInv(w)'
  <2> SUFFICES ASSUME IInv, Tracks, PanicInv(w), [TtyNext]_tty_vars PROVE PanicInv(w)'
    OBVIOUS
  <2>1. CASE UNCHANGED tty_vars
    BY <2>1 DEF tty_vars, PanicInv, Spelled, PanicClears, PanicTypes, PanicRests, PlaceOnPage, Count, my
  <2> QED BY <1>1, <2>1, PanicSteps, PanicCalls, PanicSwitches DEF TtyNext
<1>4. PanicInv(w) => PanicShows
  BY <1>1 DEF PanicInv, PanicShows, Abs
<1> QED BY <1>2, <1>3, <1>4, TrackInvariance, PTL DEF TtySpec
=============================================================================
