SPECIFICATION TtySpec
CONSTANTS
  VGA_WIDTH = 2
  VGA_HEIGHT = 2
  BYTE = 2
  Glyph = {" ", "k", "p"}
  Blank = " "
  Newline = "newline"
  InChar = {"k", "newline"}
  Message <- MCMessage
  PanicText <- MCPanicText
  LeftNumber = {2}
  LeftGlyph = {" "}
  MaxIrqs = 1
  MaxPlace = 2
INVARIANTS TtyTypeOK PanicShows
PROPERTIES ImplementsPage
CHECK_DEADLOCK FALSE
