SPECIFICATION FairKbSpec
CONSTANTS
  BUFFER_SIZE = 3
  KeyCode <- MCKeyCode
  Code <- MCCode
  set1_scancode_to_keycode <- MCTable
  InScan <- MCScan
  LeftIndex = {1}
  LeftPacket <- MCLeftPacket
INVARIANTS KbTypeOK FlagNeedsKey
PROPERTIES ImplementsQueue GetkeyReturns
