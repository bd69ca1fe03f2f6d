SPECIFICATION HeapSpec
CONSTANTS
  TotalPages = 6
  WordBits = 4
  Stale = {}
  KernelPage = {}
  TableSize = 4
  VPages = 16
  PAGE_SIZE = 32
  HEAP_START = 256
  HEAP_END = 416
  HeaderSize = 5
  Align = 2
  Slack = 4
  WORD = 1024
  InSize <- MCSmall
  MaxHeld = 4
INVARIANTS HeapTypeOK BlocksTile HeldFits Coalesced BlocksMapped FramesApart
PROPERTY BlocksStay
