SPECIFICATION HeapSpec
CONSTANTS
  TotalPages = 8
  WordBits = 4
  Stale = {}
  KernelPage = {}
  TableSize = 4
  VPages = 16
  PAGE_SIZE = 32
  HEAP_START = 256
  HEAP_END = 416
  HeaderSize = 5
  Align = 2
  Slack = 4
  WORD = 1024
  InSize <- MCLarge
  MaxHeld = 4
PROPERTY BlocksStay
