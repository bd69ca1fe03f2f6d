SPECIFICATION Spec
CONSTANTS
  a = a
  b = b
  e = e
  long = long
  longer = longer
  NULL = NULL
  B1 = B1
  B2 = B2
  RAMFS_MAX_FILES = 4
  MAX_ENTRIES = 2
  WORD = 8
  Name <- MCTreeName
  Empty = e
  Trunc <- MCTrunc
  Byte = {0, 1}
  Zero = 0
  Buffers = {B1, B2}
  InPath <- MCTreePaths
  InOffset = {0, 1, 7}
  InData <- MCByte
SYMMETRY MCSymmetry
INVARIANTS TypeOK TreeOK KindOK BuffersOwned UniqueNames
PROPERTY ImplementsTree
CHECK_DEADLOCK FALSE
