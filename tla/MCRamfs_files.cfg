SPECIFICATION FilesSpec
CONSTANTS
  a = a
  b = b
  e = e
  long = long
  longer = longer
  NULL = NULL
  B1 = B1
  B2 = B2
  RAMFS_MAX_FILES = 4
  MAX_ENTRIES = 4
  WORD = 8
  Name <- MCName
  Empty = e
  Trunc <- MCTrunc
  Byte = {0, 1}
  Zero = 0
  Buffers = {B1, B2}
  InPath <- MCWidePaths
  InOffset = {0, 2}
  InData <- MCByte
SYMMETRY MCSymmetry
INVARIANTS NoOrphans NeverFull NoOverrun
