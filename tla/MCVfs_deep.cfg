SPECIFICATION VfsSpec
CONSTANTS
  a = a
  b = b
  c = c
  f = f
  e = e
  zero = zero
  NULL = NULL
  B1 = B1
  B2 = B2
  N1 = N1
  N2 = N2
  N3 = N3
  N4 = N4
  N5 = N5
  Name <- MCName
  Empty = e
  Trunc <- MCTrunc
  Byte = {0, 1}
  Zero = 0
  Buffers = {B1, B2}
  NullName = zero
  RAMFS_MAX_FILES = 5
  MAX_ENTRIES = 5
  WORD = 64
  VFS_MAX_OPEN = 2
  VFS_MAX_FS = 1
  Node = {N1, N2, N3, N4, N5}
  Garbage = {0}
  InPath <- MCDeepPaths
  InOffset = {0}
  InData <- NoPath
  InMount <- MCRoot
  InUnmount <- NoPath
  InRemove <- NoPath
  MaxOffset = 2
INVARIANTS WalkKeepsPath
SYMMETRY MCSymmetry
