SPECIFICATION VfsSpec
CONSTANTS
  a = a
  b = b
  c = c
  f = f
  e = e
  zero = zero
  NULL = NULL
  B1 = B1
  B2 = B2
  N1 = N1
  N2 = N2
  N3 = N3
  N4 = N4
  Name <- MCName
  Empty = e
  Trunc <- MCTrunc
  Byte = {0, 1}
  Zero = 0
  Buffers = {B1}
  NullName = zero
  RAMFS_MAX_FILES = 4
  MAX_ENTRIES = 5
  WORD = 64
  VFS_MAX_OPEN = 1
  VFS_MAX_FS = 2
  Node = {N1, N2, N3, N4}
  Garbage = {0}
  InPath <- MCMountPaths
  InOffset = {0}
  InData <- MCData
  InMount <- MCMounts
  InUnmount <- MCMounts
  InRemove <- NoPath
  MaxOffset = 1
INVARIANTS MountsLive FilesBacked
SYMMETRY MCSymmetry
