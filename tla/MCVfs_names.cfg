SPECIFICATION FairVfsSpec
CONSTANTS
  a = a
  b = b
  c = c
  f = f
  e = e
  zero = zero
  NULL = NULL
  B1 = B1
  B2 = B2
  N1 = N1
  N2 = N2
  N3 = N3
  N4 = N4
  Name <- MCName
  Empty = e
  Trunc <- MCTrunc
  Byte = {0, 1}
  Zero = 0
  Buffers = {B1, B2}
  NullName = zero
  RAMFS_MAX_FILES = 4
  MAX_ENTRIES = 5
  WORD = 64
  VFS_MAX_OPEN = 1
  VFS_MAX_FS = 1
  Node = {N1, N2, N3, N4}
  Garbage = {0}
  InPath <- MCPaths
  InOffset = {0}
  InData <- NoPath
  InMount <- MCRoot
  InUnmount <- NoPath
  InRemove <- MCTwoPaths
  MaxOffset = 2
INVARIANTS VfsTypeOK WalkKeepsPath NodesOwned SiblingNames
PROPERTIES CreateOpensPath CreateReturns
