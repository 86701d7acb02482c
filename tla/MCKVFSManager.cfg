CONSTANTS
  t1 = t1
  t2 = t2
  t3 = t3
  k1 = k1
  k2 = k2
  i1 = i1
  i2 = i2
  Threads = {t1, t2, t3}
  Keys = {k1, k2}
  Inodes = {i1, i2}
  NULL = NULL
  PENDING = PENDING
  MAX_INODE_CACHE_COUNT = 1
SPECIFICATION VFSSpec
SYMMETRY Symmetric
INVARIANTS OneInodePerFile PendingHasOwner
CHECK_DEADLOCK FALSE
