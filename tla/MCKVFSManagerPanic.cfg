CONSTANTS
  t1 = t1
  t2 = t2
  t3 = t3
  k1 = k1
  k2 = k2
  i1 = i1
  i2 = i2
  Threads = {t1, t2}
  Keys = {k1}
  Inodes = {i1}
  NULL = NULL
  PENDING = PENDING
  MAX_INODE_CACHE_COUNT = 1
SPECIFICATION VFSSpec
INVARIANT UnusedIsListed
CHECK_DEADLOCK FALSE
