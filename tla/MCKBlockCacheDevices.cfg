CONSTANTS
  t1 = t1
  t2 = t2
  t3 = t3
  h1 = h1
  h2 = h2
  d1 = d1
  d2 = d2
  Threads = {t1, t2}
  Devices = {d1, d2}
  Blocks = {0, 1}
  Headers = {h1, h2}
  NULL = NULL
  MaxRetries = 2
  MAX_FLUSH_BLOCK_COUNT = 2
  MIN_FLUSH_BLOCK_COUNT = 2
SPECIFICATION Spec
INVARIANT FlushListMapped
SYMMETRY Symmetric
CHECK_DEADLOCK FALSE
