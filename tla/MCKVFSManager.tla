---- MODULE MCKVFSManager ----
EXTENDS KVFSManager, TLC

CONSTANTS t1, t2, t3, k1, k2, i1, i2

\* Which thread, and which file, makes no difference.
Symmetric == Permutations({t1, t2, t3}) \cup Permutations({k1, k2})
====
