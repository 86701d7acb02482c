---- MODULE MCKBlockCache ----
EXTENDS KBlockCache, TLC

CONSTANTS t1, t2, t3, h1, h2, d1, d2

\* Threads and headers are interchangeable.
Symmetric == Permutations(Threads) \cup Permutations(Headers)
====
