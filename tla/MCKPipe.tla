------------------------------ MODULE MCKPipe -------------------------------
(* A small instance of KPipe for TLC. *)
EXTENDS KPipe, TLC

CONSTANTS r1, w1, w2

OneReader == {r1}
TwoWriters == {w1, w2}
Sym == Permutations(TwoWriters)
=============================================================================
