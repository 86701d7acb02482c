------------------------------ MODULE MCKMutex ------------------------------
(* KMutex for TLC. *)
EXTENDS KMutex

CONSTANTS t1, t2
=============================================================================
