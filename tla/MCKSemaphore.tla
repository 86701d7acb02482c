---------------------------- MODULE MCKSemaphore ----------------------------
(* KSemaphore for TLC. *)
EXTENDS KSemaphore

CONSTANTS t1, t2, t3
=============================================================================
