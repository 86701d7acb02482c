------------------------ MODULE MCKConditionVariable ------------------------
(* KConditionVariable for TLC. *)
EXTENDS KConditionVariable

CONSTANTS t1, t2
=============================================================================
