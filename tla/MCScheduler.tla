----------------------------- MODULE MCScheduler -----------------------------
(* Scheduler for TLC. *)
EXTENDS Scheduler

CONSTANTS idle, init, main, a

\* Everybody but idle starts one level above it.
TwoLevels == [t \in Threads |-> IF t = idle THEN 0 ELSE 1]
OneLevel == [t \in Threads |-> 0]
=============================================================================
