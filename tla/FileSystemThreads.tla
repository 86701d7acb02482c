------------------------- MODULE FileSystemThreads --------------------------
(* The threads in the calls of the file systems: where each of them is. *)

CONSTANTS Threads,
          NULL          \* no object, and nobody

VARIABLE pc

Goto(t, label) == pc' = [pc EXCEPT ![t] = label]
=============================================================================
