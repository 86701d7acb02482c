------------------------------- MODULE RWLock -------------------------------
(***************************************************************************)
(* What a kernel mutex promises its clients: an exclusive lock that its    *)
(* owner may hold several times over, or a lock shared by any number of    *)
(* readers, and never both.  No queue, no counter, no scheduler.  KMutex   *)
(* is shown to implement it.                                               *)
(***************************************************************************)
EXTENDS Naturals

CONSTANTS Threads,      \* the threads that use the lock
          Recurse,      \* may the owner lock again (PEMutexRecursionMode_Recurse)
          MaxDepth      \* bound on the owner's nesting

VARIABLES depth,        \* how many times each thread holds the lock exclusively
          readers       \* the threads that hold it shared

absVars == <<depth, readers>>

AbsInit == /\ depth = [t \in Threads |-> 0]
           /\ readers = {}

\* t is granted the lock: nobody else has it, in either mode.
Grant(t) == /\ readers = {}
            /\ \A u \in Threads \ {t} : depth[u] = 0
            /\ depth[t] = 0 \/ (Recurse /\ depth[t] < MaxDepth)
            /\ depth' = [depth EXCEPT ![t] = depth[t] + 1]
            /\ UNCHANGED readers

GrantShared(t) == /\ \A u \in Threads : depth[u] = 0
                  /\ t \notin readers
                  /\ readers' = readers \cup {t}
                  /\ UNCHANGED depth

Release(t) == /\ depth[t] > 0
              /\ depth' = [depth EXCEPT ![t] = depth[t] - 1]
              /\ UNCHANGED readers

ReleaseShared(t) == /\ t \in readers
                    /\ readers' = readers \ {t}
                    /\ UNCHANGED depth

AbsNext == \E t \in Threads : \/ Grant(t)
                              \/ GrantShared(t)
                              \/ Release(t)
                              \/ ReleaseShared(t)

AbsSpec == AbsInit /\ [][AbsNext]_absVars
=============================================================================
