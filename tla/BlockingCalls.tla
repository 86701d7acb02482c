--------------------------- MODULE BlockingCalls ----------------------------
(***************************************************************************)
(* What the mutex and the semaphore have in common: an object with a       *)
(* counter, a holder and a wait queue, and the threads in its calls, which *)
(* block with a wait node in the queue and, if the call has a deadline,    *)
(* with a sleep node in the list that the system tick looks at.            *)
(***************************************************************************)
EXTENDS Integers, FiniteSets

CONSTANTS Threads,      \* the threads that use the object
          NoThread,     \* m_Holder when it names nobody (-1)
          MaxTime       \* bound: number of system ticks

ASSUME ThreadsAssumption == IsFiniteSet(Threads) /\ NoThread \notin Threads
ASSUME TimeAssumption    == MaxTime \in Nat

VARIABLES m_Count, m_Holder,
          m_WaitQueue,  \* threads whose wait node is linked in the object
          sleepers,     \* threads whose sleep node is in gk_SleepingThreads
          now,          \* kget_monotonic_time(), in ticks
          tstate,       \* ThreadState of each thread
          pc,           \* where each thread is in its call
          req,          \* the call each thread is making: its parameters
          result        \* the code the last step returned, "none" if none

Infinit == -1
Untimed(r) == r.deadline = Infinit

Blocked(t) == tstate[t] \in {"Waiting", "Sleeping"}
Runnable(t) == tstate[t] = "Ready"

Continue(t, label) == /\ pc' = [pc EXCEPT ![t] = label]
                      /\ result' = "none"
                      /\ UNCHANGED req

\* A wrong variant: a node that is due at this very tick is left.
DueLate == {t \in sleepers : req[t].deadline < now + 1}

Due == {t \in sleepers : req[t].deadline <= now + 1}
=============================================================================
