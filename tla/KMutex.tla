------------------------------- MODULE KMutex -------------------------------
(***************************************************************************)
(* The kernel mutex (Kernel/KMutex.cpp): a recursive or error-checking     *)
(* exclusive lock that doubles as a reader/writer lock, with untimed and   *)
(* timed variants of both modes.                                           *)
(*                                                                         *)
(* Every CRITICAL_IRQ section runs with interrupts disabled on a single    *)
(* core, so each is one step here; between two sections of a call any      *)
(* other thread, a signal or the system tick may run.  A thread that is    *)
(* "Ready" stands for Ready or Running: which one the scheduler picks is   *)
(* left open, so the results hold for every scheduling decision.           *)
(***************************************************************************)
EXTENDS BlockingCalls

CONSTANTS Recurse,      \* m_RecursionMode == PEMutexRecursionMode_Recurse
          MaxDepth      \* bound: nesting of exclusive holds

ASSUME RecurseAssumption == Recurse \in BOOLEAN
ASSUME DepthAssumption   == MaxDepth \in Nat \ {0}

\* m_Count < 0 counts exclusive holds, > 0 shared holds, and is 0 if the mutex is free;
\* m_Holder is the thread that holds it exclusively; m_WaitQueue is a set.
VARIABLES depth,        \* what clients were granted: exclusive nesting ...
          readers       \* ... and the threads that were granted a shared hold

mutexVars == <<m_Count, m_Holder, m_WaitQueue>>
clientVars == <<depth, readers>>
vars == <<m_Count, m_Holder, m_WaitQueue, sleepers, now, tstate, pc, req,
          result, depth, readers>>

(***************************************************************************)
(* A call: which mode, whether it is one of the ...Clock variants (whose   *)
(* deadline may be infinite) and whether it may be interrupted.            *)
(***************************************************************************)
Deadlines == {Infinit} \cup 0..MaxTime
Requests == [shared : BOOLEAN, clock : BOOLEAN, deadline : Deadlines,
             interruptible : BOOLEAN]
NoRequest == [shared |-> FALSE, clock |-> FALSE, deadline |-> Infinit,
              interruptible |-> FALSE]
Results == {"none", "Success", "BUSY", "INVAL", "TIMEDOUT", "RestartSyscall"}

Init == /\ m_Count = 0
        /\ m_Holder = NoThread
        /\ m_WaitQueue = {}
        /\ sleepers = {}
        /\ now = 0
        /\ tstate = [t \in Threads |-> "Ready"]
        /\ pc = [t \in Threads |-> "idle"]
        /\ req = [t \in Threads |-> NoRequest]
        /\ result = "none"
        /\ depth = [t \in Threads |-> 0]
        /\ readers = {}

-----------------------------------------------------------------------------
\* A wrong variant: threads with a timeout are not woken.
WakeAllWaiting(queue) ==
    tstate' = [t \in Threads |-> IF t \in queue /\ tstate[t] = "Waiting"
                                  THEN "Ready" ELSE tstate[t]]

(***************************************************************************)
(* wakeup_wait_queue with maxCount 0: every node is unlinked, and every    *)
(* thread that still sleeps or waits is made ready.  The queue is only     *)
(* ever emptied as a whole, so its order is not observable.                *)
(***************************************************************************)
WakeAll(queue) ==
    tstate' = [t \in Threads |-> IF t \in queue /\ Blocked(t) THEN "Ready"
                                                              ELSE tstate[t]]

\* A wrong variant: any thread may nest in a recursive mutex.
CanLockAnyOwner(t) == m_Count = 0 \/ (Recurse /\ m_Count < 0)

CanLock(t) == m_Count = 0 \/ (Recurse /\ m_Holder = t)
CanLockShared == m_Count >= 0

Acquire(t) == /\ m_Count' = m_Count - 1
              /\ m_Holder' = t
              /\ depth' = [depth EXCEPT ![t] = @ + 1]
              /\ UNCHANGED readers

AcquireShared(t) == /\ m_Count' = m_Count + 1
                    /\ readers' = readers \cup {t}
                    /\ UNCHANGED <<m_Holder, depth>>

Return(t, code) == /\ pc' = [pc EXCEPT ![t] = "idle"]
                   /\ req' = [req EXCEPT ![t] = NoRequest]
                   /\ result' = code

(***************************************************************************)
(* Link the wait node, and for a finite deadline the sleep node, and give  *)
(* up the processor.                                                       *)
(***************************************************************************)
BlockOnQueue(t) ==
    /\ m_WaitQueue' = m_WaitQueue \cup {t}
    /\ Continue(t, "blocked")
    /\ tstate' = [tstate EXCEPT ![t] = IF Untimed(req[t]) THEN "Waiting" ELSE "Sleeping"]
    /\ sleepers' = IF Untimed(req[t]) THEN sleepers ELSE sleepers \cup {t}
    /\ UNCHANGED <<m_Count, m_Holder, depth, readers>>

Entering(t, shared, clock) == /\ pc[t] \in {"enter", "retry"}
                              /\ Runnable(t)
                              /\ req[t].shared = shared
                              /\ req[t].clock = clock

Resuming(t, shared, clock) == /\ pc[t] = "blocked"
                              /\ Runnable(t)
                              /\ req[t].shared = shared
                              /\ req[t].clock = clock

-----------------------------------------------------------------------------
(***************************************************************************)
(* Lock and LockShared: the first critical section takes the mutex or      *)
(* blocks, the second one, run after a wake-up, takes it if it is free and *)
(* otherwise gives up (interruptible) or goes round again.                 *)
(***************************************************************************)
LockEnter(t) ==
    /\ Entering(t, FALSE, FALSE)
    /\ \/ /\ CanLock(t)
          /\ Acquire(t)
          /\ Return(t, "Success")
          /\ UNCHANGED <<m_WaitQueue, sleepers, tstate>>
       \/ ~CanLock(t) /\ BlockOnQueue(t)
    /\ UNCHANGED now

LockResume(t) ==
    /\ Resuming(t, FALSE, FALSE)
    /\ m_WaitQueue' = m_WaitQueue \ {t}
    /\ \/ m_Count = 0 /\ Acquire(t) /\ Return(t, "Success")
       \/ /\ m_Count # 0
          /\ IF req[t].interruptible
             THEN Return(t, "RestartSyscall")
             ELSE Continue(t, "retry")
          /\ UNCHANGED <<m_Count, m_Holder, depth, readers>>
    /\ UNCHANGED <<sleepers, now, tstate>>

LockSharedEnter(t) ==
    /\ Entering(t, TRUE, FALSE)
    /\ \/ /\ CanLockShared
          /\ AcquireShared(t)
          /\ Return(t, "Success")
          /\ UNCHANGED <<m_WaitQueue, sleepers, tstate>>
       \/ ~CanLockShared /\ BlockOnQueue(t)
    /\ UNCHANGED now

LockSharedResume(t) ==
    /\ Resuming(t, TRUE, FALSE)
    /\ m_WaitQueue' = m_WaitQueue \ {t}
    /\ \/ CanLockShared /\ AcquireShared(t) /\ Return(t, "Success")
       \/ /\ ~CanLockShared
          /\ IF req[t].interruptible
             THEN Return(t, "RestartSyscall")
             ELSE Continue(t, "retry")
          /\ UNCHANGED <<m_Count, m_Holder, depth, readers>>
    /\ UNCHANGED <<sleepers, now, tstate>>

\* A wrong variant: an expired deadline does not end the call.
NotTakenIgnoresDeadline(t) ==
    IF pc[t] = "retry" /\ req[t].interruptible
    THEN Return(t, "RestartSyscall")
         /\ UNCHANGED <<m_Count, m_Holder, m_WaitQueue, sleepers, tstate, depth, readers>>
    ELSE BlockOnQueue(t)

(***************************************************************************)
(* LockClock and LockSharedClock: the mutex is only ever taken by the      *)
(* first section, which also finds that the deadline has passed, or (from  *)
(* the second round on) that the call was interrupted; the second section  *)
(* unlinks both nodes.  LockSharedClock passes its wake-up on to the whole *)
(* queue.                                                                  *)
(***************************************************************************)
NotTaken(t) ==
    IF Untimed(req[t]) \/ now < req[t].deadline
    THEN IF pc[t] = "retry" /\ req[t].interruptible
         THEN Return(t, "RestartSyscall")
              /\ UNCHANGED <<m_Count, m_Holder, m_WaitQueue, sleepers, tstate, depth, readers>>
         ELSE BlockOnQueue(t)
    ELSE Return(t, "TIMEDOUT")
         /\ UNCHANGED <<m_Count, m_Holder, m_WaitQueue, sleepers, tstate, depth, readers>>

LockClockEnter(t) ==
    /\ Entering(t, FALSE, TRUE)
    /\ \/ /\ CanLock(t)
          /\ Acquire(t)
          /\ Return(t, "Success")
          /\ UNCHANGED <<m_WaitQueue, sleepers, tstate>>
       \/ ~CanLock(t) /\ NotTaken(t)
    /\ UNCHANGED now

\* A wrong variant: only the wait node is unlinked.
LockClockResumeKeepsSleepNode(t) ==
    /\ Resuming(t, FALSE, TRUE)
    /\ m_WaitQueue' = m_WaitQueue \ {t}
    /\ Continue(t, "retry")
    /\ UNCHANGED <<m_Count, m_Holder, sleepers, now, tstate, depth, readers>>

LockClockResume(t) ==
    /\ Resuming(t, FALSE, TRUE)
    /\ m_WaitQueue' = m_WaitQueue \ {t}
    /\ sleepers' = sleepers \ {t}
    /\ Continue(t, "retry")
    /\ UNCHANGED <<m_Count, m_Holder, now, tstate, depth, readers>>

LockSharedClockEnter(t) ==
    /\ Entering(t, TRUE, TRUE)
    /\ \/ /\ CanLockShared
          /\ AcquireShared(t)
          /\ Return(t, "Success")
          /\ UNCHANGED <<m_WaitQueue, sleepers, tstate>>
       \/ ~CanLockShared /\ NotTaken(t)
    /\ UNCHANGED now

LockSharedClockResume(t) ==
    /\ Resuming(t, TRUE, TRUE)
    /\ WakeAll(m_WaitQueue \ {t})
    /\ m_WaitQueue' = {}
    /\ sleepers' = sleepers \ {t}
    /\ Continue(t, "retry")
    /\ UNCHANGED <<m_Count, m_Holder, now, depth, readers>>

-----------------------------------------------------------------------------
(***************************************************************************)
(* The client side.  A thread locks again only what it may: an exclusive   *)
(* holder nests only in a recursive mutex (the error-checking mode asserts *)
(* on it), nobody mixes modes, and a thread takes one shared hold at a     *)
(* time.  It unlocks only what it holds, or a free mutex (INVAL).          *)
(***************************************************************************)
MayRequest(t, shared) == /\ pc[t] = "idle" /\ Runnable(t)
                         /\ t \notin readers
                         /\ IF shared THEN depth[t] = 0
                                      ELSE depth[t] = 0 \/ (Recurse /\ depth[t] < MaxDepth)

Call(t, r) == /\ MayRequest(t, r.shared)
              /\ ~r.clock => Untimed(r)
              /\ pc' = [pc EXCEPT ![t] = "enter"]
              /\ req' = [req EXCEPT ![t] = r]
              /\ result' = "none"
              /\ UNCHANGED <<m_Count, m_Holder, m_WaitQueue, sleepers, now, tstate, depth, readers>>

TryLock(t) ==
    /\ MayRequest(t, FALSE)
    /\ \/ CanLock(t) /\ Acquire(t) /\ Return(t, "Success")
       \/ ~CanLock(t) /\ Return(t, "BUSY") /\ UNCHANGED <<m_Count, m_Holder, depth, readers>>
    /\ UNCHANGED <<m_WaitQueue, sleepers, now, tstate>>

TryLockShared(t) ==
    /\ MayRequest(t, TRUE)
    /\ \/ CanLockShared /\ AcquireShared(t) /\ Return(t, "Success")
       \/ ~CanLockShared /\ Return(t, "BUSY") /\ UNCHANGED <<m_Count, m_Holder, depth, readers>>
    /\ UNCHANGED <<m_WaitQueue, sleepers, now, tstate>>

\* The hold that t gives back.
GiveBack(t) == \/ /\ depth[t] > 0
                  /\ depth' = [depth EXCEPT ![t] = @ - 1]
                  /\ UNCHANGED readers
               \/ /\ t \in readers
                  /\ readers' = readers \ {t}
                  /\ UNCHANGED depth

\* A wrong variant: a shared hold is counted the wrong way.
ReleasedUpwards == m_Count + 1

\* The counter one hold closer to zero.
Released == IF m_Count < 0 THEN m_Count + 1 ELSE m_Count - 1

Unlock(t) ==
    /\ pc[t] = "idle" /\ Runnable(t)
    /\ m_Count # 0
    /\ GiveBack(t)
    /\ m_Count' = Released
    /\ IF Released = 0
       THEN m_Holder' = NoThread /\ WakeAll(m_WaitQueue) /\ m_WaitQueue' = {}
       ELSE UNCHANGED <<m_Holder, tstate, m_WaitQueue>>
    /\ Return(t, "Success")
    /\ UNCHANGED <<sleepers, now>>

UnlockFree(t) ==
    /\ pc[t] = "idle" /\ Runnable(t)
    /\ m_Count = 0
    /\ Return(t, "INVAL")
    /\ UNCHANGED <<m_Count, m_Holder, m_WaitQueue, sleepers, now, tstate, depth, readers>>

-----------------------------------------------------------------------------
(***************************************************************************)
(* The environment: SysTick_Handler advances the clock and wakes sleepers  *)
(* whose time has come (their sleep nodes are unlinked whatever state the  *)
(* thread is in); a signal or a cancellation wakes a blocked thread        *)
(* through wakeup_thread, leaving its nodes linked.                        *)
(***************************************************************************)
SysTick ==
    /\ now < MaxTime
    /\ now' = now + 1
    /\ sleepers' = sleepers \ Due
    /\ tstate' = [t \in Threads |-> IF t \in Due /\ tstate[t] = "Sleeping"
                                    THEN "Ready" ELSE tstate[t]]
    /\ result' = "none"
    /\ UNCHANGED <<m_Count, m_Holder, m_WaitQueue, pc, req, depth, readers>>

WakeupThread(t) ==
    /\ Blocked(t)
    /\ tstate' = [tstate EXCEPT ![t] = "Ready"]
    /\ result' = "none"
    /\ UNCHANGED <<m_Count, m_Holder, m_WaitQueue, sleepers, now, pc, req, depth, readers>>

-----------------------------------------------------------------------------
\* The steps a call takes once it was made.
CallStep(t) == \/ LockEnter(t)
               \/ LockResume(t)
               \/ LockSharedEnter(t)
               \/ LockSharedResume(t)
               \/ LockClockEnter(t)
               \/ LockClockResume(t)
               \/ LockSharedClockEnter(t)
               \/ LockSharedClockResume(t)

Next == \/ \E t \in Threads : \/ CallStep(t)
                              \/ \E r \in Requests : Call(t, r)
                              \/ TryLock(t)
                              \/ TryLockShared(t)
                              \/ Unlock(t)
                              \/ UnlockFree(t)
                              \/ WakeupThread(t)
        \/ SysTick

Spec == Init /\ [][Next]_vars

(***************************************************************************)
(* Fairness: a runnable thread inside a call is eventually scheduled       *)
(* (round robin among equal priorities), the tick keeps running, and a     *)
(* client gives back what it holds.                                        *)
(***************************************************************************)
Fairness == /\ WF_vars(SysTick)
            /\ \A t \in Threads : WF_vars(CallStep(t))
            /\ \A t \in Threads : WF_vars(Unlock(t))

FairSpec == Spec /\ Fairness

-----------------------------------------------------------------------------
TypeOK == /\ m_Count \in -MaxDepth..Cardinality(Threads)
          /\ m_Holder \in Threads \cup {NoThread}
          /\ m_WaitQueue \subseteq Threads
          /\ sleepers \subseteq Threads
          /\ now \in 0..MaxTime
          /\ tstate \in [Threads -> {"Ready", "Waiting", "Sleeping"}]
          /\ pc \in [Threads -> {"idle", "enter", "retry", "blocked"}]
          /\ req \in [Threads -> Requests]
          /\ result \in Results
          /\ depth \in [Threads -> 0..MaxDepth]
          /\ readers \subseteq Threads

(***************************************************************************)
(* Mutual exclusion, seen from the counter: a negative m_Count is the      *)
(* nesting of the one thread m_Holder names while nobody else has the      *)
(* mutex, a positive one is the number of readers.                         *)
(***************************************************************************)
CountMatchesHolders ==
    /\ m_Count < 0 => /\ m_Holder \in Threads
                      /\ m_Count + depth[m_Holder] = 0
                      /\ \A t \in Threads \ {m_Holder} : depth[t] = 0
                      /\ readers = {}
    /\ m_Count >= 0 => /\ m_Holder = NoThread
                       /\ \A t \in Threads : depth[t] = 0
                       /\ Cardinality(readers) = m_Count

(***************************************************************************)
(* No lost wake-up: a thread that is still asleep in a lock call has its   *)
(* node in the queue of a mutex it could not take; no release, timeout,    *)
(* signal or handed-on wake-up leaves it asleep beside a mutex it could    *)
(* have, or with a node that no later Unlock would find.                   *)
(***************************************************************************)
NoLostWakeup ==
    \A t \in Threads : Blocked(t) =>
        /\ pc[t] = "blocked"
        /\ t \in m_WaitQueue
        /\ IF req[t].shared THEN m_Count < 0 ELSE m_Count # 0

(***************************************************************************)
(* The wait and sleep nodes live on the stack of the call that links them: *)
(* whichever way a call is woken, it has unlinked both before it returns   *)
(* or starts over.                                                         *)
(***************************************************************************)
NodesUnlinked ==
    \A t \in m_WaitQueue \cup sleepers : pc[t] = "blocked"

(***************************************************************************)
(* A timed waiter sleeps only while its deadline lies ahead, with its      *)
(* sleep node where the tick will find it.                                 *)
(***************************************************************************)
SleepsUntilDeadline ==
    \A t \in Threads : tstate[t] = "Sleeping" =>
        t \in sleepers /\ now < req[t].deadline

\* The mutex keeps the promise of RWLock to its clients.
Abs == INSTANCE RWLock
ImplementsRWLock == Abs!AbsSpec

(***************************************************************************)
(* A call with a finite deadline returns, whatever the other threads do    *)
(* with the mutex.                                                         *)
(***************************************************************************)
TimedCallReturns ==
    \A t \in Threads :
        (pc[t] # "idle" /\ ~Untimed(req[t])) ~> pc[t] = "idle"
=============================================================================
