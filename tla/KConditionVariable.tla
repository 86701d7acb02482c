------------------------- MODULE KConditionVariable -------------------------
(***************************************************************************)
(* The kernel condition variable (Kernel/KConditionVariable.cpp) composed  *)
(* with the KMutex its callers hold.  A waiter links its wait node and     *)
(* releases the mutex inside one critical section; when it is woken, by a  *)
(* notification, the tick, a signal or a cancellation, it first takes the  *)
(* mutex again (possibly sleeping in the queue of the mutex, with its node *)
(* still linked here) and only then looks at its node to find out why.     *)
(* Without a mutex (lock == nullptr and the IRQWait... calls, which run    *)
(* with interrupts disabled) the relocking is skipped.                     *)
(***************************************************************************)
EXTENDS Integers, FiniteSets, WaitQueue

CONSTANTS Threads,      \* the threads that use the condition variable
          NoThread,     \* no holder of the mutex (-1)
          Cancelable,   \* the threads that somebody may cancel
          MaxTime       \* bound: number of system ticks

ASSUME ThreadsAssumption == IsFiniteSet(Threads) /\ NoThread \notin Threads
ASSUME TimeAssumption    == MaxTime \in Nat

VARIABLES m_WaitQueue,  \* KThreadWaitList of the condition variable
          cpc,          \* where each thread is in its wait
          wait,         \* the parameters of that wait
          cvSleepers,   \* threads whose sleep node is in gk_SleepingThreads
          cancel,       \* how far each thread's cancellation has come
          notified,     \* has Wakeup unlinked the thread's node in this wait
          outcome       \* the code the last step returned, "none" if none

\* The mutex and what it shares with the condition variable.
VARIABLES lockCount, lockHolder, lockQueue, lockSleepers, now, tstate, pc, req,
          lockResult, depth, readers

Mutex == INSTANCE KMutex WITH
            m_Count <- lockCount, m_Holder <- lockHolder,
            m_WaitQueue <- lockQueue, sleepers <- lockSleepers,
            result <- lockResult, Recurse <- FALSE, MaxDepth <- 1

cvVars == <<m_WaitQueue, cpc, wait, cvSleepers, cancel, notified, outcome>>
lockVars == <<lockCount, lockHolder, lockQueue, lockSleepers, pc, req,
              lockResult, depth, readers>>
vars == <<cvVars, lockVars, now, tstate>>

Infinit == -1
Waits == [lock : BOOLEAN, cancelable : BOOLEAN, deadline : {Infinit} \cup 0..MaxTime]
NoWait == [lock |-> FALSE, cancelable |-> FALSE, deadline |-> Infinit]
Untimed(w) == w.deadline = Infinit

Init == /\ Mutex!Init
        /\ m_WaitQueue = <<>>
        /\ cpc = [t \in Threads |-> "idle"]
        /\ wait = [t \in Threads |-> NoWait]
        /\ cvSleepers = {}
        /\ cancel = [t \in Threads |-> "no"]
        /\ notified = [t \in Threads |-> FALSE]
        /\ outcome = "none"

Blocked(t) == tstate[t] \in {"Waiting", "Sleeping"}
Runnable(t) == tstate[t] = "Ready"
Canceled(t) == cancel[t] # "no"

Return(t, code) == /\ cpc' = [cpc EXCEPT ![t] = "idle"]
                   /\ wait' = [wait EXCEPT ![t] = NoWait]
                   /\ notified' = [notified EXCEPT ![t] = FALSE]
                   /\ outcome' = code

Continue(t, label) == /\ cpc' = [cpc EXCEPT ![t] = label]
                      /\ outcome' = "none"
                      /\ UNCHANGED <<wait, notified>>

-----------------------------------------------------------------------------
(***************************************************************************)
(* lock->Unlock() by t inside the waiter's critical section: the whole     *)
(* effect of KMutex::Unlock, with t's own state already set.               *)
(***************************************************************************)
UnlockInWait(t, asleep) ==
    /\ lockCount' = Mutex!Released
    /\ depth' = [depth EXCEPT ![t] = @ - 1]
    /\ lockHolder' = NoThread
    /\ tstate' = [Woken(tstate, lockQueue) EXCEPT ![t] = asleep]
    /\ lockQueue' = {}
    /\ UNCHANGED <<lockSleepers, pc, req, lockResult, readers>>

Sleep(t) ==
    /\ m_WaitQueue' = Append(m_WaitQueue, t)
    /\ cvSleepers' = IF Untimed(wait[t]) THEN cvSleepers ELSE cvSleepers \cup {t}
    /\ Continue(t, "asleep")
    /\ LET asleep == IF Untimed(wait[t]) THEN "Waiting" ELSE "Sleeping"
       IN  IF wait[t].lock THEN UnlockInWait(t, asleep)
                           ELSE tstate' = [tstate EXCEPT ![t] = asleep] /\ UNCHANGED lockVars
    /\ UNCHANGED <<cancel, now>>

GiveUp(t, code) == /\ Return(t, code)
                   /\ UNCHANGED <<m_WaitQueue, cvSleepers, cancel, lockVars, now, tstate>>

\* The first critical section of WaitInternal and WaitDeadlineInternal.
WaitEnter(t) ==
    /\ cpc[t] = "enter" /\ Runnable(t)
    /\ IF wait[t].cancelable /\ Canceled(t) THEN GiveUp(t, "INTR")
       ELSE IF Untimed(wait[t]) \/ now < wait[t].deadline THEN Sleep(t)
       ELSE GiveUp(t, "TIMEDOUT")

\* A wrong variant: the node is unlinked before the mutex is taken again.
WaitRelockUnlinks(t) ==
    /\ cpc[t] = "asleep" /\ Runnable(t)
    /\ Continue(t, "relock")
    /\ m_WaitQueue' = Detatch(m_WaitQueue, t)
    /\ pc' = [pc EXCEPT ![t] = IF wait[t].lock THEN "enter" ELSE @]
    /\ UNCHANGED <<lockCount, lockHolder, lockQueue, lockSleepers, req, lockResult,
                   depth, readers, cvSleepers, cancel, now, tstate>>

\* After the switch: lock->Lock(), which is not interruptible.
WaitRelock(t) ==
    /\ cpc[t] = "asleep" /\ Runnable(t)
    /\ Continue(t, "relock")
    /\ IF wait[t].lock
       THEN /\ pc' = [pc EXCEPT ![t] = "enter"]
            /\ UNCHANGED <<lockCount, lockHolder, lockQueue, lockSleepers, req,
                           lockResult, depth, readers>>
       ELSE UNCHANGED lockVars
    /\ UNCHANGED <<m_WaitQueue, cvSleepers, cancel, now, tstate>>

\* A wrong variant: an expired deadline is reported before the node is looked at.
WaitResumeDeadlineFirst(t) ==
    /\ cpc[t] = "relock" /\ pc[t] = "idle" /\ Runnable(t)
    /\ cvSleepers' = cvSleepers \ {t}
    /\ m_WaitQueue' = Detatch(m_WaitQueue, t)
    /\ IF ~Untimed(wait[t]) /\ now >= wait[t].deadline THEN Return(t, "TIMEDOUT")
       ELSE IF t \in Linked(m_WaitQueue) THEN Continue(t, "enter")
       ELSE Return(t, "Success")
    /\ UNCHANGED <<cancel, lockVars, now, tstate>>

\* The second critical section: a node that is still linked was not notified.
WaitResume(t) ==
    /\ cpc[t] = "relock" /\ pc[t] = "idle" /\ Runnable(t)
    /\ cvSleepers' = cvSleepers \ {t}
    /\ m_WaitQueue' = Detatch(m_WaitQueue, t)
    /\ IF t \in Linked(m_WaitQueue) THEN Continue(t, "enter")
                                    ELSE Return(t, "Success")
    /\ UNCHANGED <<cancel, lockVars, now, tstate>>

-----------------------------------------------------------------------------
StartWait(t, w) ==
    /\ cpc[t] = "idle" /\ pc[t] = "idle" /\ Runnable(t)
    /\ cpc' = [cpc EXCEPT ![t] = "enter"]
    /\ wait' = [wait EXCEPT ![t] = w]
    /\ notified' = [notified EXCEPT ![t] = FALSE]
    /\ outcome' = "none"
    /\ UNCHANGED <<m_WaitQueue, cvSleepers, cancel, lockVars, now, tstate>>

\* A wait with a mutex is made by the thread that holds it.
Wait(t, w) == /\ w.lock /\ depth[t] = 1
              /\ w.cancelable => t \in Cancelable
              /\ StartWait(t, w)

(***************************************************************************)
(* IRQWait and IRQWaitClock: the caller has interrupts disabled, so each   *)
(* pass of the loop is the two critical sections above without the mutex.  *)
(***************************************************************************)
IRQWait(t, w) == /\ ~w.lock /\ depth[t] = 0
                 /\ ~w.cancelable
                 /\ StartWait(t, w)

\* A wrong variant: the nodes are unlinked, their threads are left asleep.
WakeupUnlinksOnly(n) ==
    /\ m_WaitQueue # <<>>
    /\ m_WaitQueue' = Remaining(m_WaitQueue, n)
    /\ notified' = [t \in Threads |-> notified[t] \/ t \in Popped(m_WaitQueue, n)]
    /\ outcome' = "none"
    /\ UNCHANGED <<cpc, wait, cvSleepers, cancel, lockVars, now, tstate>>

\* Wakeup(n): n = 0 wakes all.  Called by a thread that is not waiting, or an IRQ.
Wakeup(n) ==
    /\ m_WaitQueue # <<>>
    /\ tstate' = Woken(tstate, Popped(m_WaitQueue, n))
    /\ m_WaitQueue' = Remaining(m_WaitQueue, n)
    /\ notified' = [t \in Threads |-> notified[t] \/ t \in Popped(m_WaitQueue, n)]
    /\ outcome' = "none"
    /\ UNCHANGED <<cpc, wait, cvSleepers, cancel, lockVars, now>>

\* The mutex steps of t: relocking inside a wait, or locking outside of one.
LockStep(t) ==
    /\ Mutex!LockEnter(t) \/ Mutex!LockResume(t)
    /\ outcome' = "none"
    /\ UNCHANGED <<m_WaitQueue, cpc, wait, cvSleepers, cancel, notified>>

ClientLock(t) ==
    /\ cpc[t] = "idle"
    /\ Mutex!Call(t, Mutex!NoRequest)
    /\ outcome' = "none"
    /\ UNCHANGED <<m_WaitQueue, cpc, wait, cvSleepers, cancel, notified>>

ClientUnlock(t) ==
    /\ cpc[t] = "idle"
    /\ Mutex!Unlock(t)
    /\ outcome' = "none"
    /\ UNCHANGED <<m_WaitQueue, cpc, wait, cvSleepers, cancel, notified>>

-----------------------------------------------------------------------------
\* kthread_cancel_pl: the flag is raised first ...
SetCanceled(t) ==
    /\ t \in Cancelable
    /\ cancel[t] = "no"
    /\ cancel' = [cancel EXCEPT ![t] = "flagged"]
    /\ outcome' = "none"
    /\ UNCHANGED <<m_WaitQueue, cpc, wait, cvSleepers, notified, lockVars, now, tstate>>

\* A wrong variant: the thread is left asleep.
CancelSilently(t) ==
    /\ cancel[t] = "flagged"
    /\ cancel' = [cancel EXCEPT ![t] = "done"]
    /\ outcome' = "none"
    /\ UNCHANGED <<m_WaitQueue, cpc, wait, cvSleepers, notified, lockVars, now, tstate>>

\* ... and the thread is woken, wherever it sleeps, in a second step.
CancelWakeup(t) ==
    /\ cancel[t] = "flagged"
    /\ cancel' = [cancel EXCEPT ![t] = "done"]
    /\ tstate' = Woken(tstate, {t})
    /\ outcome' = "none"
    /\ UNCHANGED <<m_WaitQueue, cpc, wait, cvSleepers, notified, lockVars, now>>

\* A signal wakes t; its nodes stay linked.
WakeupThread(t) ==
    /\ Blocked(t)
    /\ tstate' = Woken(tstate, {t})
    /\ outcome' = "none"
    /\ UNCHANGED <<m_WaitQueue, cpc, wait, cvSleepers, cancel, notified, lockVars, now>>

Due == {t \in cvSleepers : wait[t].deadline <= now + 1}

SysTick ==
    /\ now < MaxTime
    /\ now' = now + 1
    /\ cvSleepers' = cvSleepers \ Due
    /\ tstate' = [t \in Threads |-> IF t \in Due /\ tstate[t] = "Sleeping"
                                    THEN "Ready" ELSE tstate[t]]
    /\ outcome' = "none"
    /\ UNCHANGED <<m_WaitQueue, cpc, wait, cancel, notified, lockVars>>

WaitStep(t) == WaitEnter(t) \/ WaitRelock(t) \/ WaitResume(t)

Next == \/ \E t \in Threads : \/ WaitStep(t)
                              \/ \E w \in Waits : Wait(t, w) \/ IRQWait(t, w)
                              \/ LockStep(t)
                              \/ ClientLock(t)
                              \/ ClientUnlock(t)
                              \/ SetCanceled(t)
                              \/ CancelWakeup(t)
                              \/ WakeupThread(t)
        \/ \E n \in 0..2 : Wakeup(n)
        \/ SysTick

Spec == Init /\ [][Next]_vars

(***************************************************************************)
(* Runnable threads inside a call are scheduled, the tick and the          *)
(* canceller keep running, and clients release the mutex.                  *)
(***************************************************************************)
FairSpec == /\ Spec
            /\ WF_vars(SysTick)
            /\ \A t \in Threads : /\ WF_vars(WaitStep(t))
                                  /\ WF_vars(LockStep(t))
                                  /\ WF_vars(ClientUnlock(t))
                                  /\ WF_vars(CancelWakeup(t))

-----------------------------------------------------------------------------
TypeOK == /\ m_WaitQueue \in Seq(Threads) /\ Len(m_WaitQueue) <= Cardinality(Threads)
          /\ cpc \in [Threads -> {"idle", "enter", "asleep", "relock"}]
          /\ wait \in [Threads -> Waits]
          /\ cvSleepers \subseteq Threads
          /\ cancel \in [Threads -> {"no", "flagged", "done"}]
          /\ notified \in [Threads -> BOOLEAN]
          /\ outcome \in {"none", "Success", "INTR", "TIMEDOUT"}
          /\ Mutex!TypeOK

Returns(t) == cpc[t] # "idle" /\ cpc'[t] = "idle"

(***************************************************************************)
(* A wait succeeds exactly when Wakeup chose it: a notification is never   *)
(* turned into TIMEDOUT or INTR, however late the waiter gets the mutex    *)
(* back, and no timeout, signal or cancellation passes for one.  Whatever  *)
(* it returns, a wait that was given a mutex returns holding it.           *)
(***************************************************************************)
SuccessIffNotified ==
    [][\A t \in Threads : Returns(t) =>
           /\ outcome' = "Success" <=> notified[t]
           /\ wait[t].lock => depth'[t] = 1]_vars

(***************************************************************************)
(* From the moment a waiter lets go of the mutex until it looks at its     *)
(* node again, a notifier finds that node: no window in which Wakeup       *)
(* misses it, not even while it sleeps in the queue of the mutex.  While   *)
(* it sleeps with a deadline, the tick finds its sleep node in time; both  *)
(* nodes are unlinked when the frame that holds them goes; and a thread    *)
(* asleep in the queue of the mutex is linked there while the mutex is     *)
(* held, whatever the wake-ups of the condition variable do to it.         *)
(***************************************************************************)
WaiterIsFindable ==
    /\ TypeOK
    /\ \A t \in Threads :
           /\ cpc[t] \in {"asleep", "relock"} /\ ~notified[t] => t \in Linked(m_WaitQueue)
           /\ tstate[t] = "Sleeping" =>
                  cpc[t] = "asleep" /\ t \in cvSleepers /\ now < wait[t].deadline
           /\ pc[t] = "blocked" /\ Blocked(t) => t \in lockQueue /\ lockCount # 0
    /\ \A t \in Linked(m_WaitQueue) \cup cvSleepers : cpc[t] \in {"asleep", "relock"}

(***************************************************************************)
(* Once a cancellation has been delivered, a cancelable wait does not      *)
(* sleep through it, whichever of its steps the cancellation fell between. *)
(***************************************************************************)
CancelReachesWaiter ==
    \A t \in Threads :
        cancel[t] = "done" /\ wait[t].cancelable /\ Blocked(t) => pc[t] = "blocked"

(***************************************************************************)
(* A notified waiter returns, unless other threads keep taking the mutex.  *)
(***************************************************************************)
NotifiedReturns ==
    \A t \in Threads :
        \/ []<>(\E u \in Threads \ {t} : depth[u] > 0)
        \/ notified[t] ~> cpc[t] = "idle"
=============================================================================
