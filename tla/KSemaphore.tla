----------------------------- MODULE KSemaphore -----------------------------
(***************************************************************************)
(* The kernel semaphore (Kernel/KSemaphore.cpp).  Each CRITICAL_IRQ        *)
(* section is one step; "Ready" stands for Ready or Running.  A release    *)
(* does not hand its credit to the thread it wakes: the credit stays in    *)
(* m_Count for whoever comes first.                                        *)
(***************************************************************************)
EXTENDS BlockingCalls, WaitQueue

CONSTANTS InitialCount,     \* the count it is created with
          SEM_VALUE_MAX     \* its largest value (a small one for TLC)

ASSUME CountAssumption == /\ SEM_VALUE_MAX \in Nat \ {0}
                          /\ InitialCount \in 0..SEM_VALUE_MAX

\* m_Count are the credits, m_Holder is the last thread that took one, m_WaitQueue a sequence.
semVars == <<m_Count, m_Holder, m_WaitQueue, sleepers, now, tstate, pc, req, result>>

SemRequests == [clock : BOOLEAN, deadline : {Infinit} \cup 0..MaxTime]
NoSemRequest == [clock |-> FALSE, deadline |-> Infinit]
SemResults == {"none", "Success", "AGAIN", "TIMEDOUT", "OVERFLOW"}

InCall(t) == pc[t] # "idle"

SemInit == /\ m_Count = InitialCount
           /\ m_Holder = NoThread
           /\ m_WaitQueue = <<>>
           /\ sleepers = {}
           /\ now = 0
           /\ tstate = [t \in Threads |-> "Ready"]
           /\ pc = [t \in Threads |-> "idle"]
           /\ req = [t \in Threads |-> NoSemRequest]
           /\ result = "none"

-----------------------------------------------------------------------------
Take(t) == m_Count > 0 /\ m_Count' = m_Count - 1 /\ m_Holder' = t

SemReturn(t, code) == /\ pc' = [pc EXCEPT ![t] = "idle"]
                      /\ req' = [req EXCEPT ![t] = NoSemRequest]
                      /\ result' = code

\* Link the wait node, and the sleep node of a finite deadline, and switch.
SemBlockOnQueue(t) ==
    /\ m_WaitQueue' = Append(m_WaitQueue, t)
    /\ Continue(t, "blocked")
    /\ tstate' = [tstate EXCEPT ![t] = IF Untimed(req[t]) THEN "Waiting" ELSE "Sleeping"]
    /\ sleepers' = IF Untimed(req[t]) THEN sleepers ELSE sleepers \cup {t}
    /\ UNCHANGED <<m_Count, m_Holder>>

At(t, label, clock) == pc[t] = label /\ Runnable(t) /\ req[t].clock = clock

AcquireEnter(t) ==
    /\ At(t, "enter", FALSE)
    /\ \/ Take(t) /\ SemReturn(t, "Success") /\ UNCHANGED <<m_WaitQueue, sleepers, tstate>>
       \/ m_Count = 0 /\ SemBlockOnQueue(t)
    /\ UNCHANGED now

AcquireResume(t) ==
    /\ At(t, "blocked", FALSE)
    /\ m_WaitQueue' = Detatch(m_WaitQueue, t)
    /\ \/ Take(t) /\ SemReturn(t, "Success")
       \/ m_Count = 0 /\ Continue(t, "enter") /\ UNCHANGED <<m_Count, m_Holder>>
    /\ UNCHANGED <<sleepers, now, tstate>>

AcquireClockEnter(t) ==
    /\ At(t, "enter", TRUE)
    /\ \/ Take(t) /\ SemReturn(t, "Success") /\ UNCHANGED <<m_WaitQueue, sleepers, tstate>>
       \/ /\ m_Count = 0
          /\ Untimed(req[t]) \/ now < req[t].deadline
          /\ SemBlockOnQueue(t)
       \/ /\ m_Count = 0
          /\ ~Untimed(req[t]) /\ now >= req[t].deadline
          /\ SemReturn(t, "TIMEDOUT")
          /\ UNCHANGED <<m_Count, m_Holder, m_WaitQueue, sleepers, tstate>>
    /\ UNCHANGED now

AcquireClockResume(t) ==
    /\ At(t, "blocked", TRUE)
    /\ m_WaitQueue' = Detatch(m_WaitQueue, t)
    /\ sleepers' = sleepers \ {t}
    /\ Continue(t, "enter")
    /\ UNCHANGED <<m_Count, m_Holder, now, tstate>>

TryAcquire(t) ==
    /\ ~InCall(t) /\ Runnable(t)
    /\ \/ Take(t) /\ SemReturn(t, "Success")
       \/ m_Count = 0 /\ SemReturn(t, "AGAIN") /\ UNCHANGED <<m_Count, m_Holder>>
    /\ UNCHANGED <<m_WaitQueue, sleepers, now, tstate>>

\* A wrong variant: the credit is published without waking anybody.
ReleaseSilently(t) ==
    /\ ~InCall(t) /\ Runnable(t)
    /\ m_Count < SEM_VALUE_MAX
    /\ m_Count' = m_Count + 1
    /\ m_Holder' = NoThread
    /\ SemReturn(t, "Success")
    /\ UNCHANGED <<tstate, m_WaitQueue, sleepers, now>>

\* A wrong variant: the limit is tested one too late.
MayReleasePastLimit == m_Count <= SEM_VALUE_MAX

MayRelease == m_Count # SEM_VALUE_MAX

Release(t) ==
    /\ ~InCall(t) /\ Runnable(t)
    /\ MayRelease
    /\ m_Count' = m_Count + 1
    /\ m_Holder' = NoThread
    /\ tstate' = Woken(tstate, Popped(m_WaitQueue, m_Count + 1))
    /\ m_WaitQueue' = Remaining(m_WaitQueue, m_Count + 1)
    /\ SemReturn(t, "Success")
    /\ UNCHANGED <<sleepers, now>>

ReleaseOverflow(t) ==
    /\ ~InCall(t) /\ Runnable(t)
    /\ ~MayRelease
    /\ SemReturn(t, "OVERFLOW")
    /\ UNCHANGED <<m_Count, m_Holder, m_WaitQueue, sleepers, now, tstate>>

SemCall(t, r) == /\ ~InCall(t) /\ Runnable(t)
                 /\ ~r.clock => Untimed(r)
                 /\ pc' = [pc EXCEPT ![t] = "enter"]
                 /\ req' = [req EXCEPT ![t] = r]
                 /\ result' = "none"
                 /\ UNCHANGED <<m_Count, m_Holder, m_WaitQueue, sleepers, now, tstate>>

-----------------------------------------------------------------------------
SemSysTick ==
    /\ now < MaxTime
    /\ now' = now + 1
    /\ sleepers' = sleepers \ Due
    /\ tstate' = [t \in Threads |-> IF t \in Due /\ tstate[t] = "Sleeping"
                                    THEN "Ready" ELSE tstate[t]]
    /\ result' = "none"
    /\ UNCHANGED <<m_Count, m_Holder, m_WaitQueue, pc, req>>

\* wakeup_thread: a signal or a cancellation wakes t, its nodes stay linked.
SemWakeupThread(t) ==
    /\ Blocked(t)
    /\ tstate' = [tstate EXCEPT ![t] = "Ready"]
    /\ result' = "none"
    /\ UNCHANGED <<m_Count, m_Holder, m_WaitQueue, sleepers, now, pc, req>>

SemCallStep(t) == \/ AcquireEnter(t)
                  \/ AcquireResume(t)
                  \/ AcquireClockEnter(t)
                  \/ AcquireClockResume(t)

SemNext == \/ \E t \in Threads : \/ SemCallStep(t)
                                 \/ \E r \in SemRequests : SemCall(t, r)
                                 \/ TryAcquire(t)
                                 \/ Release(t)
                                 \/ ReleaseOverflow(t)
                                 \/ SemWakeupThread(t)
           \/ SemSysTick

SemSpec == SemInit /\ [][SemNext]_semVars

\* A runnable thread inside a call is scheduled, and the tick keeps running.
SemFairSpec == SemSpec /\ WF_semVars(SemSysTick) /\ \A t \in Threads : WF_semVars(SemCallStep(t))

-----------------------------------------------------------------------------
SemTypeOK == /\ m_Count \in 0..SEM_VALUE_MAX
             /\ m_Holder \in Threads \cup {NoThread}
             /\ m_WaitQueue \in Seq(Threads) /\ Len(m_WaitQueue) <= Cardinality(Threads)
             /\ sleepers \subseteq Threads
             /\ now \in 0..MaxTime
             /\ tstate \in [Threads -> {"Ready", "Waiting", "Sleeping"}]
             /\ pc \in [Threads -> {"idle", "enter", "blocked"}]
             /\ req \in [Threads -> SemRequests]
             /\ result \in SemResults

(***************************************************************************)
(* No lost credit: while a thread sleeps in Acquire there are at least as  *)
(* many awake threads inside the call as there are credits, so every       *)
(* credit has somebody coming for it, whoever steals, times out or is      *)
(* woken by a signal in between.  A sleeper is linked where Release finds  *)
(* it, and no node is left linked by a call that returns or retries.       *)
(***************************************************************************)
CreditsCovered ==
    /\ \A t \in Threads : Blocked(t) =>
           /\ t \in Linked(m_WaitQueue)
           /\ m_Count <= Cardinality({u \in Threads : InCall(u) /\ Runnable(u)})
    /\ \A t \in Linked(m_WaitQueue) \cup sleepers : pc[t] = "blocked"

\* A call with a finite deadline returns.
SemTimedCallReturns ==
    \A t \in Threads :
        (pc[t] # "idle" /\ ~Untimed(req[t])) ~> pc[t] = "idle"
=============================================================================
