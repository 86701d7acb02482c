---------------------- MODULE KConditionVariable_proofs ---------------------
(* Proofs about KConditionVariable and its mutex, for every set of threads. *)
EXTENDS KConditionVariable, WaitQueue_proofs

USE ThreadsAssumption, TimeAssumption

TypeInv == /\ m_WaitQueue \in Seq(Threads)
           /\ cpc \in [Threads -> {"idle", "enter", "asleep", "relock"}]
           /\ wait \in [Threads -> Waits]
           /\ cvSleepers \subseteq Threads
           /\ cancel \in [Threads -> {"no", "flagged", "done"}]
           /\ notified \in [Threads -> BOOLEAN]
           /\ outcome \in {"none", "Success", "INTR", "TIMEDOUT"}
           /\ now \in 0..MaxTime
           /\ tstate \in [Threads -> {"Ready", "Waiting", "Sleeping"}]

(***************************************************************************)
(* The mutex as the condition variable uses it: exclusively, without       *)
(* nesting, without a deadline.  A thread inside Lock does not have it.    *)
(***************************************************************************)
LockInv == /\ lockCount \in {-1, 0}
           /\ lockHolder \in Threads \cup {NoThread}
           /\ lockQueue \subseteq Threads
           /\ lockSleepers = {} /\ readers = {}
           /\ pc \in [Threads -> {"idle", "enter", "retry", "blocked"}]
           /\ req = [t \in Threads |-> Mutex!NoRequest]
           /\ lockResult \in {"none", "Success"}
           /\ depth \in [Threads -> {0, 1}]
           /\ \A t \in Threads : depth[t] = 1 => lockCount = -1 /\ lockHolder = t
           /\ lockCount = -1 => lockHolder \in Threads /\ depth[lockHolder] = 1
           /\ \A t \in Threads : pc[t] # "idle" => depth[t] = 0
           /\ \A t \in lockQueue : pc[t] = "blocked"

(***************************************************************************)
(* A waiter's node is linked until Wakeup chooses it; it has the mutex     *)
(* when it starts, and not from the switch until it has it again.          *)
(***************************************************************************)
NodeInv ==
    /\ OneNodeEach(m_WaitQueue)
    /\ \A t \in Linked(m_WaitQueue) : ~notified[t] /\ cpc[t] \in {"asleep", "relock"}
    /\ \A t \in cvSleepers : cpc[t] \in {"asleep", "relock"} /\ ~Untimed(wait[t])
    /\ \A t \in Threads :
          /\ notified[t] => cpc[t] \in {"asleep", "relock"}
          /\ cpc[t] \in {"asleep", "relock"} /\ ~notified[t] => t \in Linked(m_WaitQueue)

WaitInv ==
    \A t \in Threads :
        /\ cpc[t] \in {"enter", "asleep"} => pc[t] = "idle"
        /\ cpc[t] = "asleep" => depth[t] = 0
        /\ cpc[t] # "idle" /\ ~wait[t].lock => pc[t] = "idle" /\ depth[t] = 0
        /\ cpc[t] \in {"enter", "relock"} /\ wait[t].lock /\ pc[t] = "idle" => depth[t] = 1

\* Where a thread that does not run can be found.
SleepInv ==
    \A t \in Threads :
        /\ Blocked(t) => cpc[t] = "asleep" \/ pc[t] = "blocked"
        /\ pc[t] = "blocked" /\ Blocked(t) =>
               t \in lockQueue /\ lockCount # 0 /\ tstate[t] = "Waiting"
        /\ tstate[t] = "Sleeping" => t \in cvSleepers /\ now < wait[t].deadline
        /\ cancel[t] = "done" /\ wait[t].cancelable /\ Blocked(t) => pc[t] = "blocked"

IInv == TypeInv /\ LockInv /\ NodeInv /\ WaitInv /\ SleepInv

-----------------------------------------------------------------------------
\* Init satisfies the invariant.
LEMMA InitIInv == Init => IInv
<1> SUFFICES ASSUME Init PROVE IInv
  OBVIOUS
<1> USE DEF Init, Mutex!Init
<1>1. TypeInv
  BY DEF TypeInv, NoWait, Waits, Infinit
<1>2. LockInv
  BY DEF LockInv
<1>3. NodeInv /\ WaitInv
  BY EmptyLinked DEF NodeInv, WaitInv
<1>4. SleepInv
  BY DEF SleepInv, Blocked
<1> QED BY <1>1, <1>2, <1>3, <1>4 DEF IInv

(***************************************************************************)
(* What the mutex does when t takes it, sleeps in its queue or goes round. *)
(***************************************************************************)
Takes(t) == /\ lockCount = 0 /\ lockCount' = -1 /\ lockHolder' = t
            /\ pc' = [pc EXCEPT ![t] = "idle"] /\ depth' = [depth EXCEPT ![t] = 1]
            /\ lockQueue' = lockQueue \ {t} /\ UNCHANGED tstate
Blocks(t) == /\ lockCount # 0
             /\ pc' = [pc EXCEPT ![t] = "blocked"] /\ tstate' = [tstate EXCEPT ![t] = "Waiting"]
             /\ lockQueue' = lockQueue \cup {t} /\ UNCHANGED <<lockCount, lockHolder, depth>>
Retries(t) == /\ lockCount # 0
              /\ pc' = [pc EXCEPT ![t] = "retry"] /\ lockQueue' = lockQueue \ {t}
              /\ UNCHANGED <<lockCount, lockHolder, depth, tstate>>

(***************************************************************************)
(* A step inside KMutex::Lock has one of these three effects, and touches  *)
(* nothing of the condition variable.                                      *)
(***************************************************************************)
LEMMA LockEffect ==
    ASSUME TypeInv, LockInv, NEW t \in Threads, LockStep(t)
    PROVE  /\ pc[t] # "idle" /\ Runnable(t)
           /\ Takes(t) \/ Blocks(t) \/ Retries(t)
           /\ UNCHANGED <<req, readers, lockSleepers, now>> /\ lockResult' \in {"none", "Success"}
<1> USE DEF LockInv, TypeInv
<1>1. /\ req[t].shared = FALSE /\ req[t].clock = FALSE /\ req[t].interruptible = FALSE
      /\ Mutex!Untimed(req[t]) /\ req = [req EXCEPT ![t] = Mutex!NoRequest]
  BY DEF Mutex!NoRequest, Mutex!Untimed, Mutex!Infinit
<1>2. CASE Mutex!LockEnter(t)
  BY <1>1, <1>2 DEF Mutex!LockEnter, Mutex!Entering, Mutex!CanLock, Mutex!Acquire, Mutex!Return,
       Mutex!BlockOnQueue, Mutex!Continue, Mutex!Runnable, Runnable, Takes, Blocks
<1>3. CASE Mutex!LockResume(t)
  BY <1>1, <1>3 DEF Mutex!LockResume, Mutex!Resuming, Mutex!Acquire, Mutex!Return,
       Mutex!Continue, Mutex!Runnable, Runnable, Takes, Retries
<1> QED BY <1>2, <1>3 DEF LockStep

-----------------------------------------------------------------------------
\* The mutex steps.
LEMMA LockStepInv ==
    ASSUME IInv, NEW t \in Threads, LockStep(t)
    PROVE  IInv'
<1> USE DEF IInv
<1>1. /\ pc[t] # "idle" /\ Runnable(t)
      /\ Takes(t) \/ Blocks(t) \/ Retries(t)
      /\ UNCHANGED <<req, readers, lockSleepers, now>> /\ lockResult' \in {"none", "Success"}
  BY LockEffect
<1>2. outcome' = "none" /\ UNCHANGED <<m_WaitQueue, cpc, wait, cvSleepers, cancel, notified>>
  BY DEF LockStep
<1> USE DEF Takes, Blocks, Retries
<1>3. TypeInv'
  BY <1>1, <1>2 DEF TypeInv
<1>4. LockInv'
  BY <1>1, <1>2 DEF LockInv
<1>5. NodeInv'
  BY <1>2 DEF NodeInv
<1>6. WaitInv'
  BY <1>1, <1>2 DEF WaitInv, TypeInv, LockInv
<1>7. SleepInv'
  BY <1>1, <1>2 DEF SleepInv, Blocked, Runnable, TypeInv, LockInv
<1> QED BY <1>3, <1>4, <1>5, <1>6, <1>7

\* A client outside a wait asks for the mutex, or gives it back.
LEMMA ClientStepInv ==
    ASSUME IInv, NEW t \in Threads, ClientLock(t) \/ ClientUnlock(t)
    PROVE  IInv'
<1> USE DEF IInv
<1>1. /\ cpc[t] = "idle" /\ pc[t] = "idle" /\ Runnable(t) /\ outcome' = "none"
      /\ UNCHANGED <<m_WaitQueue, cpc, wait, cvSleepers, cancel, notified, lockSleepers, now>>
  BY DEF ClientLock, ClientUnlock, Mutex!Call, Mutex!MayRequest, Mutex!Runnable, Runnable,
         Mutex!Unlock
<1>2. NodeInv'
  BY <1>1 DEF NodeInv
<1>3. CASE ClientLock(t)
  <2>1. /\ depth[t] = 0 /\ pc' = [pc EXCEPT ![t] = "enter"] /\ lockResult' = "none"
        /\ UNCHANGED <<lockCount, lockHolder, lockQueue, req, depth, readers, tstate>>
    BY <1>3 DEF ClientLock, Mutex!Call, Mutex!MayRequest, Mutex!NoRequest, LockInv
  <2>2. TypeInv' /\ LockInv' /\ WaitInv' /\ SleepInv'
    BY <1>1, <2>1 DEF TypeInv, LockInv, WaitInv, SleepInv, Blocked, Runnable
  <2> QED BY <1>2, <2>2
<1>4. CASE ClientUnlock(t)
  <2>1. /\ depth[t] = 1 /\ lockCount = -1 /\ lockCount' = 0 /\ lockHolder' = NoThread
        /\ lockQueue' = {} /\ lockResult' = "Success" /\ depth' = [depth EXCEPT ![t] = 0]
        /\ tstate' = [u \in Threads |-> IF u \in lockQueue /\ Blocked(u) THEN "Ready"
                                                                        ELSE tstate[u]]
        /\ UNCHANGED <<pc, req, readers>>
    BY <1>1, <1>4 DEF ClientUnlock, Mutex!Unlock, Mutex!GiveBack, Mutex!Released, Mutex!WakeAll,
                      Mutex!Return, Mutex!Blocked, Blocked, LockInv
  <2>2. TypeInv'
    BY <1>1, <2>1 DEF TypeInv
  <2>3. LockInv'
    BY <1>1, <2>1 DEF LockInv
  <2>4. WaitInv'
    BY <1>1, <2>1 DEF WaitInv, LockInv
  <2>5. SleepInv'
    BY <1>1, <2>1 DEF SleepInv, Blocked, TypeInv, LockInv
  <2> QED BY <1>2, <2>2, <2>3, <2>4, <2>5
<1> QED BY <1>3, <1>4

\* The switch of a waiter, with the release of the mutex.
LEMMA SleepStep ==
    ASSUME IInv, NEW t \in Threads, cpc[t] = "enter", Runnable(t),
           ~(wait[t].cancelable /\ Canceled(t)), Untimed(wait[t]) \/ now < wait[t].deadline, Sleep(t)
    PROVE  IInv'
<1> USE DEF IInv
<1> DEFINE asleep == IF Untimed(wait[t]) THEN "Waiting" ELSE "Sleeping"
<1>1. /\ cpc' = [cpc EXCEPT ![t] = "asleep"] /\ outcome' = "none"
      /\ m_WaitQueue' = Append(m_WaitQueue, t)
      /\ cvSleepers' = IF Untimed(wait[t]) THEN cvSleepers ELSE cvSleepers \cup {t}
      /\ UNCHANGED <<wait, notified, cancel, now, lockSleepers, pc, req, lockResult, readers>>
  BY DEF Sleep, Continue, UnlockInWait, lockVars
<1>2. /\ pc[t] = "idle" /\ ~notified[t] /\ t \notin Linked(m_WaitQueue) /\ t \notin cvSleepers
      /\ wait[t].lock => depth[t] = 1
  BY DEF NodeInv, WaitInv
<1>3. /\ m_WaitQueue' \in Seq(Threads) /\ OneNodeEach(m_WaitQueue')
      /\ Linked(m_WaitQueue') = Linked(m_WaitQueue) \cup {t}
  BY <1>1, <1>2, AppendLinked DEF TypeInv, NodeInv
<1>4. NodeInv'
  BY <1>1, <1>2, <1>3 DEF NodeInv, TypeInv
<1>5. CASE wait[t].lock
  <2>1. /\ lockCount = -1 /\ lockHolder = t /\ lockCount' = 0 /\ lockHolder' = NoThread
        /\ lockQueue' = {} /\ depth' = [depth EXCEPT ![t] = 0]
        /\ tstate' = [Woken(tstate, lockQueue) EXCEPT ![t] = asleep]
    BY <1>2, <1>5 DEF Sleep, UnlockInWait, Mutex!Released, LockInv
  <2>2. /\ tstate' \in [Threads -> {"Ready", "Waiting", "Sleeping"}]
        /\ tstate'[t] = asleep
        /\ \A u \in Threads \ {t} :
              tstate'[u] = IF u \in lockQueue /\ Blocked(u) THEN "Ready" ELSE tstate[u]
    BY <2>1 DEF Woken, TypeInv, Blocked
  <2>3. TypeInv'
    BY <1>1, <1>3, <2>2 DEF TypeInv
  <2>4. LockInv'
    BY <1>1, <2>1 DEF LockInv
  <2>5. WaitInv'
    BY <1>1, <1>2, <2>1 DEF WaitInv, LockInv, TypeInv
  <2>6. SleepInv'
    BY <1>1, <1>2, <2>1, <2>2 DEF SleepInv, Blocked, TypeInv, LockInv, Canceled
  <2> QED BY <1>4, <2>3, <2>4, <2>5, <2>6
<1>6. CASE ~wait[t].lock
  <2>1. tstate' = [tstate EXCEPT ![t] = asleep]
        /\ UNCHANGED <<lockCount, lockHolder, lockQueue, depth>>
    BY <1>6 DEF Sleep, lockVars
  <2>3. TypeInv'
    BY <1>1, <1>3, <2>1 DEF TypeInv
  <2>4. LockInv'
    BY <1>1, <2>1 DEF LockInv
  <2>5. WaitInv'
    BY <1>1, <1>2, <1>6, <2>1 DEF WaitInv, LockInv, TypeInv
  <2>6. SleepInv'
    BY <1>1, <1>2, <2>1 DEF SleepInv, Blocked, TypeInv, LockInv, Canceled
  <2> QED BY <1>4, <2>3, <2>4, <2>5, <2>6
<1> QED BY <1>5, <1>6

\* The two other critical sections of a wait.
LEMMA WaitStepInv ==
    ASSUME IInv, NEW t \in Threads, WaitStep(t)
    PROVE  IInv'
<1> USE DEF IInv
<1>1. ASSUME NEW code \in {"INTR", "TIMEDOUT"}, cpc[t] = "enter", Runnable(t), GiveUp(t, code)
      PROVE  IInv'
  <2>1. /\ cpc' = [cpc EXCEPT ![t] = "idle"] /\ wait' = [wait EXCEPT ![t] = NoWait]
        /\ notified' = [notified EXCEPT ![t] = FALSE] /\ outcome' = code
        /\ UNCHANGED <<m_WaitQueue, cvSleepers, cancel, lockVars, now, tstate>>
    BY <1>1 DEF GiveUp, Return
  <2>2. TypeInv' /\ LockInv'
    BY <2>1 DEF TypeInv, LockInv, lockVars, NoWait, Waits, Infinit
  <2>3. NodeInv'
    BY <1>1, <2>1 DEF NodeInv, TypeInv
  <2>4. WaitInv'
    BY <2>1 DEF WaitInv, TypeInv, lockVars
  <2>5. SleepInv'
    BY <1>1, <2>1 DEF SleepInv, TypeInv, lockVars, Blocked, Runnable
  <2> QED BY <2>2, <2>3, <2>4, <2>5
<1>2. CASE WaitEnter(t)
  BY <1>1, <1>2, SleepStep DEF WaitEnter
<1>3. CASE WaitRelock(t)
  <2>1. /\ cpc[t] = "asleep" /\ Runnable(t)
        /\ cpc' = [cpc EXCEPT ![t] = "relock"] /\ outcome' = "none"
        /\ pc' = [pc EXCEPT ![t] = IF wait[t].lock THEN "enter" ELSE @]
        /\ UNCHANGED <<lockCount, lockHolder, lockQueue, lockSleepers, req, lockResult, depth,
                       readers, wait, notified, m_WaitQueue, cvSleepers, cancel, now, tstate>>
    BY <1>3 DEF WaitRelock, Continue, lockVars, LockInv
  <2>2. TypeInv'
    BY <2>1 DEF TypeInv
  <2>3. LockInv'
    BY <2>1 DEF LockInv, WaitInv
  <2>4. NodeInv'
    BY <2>1 DEF NodeInv, TypeInv
  <2>5. WaitInv'
    BY <2>1 DEF WaitInv, TypeInv, LockInv
  <2>6. SleepInv'
    BY <2>1 DEF SleepInv, TypeInv, LockInv, Blocked, Runnable
  <2> QED BY <2>2, <2>3, <2>4, <2>5, <2>6
<1>4. CASE WaitResume(t)
  <2>1. /\ cpc[t] = "relock" /\ pc[t] = "idle" /\ Runnable(t)
        /\ cvSleepers' = cvSleepers \ {t} /\ m_WaitQueue' = Detatch(m_WaitQueue, t)
        /\ UNCHANGED <<cancel, lockVars, now, tstate>>
    BY <1>4 DEF WaitResume
  <2>2. /\ m_WaitQueue' \in Seq(Threads) /\ OneNodeEach(m_WaitQueue')
        /\ Linked(m_WaitQueue') = Linked(m_WaitQueue) \ {t}
    BY <2>1, DetatchLinked DEF TypeInv, NodeInv
  <2>3. \/ /\ t \in Linked(m_WaitQueue) /\ ~notified[t]
           /\ cpc' = [cpc EXCEPT ![t] = "enter"] /\ outcome' = "none" /\ UNCHANGED <<wait, notified>>
        \/ /\ cpc' = [cpc EXCEPT ![t] = "idle"] /\ wait' = [wait EXCEPT ![t] = NoWait]
           /\ notified' = [notified EXCEPT ![t] = FALSE] /\ outcome' = "Success"
    BY <1>4 DEF WaitResume, Continue, Return, NodeInv
  <2>4. TypeInv' /\ LockInv'
    <3>1. LockInv'
      BY <2>1 DEF LockInv, lockVars
    <3>2. NoWait \in Waits
      BY DEF NoWait, Waits, Infinit
    <3>3. /\ m_WaitQueue' \in Seq(Threads) /\ cvSleepers' \subseteq Threads
          /\ cancel' \in [Threads -> {"no", "flagged", "done"}] /\ now' \in 0..MaxTime
          /\ tstate' \in [Threads -> {"Ready", "Waiting", "Sleeping"}]
      BY <2>1, <2>2 DEF TypeInv
    <3>4. /\ cpc' \in [Threads -> {"idle", "enter", "asleep", "relock"}]
          /\ outcome' \in {"none", "Success", "INTR", "TIMEDOUT"}
      BY <2>3 DEF TypeInv
    <3>5. wait' \in [Threads -> Waits]
      BY <2>3, <3>2 DEF TypeInv
    <3>6. notified' \in [Threads -> BOOLEAN]
      BY <2>3 DEF TypeInv
    <3> QED BY <3>1, <3>3, <3>4, <3>5, <3>6 DEF TypeInv
  <2>5. NodeInv'
    <3>1. CASE t \in Linked(m_WaitQueue) /\ ~notified[t] /\ cpc' = [cpc EXCEPT ![t] = "enter"]
               /\ UNCHANGED <<wait, notified>>
      BY <2>1, <2>2, <3>1 DEF NodeInv, TypeInv
    <3>2. CASE /\ cpc' = [cpc EXCEPT ![t] = "idle"] /\ wait' = [wait EXCEPT ![t] = NoWait]
               /\ notified' = [notified EXCEPT ![t] = FALSE]
      BY <2>1, <2>2, <3>2 DEF NodeInv, TypeInv
    <3> QED BY <2>3, <3>1, <3>2
  <2>6. WaitInv'
    BY <2>1, <2>3 DEF WaitInv, TypeInv, lockVars
  <2>7. SleepInv'
    BY <2>1, <2>3 DEF SleepInv, TypeInv, lockVars, Blocked, Runnable
  <2> QED BY <2>4, <2>5, <2>6, <2>7
<1> QED BY <1>2, <1>3, <1>4 DEF WaitStep

\* A wait begins.
LEMMA StartStep ==
    ASSUME IInv, NEW t \in Threads, NEW w \in Waits, Wait(t, w) \/ IRQWait(t, w)
    PROVE  IInv'
<1> USE DEF IInv
<1>1. /\ cpc[t] = "idle" /\ pc[t] = "idle" /\ Runnable(t)
      /\ w.lock => depth[t] = 1
      /\ ~w.lock => depth[t] = 0
      /\ cpc' = [cpc EXCEPT ![t] = "enter"] /\ wait' = [wait EXCEPT ![t] = w]
      /\ notified' = [notified EXCEPT ![t] = FALSE] /\ outcome' = "none"
      /\ UNCHANGED <<m_WaitQueue, cvSleepers, cancel, lockVars, now, tstate>>
  BY DEF Wait, IRQWait, StartWait
<1>2. TypeInv' /\ LockInv'
  BY <1>1 DEF TypeInv, LockInv, lockVars
<1>3. NodeInv'
  BY <1>1 DEF NodeInv, TypeInv
<1>4. WaitInv'
  BY <1>1 DEF WaitInv, TypeInv, lockVars
<1>5. SleepInv'
  BY <1>1 DEF SleepInv, TypeInv, lockVars, Blocked, Runnable
<1> QED BY <1>2, <1>3, <1>4, <1>5

\* Wake-ups that leave the nodes alone: a signal, a cancellation, the tick.
LEMMA WokenUpStep ==
    ASSUME IInv, \/ \E t \in Threads : SetCanceled(t) \/ CancelWakeup(t) \/ WakeupThread(t)
                 \/ SysTick
    PROVE  IInv'
<1> USE DEF IInv
<1>1. outcome' = "none" /\ UNCHANGED <<m_WaitQueue, cpc, wait, notified, lockVars>>
  BY DEF SetCanceled, CancelWakeup, WakeupThread, SysTick
<1>2. LockInv' /\ WaitInv'
  BY <1>1 DEF LockInv, WaitInv, lockVars
<1>3. NodeInv' /\ cvSleepers' \subseteq cvSleepers
  BY <1>1 DEF NodeInv, SetCanceled, CancelWakeup, WakeupThread, SysTick, Due
<1>4. ASSUME NEW t \in Threads, SetCanceled(t) PROVE IInv'
  <2>1. cancel' = [cancel EXCEPT ![t] = "flagged"] /\ UNCHANGED <<cvSleepers, now, tstate>>
    BY <1>4 DEF SetCanceled
  <2>2. TypeInv' /\ SleepInv'
    BY <1>1, <2>1 DEF TypeInv, SleepInv, lockVars, Blocked
  <2> QED BY <1>2, <1>3, <2>2
<1>5. ASSUME NEW t \in Threads, CancelWakeup(t) \/ WakeupThread(t) PROVE IInv'
  <2>1. /\ cancel' \in {cancel, [cancel EXCEPT ![t] = "done"]}
        /\ tstate' = Woken(tstate, {t}) /\ UNCHANGED <<cvSleepers, now>>
    BY <1>5 DEF CancelWakeup, WakeupThread
  <2>2. tstate' = [tstate EXCEPT ![t] = "Ready"]
    BY <2>1 DEF Woken, TypeInv
  <2>3. TypeInv'
    BY <1>1, <2>1, <2>2 DEF TypeInv
  <2>4. /\ \A u \in Threads \ {t} : cancel'[u] = cancel[u] /\ tstate'[u] = tstate[u]
        /\ tstate'[t] = "Ready"
        /\ UNCHANGED <<pc, cpc, wait, lockQueue, lockCount, cvSleepers, now>>
    BY <1>1, <2>1, <2>2 DEF TypeInv, lockVars
  <2>5. SleepInv'
    BY <2>4 DEF SleepInv, Blocked
  <2> QED BY <1>2, <1>3, <2>3, <2>5
<1>6. ASSUME SysTick PROVE IInv'
  <2>1. /\ now' = now + 1 /\ now' \in 0..MaxTime /\ cvSleepers' = cvSleepers \ Due
        /\ tstate' = [u \in Threads |-> IF u \in Due /\ tstate[u] = "Sleeping"
                                       THEN "Ready" ELSE tstate[u]]
        /\ UNCHANGED cancel
    BY <1>6 DEF SysTick, TypeInv
  <2>2. TypeInv'
    BY <1>1, <2>1 DEF TypeInv
  <2>3. SleepInv'
    <3>1. \A u \in cvSleepers \ Due : now' < wait[u].deadline
      BY <2>1 DEF Due, TypeInv, NodeInv, Waits, Untimed, Infinit
    <3> QED BY <1>1, <2>1, <3>1 DEF TypeInv, SleepInv, lockVars, Blocked
  <2> QED BY <1>2, <1>3, <2>2, <2>3
<1> QED BY <1>4, <1>5, <1>6

\* A notification.
LEMMA WakeupStep ==
    ASSUME IInv, NEW n \in 0..2, Wakeup(n)
    PROVE  IInv'
<1> USE DEF IInv
<1> DEFINE popped == Popped(m_WaitQueue, n)
<1>1. /\ tstate' = Woken(tstate, popped) /\ m_WaitQueue' = Remaining(m_WaitQueue, n)
      /\ notified' = [t \in Threads |-> notified[t] \/ t \in popped]
      /\ outcome' = "none" /\ UNCHANGED <<cpc, wait, cvSleepers, cancel, lockVars, now>>
  BY DEF Wakeup
<1>2. /\ m_WaitQueue' \in Seq(Threads) /\ OneNodeEach(m_WaitQueue')
      /\ Linked(m_WaitQueue') = Linked(m_WaitQueue) \ popped
      /\ popped \subseteq Linked(m_WaitQueue) /\ Linked(m_WaitQueue) \subseteq Threads
  <2>1. n \in Nat /\ m_WaitQueue \in Seq(Threads) /\ OneNodeEach(m_WaitQueue)
    BY DEF TypeInv, NodeInv
  <2> QED BY <1>1, <2>1, PopLinked, LinkedAt
<1>3. /\ tstate' \in [Threads -> {"Ready", "Waiting", "Sleeping"}]
      /\ \A t \in Threads : tstate'[t] = IF t \in popped THEN "Ready" ELSE tstate[t]
  BY <1>1 DEF Woken, TypeInv
<1>4. /\ notified' \in [Threads -> BOOLEAN]
      /\ \A t \in Threads : notified'[t] <=> notified[t] \/ t \in popped
  BY <1>1, Zenon DEF TypeInv
<1> HIDE DEF popped
<1>5. TypeInv' /\ LockInv' /\ WaitInv'
  BY <1>1, <1>2, <1>3, <1>4 DEF TypeInv, LockInv, WaitInv, lockVars
<1>6. NodeInv'
  BY <1>1, <1>2, <1>4 DEF NodeInv, TypeInv
<1>7. SleepInv'
  BY <1>1, <1>3 DEF SleepInv, TypeInv, lockVars, Blocked
<1> QED BY <1>5, <1>6, <1>7

\* Every step keeps the invariant.
LEMMA NextIInv == IInv /\ [Next]_vars => IInv'
<1> SUFFICES ASSUME IInv, [Next]_vars PROVE IInv'
  OBVIOUS
<1>1. CASE UNCHANGED vars
  <2>1. TypeInv' /\ LockInv' /\ NodeInv' /\ WaitInv'
    BY <1>1 DEF IInv, TypeInv, LockInv, NodeInv, WaitInv, vars, cvVars, lockVars
  <2>2. SleepInv'
    BY <1>1 DEF IInv, SleepInv, Blocked, vars, cvVars, lockVars
  <2> QED BY <2>1, <2>2 DEF IInv
<1>2. CASE Next
  BY <1>2, LockStepInv, ClientStepInv, WaitStepInv, StartStep, WokenUpStep, WakeupStep DEF Next
<1> QED BY <1>1, <1>2

\* The inductive invariant holds in every reachable state.
LEMMA Inductive == Spec => []IInv
  BY InitIInv, NextIInv, PTL DEF Spec

-----------------------------------------------------------------------------
(***************************************************************************)
(* A notifier finds every waiter, from the moment it lets go of the mutex  *)
(* until it looks at its node again; the tick finds every sleeper; and a   *)
(* waiter that sleeps in the queue of the mutex is linked there.           *)
(***************************************************************************)
THEOREM AlwaysFindable == Spec => []WaiterIsFindable
<1>1. IInv => WaiterIsFindable
  <2> SUFFICES ASSUME IInv PROVE WaiterIsFindable
    OBVIOUS
  <2> USE DEF IInv
  <2>1. Mutex!TypeOK
    <3>1. Mutex!NoRequest \in Mutex!Requests
      BY DEF Mutex!NoRequest, Mutex!Requests, Mutex!Deadlines, Mutex!Infinit
    <3>2. Cardinality(Threads) \in Nat
      BY FS_CardinalityType
    <3>3. lockCount \in -1..Cardinality(Threads)
      BY <3>2 DEF LockInv
    <3>4. req \in [Threads -> Mutex!Requests] /\ depth \in [Threads -> 0..1]
      BY <3>1 DEF LockInv
    <3>5. /\ lockHolder \in Threads \cup {NoThread} /\ lockQueue \subseteq Threads
          /\ lockSleepers \subseteq Threads /\ readers \subseteq Threads
          /\ pc \in [Threads -> {"idle", "enter", "retry", "blocked"}]
          /\ lockResult \in Mutex!Results
      BY DEF LockInv, Mutex!Results
    <3>6. Mutex!Cardinality(Threads) = Cardinality(Threads)
      BY DEF Mutex!Cardinality, Cardinality
    <3> QED BY <3>3, <3>4, <3>5, <3>6 DEF Mutex!TypeOK, TypeInv
  <2>2. Len(m_WaitQueue) <= Cardinality(Threads)
    BY QueueSize DEF TypeInv, NodeInv
  <2>3. TypeOK
    BY <2>1, <2>2 DEF TypeOK, TypeInv
  <2>4. ASSUME NEW t \in Threads
        PROVE  /\ cpc[t] \in {"asleep", "relock"} /\ ~notified[t] => t \in Linked(m_WaitQueue)
               /\ tstate[t] = "Sleeping" =>
                      cpc[t] = "asleep" /\ t \in cvSleepers /\ now < wait[t].deadline
               /\ pc[t] = "blocked" /\ Blocked(t) => t \in lockQueue /\ lockCount # 0
    BY DEF NodeInv, SleepInv, Blocked
  <2>5. \A t \in Linked(m_WaitQueue) \cup cvSleepers : cpc[t] \in {"asleep", "relock"}
    BY DEF NodeInv
  <2> QED BY <2>3, <2>4, <2>5 DEF WaiterIsFindable
<1> QED BY Inductive, <1>1, PTL

(***************************************************************************)
(* A cancelable wait does not sleep through a cancellation.                *)
(***************************************************************************)
THEOREM CancelIsNoticed == Spec => []CancelReachesWaiter
<1>1. IInv => CancelReachesWaiter
  BY DEF IInv, SleepInv, CancelReachesWaiter
<1> QED BY Inductive, <1>1, PTL

(***************************************************************************)
(* A wait succeeds exactly when Wakeup chose it, and one that was given a  *)
(* mutex returns holding it, whatever it returns.                          *)
(***************************************************************************)
THEOREM ReturnsWhyItWoke == Spec => SuccessIffNotified
<1> DEFINE A == \A t \in Threads : Returns(t) =>
                    /\ outcome' = "Success" <=> notified[t]
                    /\ wait[t].lock => depth'[t] = 1
<1>1. ASSUME IInv, [Next]_vars PROVE A \/ UNCHANGED vars
  <2> SUFFICES ASSUME NEW t \in Threads, Next, Returns(t)
               PROVE  /\ outcome' = "Success" <=> notified[t]
                      /\ wait[t].lock => depth'[t] = 1
    BY <1>1
  <2> USE <1>1 DEF IInv, Returns
  <2>1. ASSUME UNCHANGED cpc PROVE FALSE
    BY <2>1
  <2>2. ASSUME NEW u \in Threads, NEW label \in {"enter", "asleep", "relock"},
               cpc' = [cpc EXCEPT ![u] = label]
        PROVE  FALSE
    BY <2>2 DEF TypeInv
  <2>3. PICK u \in Threads : WaitStep(u)
    BY <2>1, <2>2 DEF Next, Wait, IRQWait, StartWait, LockStep, ClientLock, ClientUnlock, SetCanceled,
       CancelWakeup, WakeupThread, Wakeup, SysTick
  <2>4. u = t /\ (WaitEnter(t) \/ WaitResume(t))
    BY <2>2, <2>3 DEF WaitStep, WaitEnter, WaitRelock, WaitResume, Sleep, GiveUp, Continue, Return,
       TypeInv
  <2>5. CASE WaitEnter(t)
    <3>1. /\ cpc[t] = "enter" /\ UNCHANGED depth
          /\ outcome' = "INTR" \/ outcome' = "TIMEDOUT"
      BY <2>2, <2>5 DEF WaitEnter, Sleep, GiveUp, Continue, Return, lockVars
    <3> QED BY <3>1 DEF NodeInv, WaitInv
  <2>6. CASE WaitResume(t)
    <3>1. /\ cpc[t] = "relock" /\ pc[t] = "idle" /\ UNCHANGED depth
          /\ outcome' = "Success" /\ t \notin Linked(m_WaitQueue)
      BY <2>2, <2>6 DEF WaitResume, Continue, Return, lockVars
    <3> QED BY <3>1 DEF NodeInv, WaitInv
  <2> QED BY <2>4, <2>5, <2>6
<1>2. IInv /\ [Next]_vars => [A]_vars
  BY <1>1
<1> QED BY Inductive, <1>2, PTL DEF Spec, SuccessIffNotified
=============================================================================
