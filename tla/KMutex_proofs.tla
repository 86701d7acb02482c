---------------------------- MODULE KMutex_proofs ----------------------------
(***************************************************************************)
(* Proofs about KMutex and, after it, KSemaphore, for every set of         *)
(* threads, nesting bound, limit of the count and time bound.              *)
(***************************************************************************)
EXTENDS KMutex, KSemaphore, WaitQueue_proofs

(***************************************************************************)
(* Typing, without the bounds that only the counter's meaning gives.       *)
(***************************************************************************)
TypeInv == /\ m_Count \in Int
           /\ m_Holder \in Threads \cup {NoThread}
           /\ m_WaitQueue \subseteq Threads
           /\ sleepers \subseteq Threads
           /\ now \in 0..MaxTime
           /\ tstate \in [Threads -> {"Ready", "Waiting", "Sleeping"}]
           /\ pc \in [Threads -> {"idle", "enter", "retry", "blocked"}]
           /\ req \in [Threads -> Requests]
           /\ result \in Results
           /\ depth \in [Threads -> 0..MaxDepth]
           /\ readers \subseteq Threads

(***************************************************************************)
(* What a thread inside a call was entitled to ask for still holds.        *)
(***************************************************************************)
Entitled(t) == /\ t \notin readers
               /\ IF req[t].shared THEN depth[t] = 0
                                   ELSE depth[t] = 0 \/ (Recurse /\ depth[t] < MaxDepth)

CallInv == \A t \in Threads : /\ pc[t] # "idle" => Entitled(t)
                              /\ ~req[t].clock => Untimed(req[t])

\* Only a call with a finite deadline has a sleep node.
SleepersTimed == \A t \in sleepers : ~Untimed(req[t])

(***************************************************************************)
(* The inductive invariant: the counter means what the holders think, and  *)
(* a sleeping thread can be found by whoever has to wake it.               *)
(***************************************************************************)
IInv == /\ TypeInv
        /\ CallInv
        /\ CountMatchesHolders
        /\ NoLostWakeup
        /\ NodesUnlinked
        /\ SleepsUntilDeadline
        /\ SleepersTimed

USE ThreadsAssumption, TimeAssumption, RecurseAssumption, DepthAssumption

\* The request of a thread that is in no call is well typed.
LEMMA NoRequestType == NoRequest \in Requests
  BY DEF NoRequest, Requests, Deadlines, Infinit

\* A new mutex satisfies the inductive invariant.
LEMMA InitIInv == Init => IInv
<1> SUFFICES ASSUME Init PROVE IInv
  OBVIOUS
<1>1. TypeInv
  BY NoRequestType DEF Init, TypeInv, Results
<1>2. CallInv
  BY DEF Init, CallInv, NoRequest, Untimed
<1>3. CountMatchesHolders
  BY FS_EmptySet DEF Init, CountMatchesHolders
<1>4. NoLostWakeup /\ NodesUnlinked /\ SleepsUntilDeadline /\ SleepersTimed
  BY DEF Init, NoLostWakeup, NodesUnlinked, SleepsUntilDeadline, SleepersTimed, Blocked
<1> QED BY <1>1, <1>2, <1>3, <1>4 DEF IInv

-----------------------------------------------------------------------------
(***************************************************************************)
(* Taking the mutex keeps the counter honest.                              *)
(***************************************************************************)
LEMMA AcquireKeepsCount ==
    ASSUME TypeInv, CountMatchesHolders, NEW t \in Threads,
           CanLock(t), Acquire(t)
    PROVE  CountMatchesHolders'
<1>1. readers = {} /\ m_Count <= 0
  <2>1. CASE m_Count = 0
    <3>1. IsFiniteSet(readers)
      BY FS_Subset DEF TypeInv
    <3> QED BY <2>1, <3>1, FS_EmptySet DEF CountMatchesHolders
  <2>2. CASE m_Count # 0
    BY <2>2 DEF CanLock, CountMatchesHolders, TypeInv
  <2> QED BY <2>1, <2>2
<1> QED BY <1>1 DEF CountMatchesHolders, Acquire, CanLock, TypeInv

\* One more reader: the counter is still the number of readers.
LEMMA AcquireSharedKeepsCount ==
    ASSUME TypeInv, CountMatchesHolders, NEW t \in Threads, t \notin readers,
           CanLockShared, AcquireShared(t)
    PROVE  CountMatchesHolders'
<1>1. IsFiniteSet(readers)
  BY FS_Subset DEF TypeInv
<1>2. Cardinality(readers \cup {t}) = Cardinality(readers) + 1
  BY <1>1, FS_AddElement
<1> QED BY <1>2 DEF CountMatchesHolders, AcquireShared, CanLockShared, TypeInv

\* Unlock gives back what the caller holds, and names nobody once it is free.
LEMMA UnlockKeepsCount ==
    ASSUME TypeInv, CountMatchesHolders, NEW t \in Threads, Unlock(t)
    PROVE  CountMatchesHolders'
<1>1. IsFiniteSet(readers)
  BY FS_Subset DEF TypeInv
<1>2. Cardinality(readers) \in Nat
  BY <1>1, FS_CardinalityType
<1>3. t \in readers => Cardinality(readers \ {t}) = Cardinality(readers) - 1
  BY <1>1, FS_RemoveElement
<1>4. Cardinality({}) = 0
  BY FS_EmptySet
<1>5. /\ m_Count # 0 /\ GiveBack(t) /\ m_Count' = Released
      /\ Released = 0 => m_Holder' = NoThread
      /\ Released # 0 => m_Holder' = m_Holder
  BY DEF Unlock
<1>6. CASE m_Count < 0
  <2>1. /\ t = m_Holder /\ m_Count + depth[t] = 0 /\ readers = {}
        /\ readers' = readers /\ depth' = [depth EXCEPT ![t] = @ - 1]
    BY <1>5, <1>6 DEF CountMatchesHolders, GiveBack, TypeInv
  <2>2. m_Count' = m_Count + 1
    BY <1>5, <1>6 DEF Released
  <2>3. depth'[t] = depth[t] - 1 /\ \A u \in Threads \ {t} : depth'[u] = 0
    BY <2>1, <1>6 DEF CountMatchesHolders, TypeInv
  <2>4. CASE m_Count + 1 = 0
    <3>1. m_Count' = 0 /\ m_Holder' = NoThread
      BY <1>5, <2>2, <2>4 DEF TypeInv
    <3>0. depth[t] = 1
      BY <2>1, <2>4 DEF TypeInv
    <3>2. \A u \in Threads : depth'[u] = 0
      BY <2>3, <3>0
    <3>3. Cardinality(readers') = 0
      BY <1>4, <2>1
    <3> QED BY <3>1, <3>2, <3>3 DEF CountMatchesHolders
  <2>5. CASE m_Count + 1 # 0
    BY <1>5, <1>6, <2>1, <2>2, <2>3, <2>5 DEF CountMatchesHolders, TypeInv, Released
  <2> QED BY <2>4, <2>5
<1>7. CASE m_Count > 0
  <2>1. t \in readers /\ readers' = readers \ {t} /\ depth' = depth
    BY <1>5, <1>7 DEF CountMatchesHolders, GiveBack, TypeInv
  <2>2. m_Count' = m_Count - 1 /\ m_Holder' = NoThread
    BY <1>5, <1>7 DEF Released, CountMatchesHolders, TypeInv
  <2> QED BY <1>2, <1>3, <1>7, <2>1, <2>2 DEF CountMatchesHolders, TypeInv
<1> QED BY <1>5, <1>6, <1>7 DEF TypeInv
-----------------------------------------------------------------------------
(***************************************************************************)
(* One lemma per part of the invariant.  The mutex's own variables change  *)
(* only by Acquire, AcquireShared and Unlock.                              *)
(***************************************************************************)
LEMMA TypeStep == TypeInv /\ CallInv /\ [Next]_vars => TypeInv'
<1> SUFFICES ASSUME TypeInv, CallInv, [Next]_vars PROVE TypeInv'
  OBVIOUS
<1> USE NoRequestType DEF TypeInv, Results
<1>1. ASSUME NEW t \in Threads, CallStep(t) PROVE TypeInv'
  <2> USE DEF Entering, Resuming, Return, Continue, Acquire, AcquireShared, BlockOnQueue
  <2>1. CASE LockEnter(t)
    BY <2>1 DEF LockEnter, CallInv, Entitled
  <2>2. CASE LockResume(t)
    BY <2>2 DEF LockResume, CallInv, Entitled
  <2>3. CASE LockSharedEnter(t)
    BY <2>3 DEF LockSharedEnter
  <2>4. CASE LockSharedResume(t)
    BY <2>4 DEF LockSharedResume
  <2>5. CASE LockClockEnter(t)
    BY <2>5 DEF LockClockEnter, NotTaken, CallInv, Entitled
  <2>6. CASE LockClockResume(t)
    BY <2>6 DEF LockClockResume
  <2>7. CASE LockSharedClockEnter(t)
    BY <2>7 DEF LockSharedClockEnter, NotTaken
  <2>8. CASE LockSharedClockResume(t)
    BY <2>8 DEF LockSharedClockResume, WakeAll
  <2> QED BY <1>1, <2>1, <2>2, <2>3, <2>4, <2>5, <2>6, <2>7, <2>8 DEF CallStep
<1>2. ASSUME NEW t \in Threads, NEW r \in Requests, Call(t, r) PROVE TypeInv'
  BY <1>2 DEF Call
<1>3. ASSUME NEW t \in Threads, TryLock(t) PROVE TypeInv'
  BY <1>3 DEF TryLock, MayRequest, Return, Acquire
<1>4. ASSUME NEW t \in Threads, TryLockShared(t) PROVE TypeInv'
  BY <1>4 DEF TryLockShared, Return, AcquireShared
<1>5. ASSUME NEW t \in Threads, Unlock(t) PROVE TypeInv'
  BY <1>5 DEF Unlock, GiveBack, Released, Return, WakeAll
<1>6. ASSUME NEW t \in Threads, UnlockFree(t) PROVE TypeInv'
  BY <1>6 DEF UnlockFree, Return
<1>7. ASSUME NEW t \in Threads, WakeupThread(t) PROVE TypeInv'
  BY <1>7 DEF WakeupThread
<1>8. CASE SysTick
  BY <1>8 DEF SysTick, Due
<1>9. CASE UNCHANGED vars
  BY <1>9 DEF vars
<1> QED BY <1>1, <1>2, <1>3, <1>4, <1>5, <1>6, <1>7, <1>8, <1>9 DEF Next

\* Threads inside a call stay threads that were allowed to make it.
LEMMA CallInvStep == IInv /\ [Next]_vars => CallInv'
<1> SUFFICES ASSUME IInv, [Next]_vars PROVE CallInv'
  OBVIOUS
<1> USE DEF IInv, TypeInv, CallInv, Entitled, NoRequest, Untimed, Entering, Resuming, Return,
            Continue, Acquire, AcquireShared, BlockOnQueue
<1>1. ASSUME NEW t \in Threads, CallStep(t) PROVE CallInv'
  <2>1. CASE LockEnter(t)
    BY <2>1 DEF LockEnter
  <2>2. CASE LockResume(t)
    BY <2>2 DEF LockResume
  <2>3. CASE LockSharedEnter(t)
    BY <2>3 DEF LockSharedEnter
  <2>4. CASE LockSharedResume(t)
    BY <2>4 DEF LockSharedResume
  <2>5. CASE LockClockEnter(t)
    BY <2>5 DEF LockClockEnter, NotTaken
  <2>6. CASE LockClockResume(t)
    BY <2>6 DEF LockClockResume
  <2>7. CASE LockSharedClockEnter(t)
    BY <2>7 DEF LockSharedClockEnter, NotTaken
  <2>8. CASE LockSharedClockResume(t)
    BY <2>8 DEF LockSharedClockResume
  <2> QED BY <1>1, <2>1, <2>2, <2>3, <2>4, <2>5, <2>6, <2>7, <2>8 DEF CallStep
<1>2. ASSUME NEW t \in Threads, NEW r \in Requests, Call(t, r) PROVE CallInv'
  BY <1>2 DEF Call, MayRequest
<1>3. ASSUME NEW t \in Threads, TryLock(t) PROVE CallInv'
  BY <1>3 DEF TryLock, MayRequest
<1>4. ASSUME NEW t \in Threads, TryLockShared(t) PROVE CallInv'
  BY <1>4 DEF TryLockShared, MayRequest
<1>5. ASSUME NEW t \in Threads, Unlock(t) PROVE CallInv'
  BY <1>5 DEF Unlock, GiveBack
<1>6. ASSUME NEW t \in Threads, UnlockFree(t) PROVE CallInv'
  BY <1>6 DEF UnlockFree
<1>7. ASSUME NEW t \in Threads, WakeupThread(t) PROVE CallInv'
  BY <1>7 DEF WakeupThread
<1>8. CASE SysTick
  BY <1>8 DEF SysTick
<1>9. CASE UNCHANGED vars
  BY <1>9 DEF vars
<1> QED BY <1>1, <1>2, <1>3, <1>4, <1>5, <1>6, <1>7, <1>8, <1>9 DEF Next

\* No step makes the counter differ from the holds that were granted.
LEMMA CountStep == IInv /\ [Next]_vars => CountMatchesHolders'
<1> SUFFICES ASSUME IInv, [Next]_vars PROVE CountMatchesHolders'
  OBVIOUS
<1> USE DEF IInv
<1>1. ASSUME NEW t \in Threads, CallStep(t) PROVE CountMatchesHolders'
  <2>1. CASE LockEnter(t)
    BY <2>1, AcquireKeepsCount DEF LockEnter, BlockOnQueue, CountMatchesHolders
  <2>2. CASE LockResume(t)
    BY <2>2, AcquireKeepsCount DEF LockResume, CanLock, BlockOnQueue, CountMatchesHolders
  <2>3. CASE LockSharedEnter(t)
    BY <2>3, AcquireSharedKeepsCount DEF LockSharedEnter, CallInv, Entitled, Entering, Resuming,
                                         BlockOnQueue, CountMatchesHolders
  <2>4. CASE LockSharedResume(t)
    BY <2>4, AcquireSharedKeepsCount DEF LockSharedResume, CallInv, Entitled, Entering, Resuming,
                                         BlockOnQueue, CountMatchesHolders
  <2>5. CASE LockClockEnter(t)
    BY <2>5, AcquireKeepsCount DEF LockClockEnter, NotTaken, BlockOnQueue, CountMatchesHolders
  <2>6. CASE LockClockResume(t)
    BY <2>6 DEF LockClockResume, BlockOnQueue, CountMatchesHolders
  <2>7. CASE LockSharedClockEnter(t)
    BY <2>7, AcquireSharedKeepsCount DEF LockSharedClockEnter, NotTaken, CallInv, Entitled,
                                         Entering, Resuming, BlockOnQueue, CountMatchesHolders
  <2>8. CASE LockSharedClockResume(t)
    BY <2>8 DEF LockSharedClockResume, CallInv, Entitled, Entering, Resuming, BlockOnQueue,
                CountMatchesHolders
  <2> QED BY <1>1, <2>1, <2>2, <2>3, <2>4, <2>5, <2>6, <2>7, <2>8 DEF CallStep
<1>2. ASSUME NEW t \in Threads, NEW r \in Requests, Call(t, r) PROVE CountMatchesHolders'
  BY <1>2 DEF Call, BlockOnQueue, CountMatchesHolders
<1>3. ASSUME NEW t \in Threads, TryLock(t) PROVE CountMatchesHolders'
  BY <1>3, AcquireKeepsCount DEF TryLock, CountMatchesHolders
<1>4. ASSUME NEW t \in Threads, TryLockShared(t) PROVE CountMatchesHolders'
  BY <1>4, AcquireSharedKeepsCount DEF TryLockShared, MayRequest, CountMatchesHolders
<1>5. ASSUME NEW t \in Threads, Unlock(t) PROVE CountMatchesHolders'
  BY <1>5, UnlockKeepsCount DEF Unlock
<1>6. ASSUME NEW t \in Threads, UnlockFree(t) PROVE CountMatchesHolders'
  BY <1>6 DEF UnlockFree, BlockOnQueue, CountMatchesHolders
<1>7. ASSUME NEW t \in Threads, WakeupThread(t) PROVE CountMatchesHolders'
  BY <1>7 DEF WakeupThread, BlockOnQueue, CountMatchesHolders
<1>8. CASE SysTick
  BY <1>8 DEF SysTick, BlockOnQueue, CountMatchesHolders
<1>9. CASE UNCHANGED vars
  BY <1>9 DEF vars, CountMatchesHolders
<1> QED BY <1>1, <1>2, <1>3, <1>4, <1>5, <1>6, <1>7, <1>8, <1>9 DEF Next

\* No step leaves a sleeper unfindable, or a node linked after its frame.
LEMMA WaitStep == IInv /\ [Next]_vars => (NoLostWakeup /\ NodesUnlinked /\ SleepsUntilDeadline /\ SleepersTimed)'
<1> SUFFICES ASSUME IInv, [Next]_vars PROVE (NoLostWakeup /\ NodesUnlinked /\ SleepsUntilDeadline /\ SleepersTimed)'
  OBVIOUS
<1> USE DEF IInv, TypeInv, CallInv, NoLostWakeup, NodesUnlinked, SleepsUntilDeadline,
            SleepersTimed, Blocked, Runnable, Untimed, Entering, Resuming, Return, Continue,
            Acquire, AcquireShared, BlockOnQueue
<1>1. ASSUME NEW t \in Threads, CallStep(t) PROVE (NoLostWakeup /\ NodesUnlinked /\ SleepsUntilDeadline /\ SleepersTimed)'
  <2>1. CASE LockEnter(t)
    BY <2>1 DEF LockEnter, CanLock, CountMatchesHolders
  <2>2. CASE LockResume(t)
    <3>1. CASE m_Count = 0 /\ Acquire(t) /\ Return(t, "Success")
      BY <2>2, <3>1 DEF LockResume
    <3>2. CASE m_Count # 0
      BY <2>2, <3>2 DEF LockResume
    <3> QED BY <2>2, <3>1, <3>2 DEF LockResume
  <2>3. CASE LockSharedEnter(t)
    BY <2>3 DEF LockSharedEnter, CanLockShared
  <2>4. CASE LockSharedResume(t)
    <3>1. CASE CanLockShared /\ AcquireShared(t) /\ Return(t, "Success")
      BY <2>4, <3>1 DEF LockSharedResume, CanLockShared
    <3>2. CASE ~CanLockShared
      BY <2>4, <3>2 DEF LockSharedResume
    <3> QED BY <2>4, <3>1, <3>2 DEF LockSharedResume
  <2>5. CASE LockClockEnter(t)
    BY <2>5 DEF LockClockEnter, CanLock, CountMatchesHolders, NotTaken
  <2>6. CASE LockClockResume(t)
    BY <2>6 DEF LockClockResume
  <2>7. CASE LockSharedClockEnter(t)
    BY <2>7 DEF LockSharedClockEnter, CanLockShared, NotTaken
  <2>8. CASE LockSharedClockResume(t)
    BY <2>8 DEF LockSharedClockResume, WakeAll
  <2> QED BY <1>1, <2>1, <2>2, <2>3, <2>4, <2>5, <2>6, <2>7, <2>8 DEF CallStep
<1>2. ASSUME NEW t \in Threads, NEW r \in Requests, Call(t, r) PROVE (NoLostWakeup /\ NodesUnlinked /\ SleepsUntilDeadline /\ SleepersTimed)'
  BY <1>2 DEF Call, MayRequest
<1>3. ASSUME NEW t \in Threads, TryLock(t) PROVE (NoLostWakeup /\ NodesUnlinked /\ SleepsUntilDeadline /\ SleepersTimed)'
  BY <1>3 DEF TryLock, CanLock, CountMatchesHolders, MayRequest
<1>4. ASSUME NEW t \in Threads, TryLockShared(t) PROVE (NoLostWakeup /\ NodesUnlinked /\ SleepsUntilDeadline /\ SleepersTimed)'
  BY <1>4 DEF TryLockShared, CanLockShared, MayRequest
<1>5. ASSUME NEW t \in Threads, Unlock(t) PROVE (NoLostWakeup /\ NodesUnlinked /\ SleepsUntilDeadline /\ SleepersTimed)'
  BY <1>5 DEF Unlock, WakeAll, Released
<1>6. ASSUME NEW t \in Threads, UnlockFree(t) PROVE (NoLostWakeup /\ NodesUnlinked /\ SleepsUntilDeadline /\ SleepersTimed)'
  BY <1>6 DEF UnlockFree
<1>7. ASSUME NEW t \in Threads, WakeupThread(t) PROVE (NoLostWakeup /\ NodesUnlinked /\ SleepsUntilDeadline /\ SleepersTimed)'
  BY <1>7 DEF WakeupThread
<1>8. CASE SysTick
  BY <1>8 DEF SysTick, Due, Requests, Deadlines, Infinit
<1>9. CASE UNCHANGED vars
  BY <1>9 DEF vars
<1> QED BY <1>1, <1>2, <1>3, <1>4, <1>5, <1>6, <1>7, <1>8, <1>9 DEF Next

-----------------------------------------------------------------------------
\* Every step of the mutex, its callers and the tick preserves the invariant.
LEMMA IInvStep == IInv /\ [Next]_vars => IInv'
  BY TypeStep, CallInvStep, CountStep, WaitStep DEF IInv

(***************************************************************************)
(* The inductive invariant holds in every reachable state, for any number  *)
(* of threads, any nesting bound and any number of ticks.                  *)
(***************************************************************************)
THEOREM Invariant == Spec => []IInv
<1>1. Init => IInv
  BY InitIInv
<1>2. IInv /\ [Next]_vars => IInv'
  BY IInvStep
<1> QED BY <1>1, <1>2, PTL DEF Spec

(***************************************************************************)
(* The counter never leaves its range: MaxDepth exclusive holds of one     *)
(* thread or one shared hold of every thread.                              *)
(***************************************************************************)
THEOREM TypeCorrect == Spec => []TypeOK
<1>1. IInv => TypeOK
  <2> SUFFICES ASSUME IInv PROVE TypeOK
    OBVIOUS
  <2>1. IsFiniteSet(readers) /\ Cardinality(readers) <= Cardinality(Threads)
        /\ Cardinality(readers) \in Nat /\ Cardinality(Threads) \in Nat
    BY FS_Subset, FS_CardinalityType DEF IInv, TypeInv
  <2>2. m_Count < 0 => depth[m_Holder] \in 0..MaxDepth /\ m_Count + depth[m_Holder] = 0
    BY DEF IInv, TypeInv, CountMatchesHolders
  <2>3. m_Count >= 0 => m_Count = Cardinality(readers)
    BY DEF IInv, CountMatchesHolders
  <2>4. m_Count \in -MaxDepth..Cardinality(Threads)
    BY <2>1, <2>2, <2>3 DEF IInv, TypeInv
  <2> QED BY <2>4 DEF IInv, TypeInv, TypeOK
<1> QED BY Invariant, <1>1, PTL

(***************************************************************************)
(* Mutual exclusion of KMutex, for any number of threads: exclusive and    *)
(* shared holds never overlap and the counter is exact.                    *)
(***************************************************************************)
THEOREM MutualExclusion == Spec => []CountMatchesHolders
  BY Invariant, PTL DEF IInv

(***************************************************************************)
(* No interleaving of releases, timeouts and signals leaves a thread       *)
(* asleep beside a mutex it could take.                                    *)
(***************************************************************************)
THEOREM LostWakeupFree == Spec => []NoLostWakeup
  BY Invariant, PTL DEF IInv

(***************************************************************************)
(* No stack-allocated wait or sleep node outlives the call that linked it. *)
(***************************************************************************)
THEOREM NodeLifetime == Spec => []NodesUnlinked
  BY Invariant, PTL DEF IInv

(***************************************************************************)
(* No timed waiter oversleeps.                                             *)
(***************************************************************************)
THEOREM NoOversleep == Spec => []SleepsUntilDeadline
  BY Invariant, PTL DEF IInv
-----------------------------------------------------------------------------
(***************************************************************************)
(* Refinement: a step of the mutex grants or releases what RWLock allows,  *)
(* or changes nothing its clients see.                                     *)
(***************************************************************************)
LEMMA AcquireIsGrant ==
    ASSUME IInv, NEW t \in Threads, CanLock(t), Acquire(t),
           depth[t] = 0 \/ (Recurse /\ depth[t] < MaxDepth)
    PROVE  Abs!Grant(t)
<1>1. IsFiniteSet(readers)
  BY FS_Subset DEF IInv, TypeInv
<1>2. readers = {}
  BY <1>1, FS_EmptySet DEF IInv, TypeInv, CountMatchesHolders, CanLock
<1>3. \A u \in Threads \ {t} : depth[u] = 0
  BY DEF IInv, TypeInv, CountMatchesHolders, CanLock
<1> QED BY <1>2, <1>3 DEF Acquire, Abs!Grant

\* Taking a shared hold is granting one.
LEMMA AcquireSharedIsGrant ==
    ASSUME IInv, NEW t \in Threads, CanLockShared, AcquireShared(t), t \notin readers
    PROVE  Abs!GrantShared(t)
  BY DEF IInv, TypeInv, CountMatchesHolders, CanLockShared, AcquireShared, Abs!GrantShared

\* Every step is a step of RWLock or invisible to it.
LEMMA StepRefines == IInv /\ [Next]_vars => [Abs!AbsNext]_(Abs!absVars)
<1> SUFFICES ASSUME IInv, [Next]_vars
             PROVE  Abs!AbsNext \/ UNCHANGED <<depth, readers>>
  BY DEF Abs!absVars
<1> USE DEF Abs!AbsNext
<1>1. ASSUME NEW t \in Threads, CallStep(t)
      PROVE  Abs!AbsNext \/ UNCHANGED <<depth, readers>>
  <2>1. pc[t] # "idle"
    BY <1>1 DEF CallStep, LockEnter, LockResume, LockSharedEnter, LockSharedResume,
                LockClockEnter, LockClockResume, LockSharedClockEnter,
                LockSharedClockResume, Entering, Resuming
  <2>2. Entitled(t)
    BY <2>1 DEF IInv, CallInv
  <2>3. CASE LockEnter(t)
    BY <2>2, <2>3, AcquireIsGrant DEF LockEnter, Entering, Entitled, BlockOnQueue
  <2>4. CASE LockResume(t)
    BY <2>2, <2>4, AcquireIsGrant DEF LockResume, Resuming, Entitled, CanLock
  <2>5. CASE LockSharedEnter(t)
    BY <2>2, <2>5, AcquireSharedIsGrant DEF LockSharedEnter, Entitled, BlockOnQueue
  <2>6. CASE LockSharedResume(t)
    BY <2>2, <2>6, AcquireSharedIsGrant DEF LockSharedResume, Entitled
  <2>7. CASE LockClockEnter(t)
    BY <2>2, <2>7, AcquireIsGrant DEF LockClockEnter, Entering, Entitled, NotTaken, BlockOnQueue
  <2>8. CASE LockClockResume(t)
    BY <2>8 DEF LockClockResume
  <2>9. CASE LockSharedClockEnter(t)
    BY <2>2, <2>9, AcquireSharedIsGrant DEF LockSharedClockEnter, Entitled, NotTaken, BlockOnQueue
  <2>10. CASE LockSharedClockResume(t)
    BY <2>10 DEF LockSharedClockResume
  <2> QED BY <1>1, <2>3, <2>4, <2>5, <2>6, <2>7, <2>8, <2>9, <2>10 DEF CallStep
<1>2. ASSUME NEW t \in Threads, NEW r \in Requests, Call(t, r)
      PROVE  UNCHANGED <<depth, readers>>
  BY <1>2 DEF Call
<1>3. ASSUME NEW t \in Threads, TryLock(t)
      PROVE  Abs!AbsNext \/ UNCHANGED <<depth, readers>>
  BY <1>3, AcquireIsGrant DEF TryLock, MayRequest
<1>4. ASSUME NEW t \in Threads, TryLockShared(t)
      PROVE  Abs!AbsNext \/ UNCHANGED <<depth, readers>>
  BY <1>4, AcquireSharedIsGrant DEF TryLockShared, MayRequest
<1>5. ASSUME NEW t \in Threads, Unlock(t) PROVE Abs!AbsNext
  BY <1>5 DEF Unlock, GiveBack, Abs!Release, Abs!ReleaseShared
<1>6. ASSUME NEW t \in Threads, UnlockFree(t) PROVE UNCHANGED <<depth, readers>>
  BY <1>6 DEF UnlockFree
<1>7. ASSUME NEW t \in Threads, WakeupThread(t) PROVE UNCHANGED <<depth, readers>>
  BY <1>7 DEF WakeupThread
<1>8. CASE SysTick
  BY <1>8 DEF SysTick
<1>9. CASE UNCHANGED vars
  BY <1>9 DEF vars
<1> QED BY <1>1, <1>2, <1>3, <1>4, <1>5, <1>6, <1>7, <1>8, <1>9 DEF Next

(***************************************************************************)
(* KMutex implements the reader/writer lock RWLock.                        *)
(***************************************************************************)
THEOREM Refinement == Spec => ImplementsRWLock
<1>1. Init => Abs!AbsInit
  BY DEF Init, Abs!AbsInit
<1>2. IInv /\ [Next]_vars => [Abs!AbsNext]_(Abs!absVars)
  BY StepRefines
<1> QED BY <1>1, <1>2, Invariant, PTL DEF Spec, Abs!AbsSpec, ImplementsRWLock
-----------------------------------------------------------------------------
(***************************************************************************)
(* The semaphore, the other lock of the kernel: KSemaphore keeps its state *)
(* in members of the same names, so that the variables declared above are  *)
(* those of a semaphore here, and of a mutex in the theorems above.        *)
(***************************************************************************)
USE CountAssumption

(***************************************************************************)
(* The nodes: a sleeper is linked, a linked thread is inside its blocking  *)
(* call, once, and only calls with a deadline have a sleep node.           *)
(***************************************************************************)
SemTypeInv == /\ m_Count \in 0..SEM_VALUE_MAX
              /\ m_Holder \in Threads \cup {NoThread}
              /\ m_WaitQueue \in Seq(Threads)
              /\ sleepers \subseteq Threads
              /\ now \in 0..MaxTime
              /\ tstate \in [Threads -> {"Ready", "Waiting", "Sleeping"}]
              /\ pc \in [Threads -> {"idle", "enter", "blocked"}]
              /\ req \in [Threads -> SemRequests]
              /\ result \in SemResults

NodeInv == /\ OneNodeEach(m_WaitQueue)
           /\ \A t \in Linked(m_WaitQueue) : pc[t] = "blocked"
           /\ \A t \in sleepers : pc[t] = "blocked" /\ ~Untimed(req[t])
           /\ \A t \in Threads : Blocked(t) => t \in Linked(m_WaitQueue)
           /\ \A t \in Threads : ~req[t].clock => Untimed(req[t])

\* The threads that may come for a credit, and the credits they are to cover.
Awake == {u \in Threads : InCall(u) /\ Runnable(u)}
Covered == (\E t \in Threads : Blocked(t)) => m_Count <= Cardinality(Awake)

CreditInv == SemTypeInv /\ NodeInv /\ Covered

-----------------------------------------------------------------------------
\* Awake is a finite set.
LEMMA AwakeSize == IsFiniteSet(Awake) /\ Cardinality(Awake) \in Nat
<1>1. Awake \subseteq Threads
  BY DEF Awake
<1> QED BY <1>1, FS_Subset, FS_CardinalityType

\* The same in the next state.
LEMMA AwakeSizeNext == IsFiniteSet(Awake') /\ Cardinality(Awake') \in Nat
<1>1. Awake' \subseteq Threads
  BY DEF Awake
<1> QED BY <1>1, FS_Subset, FS_CardinalityType

\* With no credit there is nothing to cover.
LEMMA NoCredit == ASSUME m_Count' = 0 PROVE Covered'
  BY AwakeSizeNext DEF Covered

\* Somebody has come and nobody has left or gone to sleep.
LEMMA MoreAwake ==
    ASSUME Covered, m_Count \in Nat, m_Count' <= m_Count, m_Count' \in Nat, Awake \subseteq Awake',
           \A t \in Threads : Blocked(t)' => Blocked(t)
    PROVE  Covered'
<1>1. Cardinality(Awake) <= Cardinality(Awake')
  BY AwakeSizeNext, FS_Subset
<1> QED BY <1>1, AwakeSize, AwakeSizeNext DEF Covered

\* A thread that returns with a credit takes one of those it is to cover.
LEMMA TakenCredit ==
    ASSUME Covered, m_Count \in Nat, m_Count > 0, m_Count' = m_Count - 1, NEW t \in Awake,
           Awake' = Awake \ {t}, UNCHANGED tstate
    PROVE  Covered'
<1>1. Cardinality(Awake') = Cardinality(Awake) - 1
  BY AwakeSize, FS_RemoveElement
<1> QED BY <1>1, AwakeSize, AwakeSizeNext DEF Covered, Blocked

-----------------------------------------------------------------------------
\* Init satisfies the invariant.
LEMMA InitCredit ==
    ASSUME SemInit
    PROVE  CreditInv
<1>1. SemTypeInv
  BY DEF SemInit, SemTypeInv, NoSemRequest, SemRequests, Infinit, SemResults
<1>2. NodeInv
  BY EmptyLinked DEF SemInit, NodeInv, Blocked, NoSemRequest, Untimed
<1>3. Covered
  BY DEF SemInit, Covered, Blocked
<1> QED BY <1>1, <1>2, <1>3 DEF CreditInv

\* The first half of a blocking call, with or without a clock.
LEMMA EnterStep ==
    ASSUME CreditInv, NEW t \in Threads, AcquireEnter(t) \/ AcquireClockEnter(t)
    PROVE  CreditInv'
<1> USE DEF CreditInv, SemTypeInv, NodeInv, At, Take, SemReturn,
            Continue, Untimed, SemResults
<1>1. /\ pc[t] = "enter" /\ Runnable(t) /\ UNCHANGED now
      /\ t \in Awake /\ t \notin Linked(m_WaitQueue) /\ t \notin sleepers
  BY DEF AcquireEnter, AcquireClockEnter, Awake, InCall
<1>2. CASE Take(t) /\ SemReturn(t, "Success") /\ UNCHANGED <<m_WaitQueue, sleepers, tstate>>
  <2>1. SemTypeInv' /\ NodeInv'
    BY <1>1, <1>2 DEF SemRequests, NoSemRequest, Infinit, Blocked
  <2>2. Awake' = Awake \ {t}
    BY <1>2 DEF Awake, InCall, Runnable
  <2>3. Covered'
    BY <1>1, <1>2, <2>2, TakenCredit
  <2> QED BY <2>1, <2>3
<1>3. CASE m_Count = 0 /\ SemBlockOnQueue(t)
  <2>1. /\ Append(m_WaitQueue, t) \in Seq(Threads)
        /\ OneNodeEach(Append(m_WaitQueue, t))
        /\ Linked(Append(m_WaitQueue, t)) = Linked(m_WaitQueue) \cup {t}
    BY <1>1, AppendLinked
  <2>2. SemTypeInv'
    BY <1>1, <1>3, <2>1 DEF SemBlockOnQueue
  <2>3. NodeInv'
    BY <1>1, <1>3, <2>1 DEF SemBlockOnQueue, Blocked
  <2> QED BY <1>3, <2>2, <2>3, NoCredit DEF SemBlockOnQueue
<1>4. CASE /\ m_Count = 0 /\ SemReturn(t, "TIMEDOUT")
           /\ UNCHANGED <<m_Count, m_Holder, m_WaitQueue, sleepers, tstate>>
  <2>1. SemTypeInv' /\ NodeInv'
    BY <1>1, <1>4 DEF SemRequests, NoSemRequest, Infinit, Blocked
  <2> QED BY <1>4, <2>1, NoCredit
<1> QED BY <1>2, <1>3, <1>4 DEF AcquireEnter, AcquireClockEnter

\* The second half, after the switch.
LEMMA ResumeStep ==
    ASSUME CreditInv, NEW t \in Threads, AcquireResume(t) \/ AcquireClockResume(t)
    PROVE  CreditInv'
<1> USE DEF CreditInv, SemTypeInv, NodeInv, At, Take, SemReturn,
            Continue, Untimed, SemResults
<1>1. /\ pc[t] = "blocked" /\ Runnable(t) /\ t \in Awake
      /\ m_WaitQueue' = Detatch(m_WaitQueue, t)
      /\ UNCHANGED <<now, tstate>>
  BY DEF AcquireResume, AcquireClockResume, Awake, InCall
<1>2. /\ m_WaitQueue' \in Seq(Threads) /\ OneNodeEach(m_WaitQueue')
      /\ Linked(m_WaitQueue') = Linked(m_WaitQueue) \ {t}
  BY <1>1, DetatchLinked
<1>3. t \notin sleepers' /\ sleepers' \subseteq sleepers
  BY DEF AcquireResume, AcquireClockResume
<1>4. CASE Take(t) /\ SemReturn(t, "Success")
  <2>1. SemTypeInv' /\ NodeInv'
    BY <1>1, <1>2, <1>3, <1>4 DEF SemRequests, NoSemRequest, Infinit, Blocked,
                                  Runnable
  <2>2. Awake' = Awake \ {t}
    BY <1>1, <1>4 DEF Awake, InCall, Runnable
  <2> QED BY <1>1, <1>4, <2>1, <2>2, TakenCredit
<1>5. CASE Continue(t, "enter") /\ UNCHANGED <<m_Count, m_Holder>>
  <2>1. SemTypeInv' /\ NodeInv'
    BY <1>1, <1>2, <1>3, <1>5 DEF Blocked, Runnable
  <2>2. Awake' = Awake
    BY <1>1, <1>5 DEF Awake, InCall, Runnable
  <2>3. \A u \in Threads : Blocked(u)' => Blocked(u)
    BY <1>1 DEF Blocked
  <2> QED BY <1>5, <2>1, <2>2, <2>3, MoreAwake
<1> QED BY <1>4, <1>5 DEF AcquireResume, AcquireClockResume

\* A release wakes as many as there are credits, or everybody.
LEMMA ReleaseStep ==
    ASSUME CreditInv, NEW t \in Threads, Release(t)
    PROVE  CreditInv'
<1> USE DEF CreditInv, SemTypeInv, NodeInv, SemReturn, Untimed, SemResults
<1> DEFINE popped == Popped(m_WaitQueue, m_Count + 1)
<1>1. /\ pc[t] = "idle" /\ Runnable(t) /\ m_Count # SEM_VALUE_MAX
      /\ m_Count' = m_Count + 1 /\ m_Holder' = NoThread
      /\ m_WaitQueue' = Remaining(m_WaitQueue, m_Count + 1)
      /\ tstate' = Woken(tstate, popped)
      /\ pc' = [pc EXCEPT ![t] = "idle"] /\ req' = [req EXCEPT ![t] = NoSemRequest]
      /\ result' = "Success"
      /\ UNCHANGED <<sleepers, now>>
  BY DEF Release, InCall, MayRelease
<1>2. /\ m_WaitQueue' \in Seq(Threads) /\ OneNodeEach(m_WaitQueue')
      /\ Linked(m_WaitQueue') = Linked(m_WaitQueue) \ popped
      /\ popped \subseteq Linked(m_WaitQueue)
  <2>1. m_Count + 1 \in Nat
    OBVIOUS
  <2> QED BY <1>1, <2>1, PopLinked
<1>3. /\ tstate' \in [Threads -> {"Ready", "Waiting", "Sleeping"}]
      /\ \A u \in Threads : tstate'[u] = IF u \in popped THEN "Ready" ELSE tstate[u]
  BY <1>1 DEF Woken
<1>4. SemTypeInv'
  BY <1>1, <1>2, <1>3 DEF SemRequests, NoSemRequest, Infinit
<1>5. NodeInv'
  BY <1>1, <1>2, <1>3 DEF Blocked, NoSemRequest
<1>6. Covered'
  <2> SUFFICES ASSUME NEW u \in Threads, Blocked(u)' PROVE m_Count' <= Cardinality(Awake')
    BY DEF Covered
  <2>1. u \in Linked(m_WaitQueue) \ popped
    BY <1>2, <1>5 DEF Blocked
  <2>2. PopCount(m_WaitQueue, m_Count + 1) = m_Count + 1
    <3>1. Len(m_WaitQueue) \in Nat /\ \A v : v \in Linked(m_WaitQueue)
                                              <=> \E i \in 1..Len(m_WaitQueue) : m_WaitQueue[i] = v
      BY LinkedAt
    <3>2. PopCount(m_WaitQueue, m_Count + 1) # Len(m_WaitQueue)
      BY <2>1, <3>1 DEF Popped
    <3> QED BY <3>1, <3>2 DEF PopCount
  <2>3. Cardinality(popped) = m_Count + 1
    BY <2>2, QueueSize
  <2>4. popped \subseteq Awake'
    BY <1>1, <1>2, <1>3, LinkedAt DEF Awake, InCall, Runnable
  <2>5. Cardinality(popped) <= Cardinality(Awake')
    BY <2>4, AwakeSizeNext, FS_Subset
  <2> QED BY <1>1, <2>3, <2>5
<1> QED BY <1>4, <1>5, <1>6

\* Every step keeps the invariant.
LEMMA NextCredit == CreditInv /\ [SemNext]_semVars => CreditInv'
<1> SUFFICES ASSUME CreditInv, [SemNext]_semVars PROVE CreditInv'
  OBVIOUS
<1> USE DEF CreditInv, SemTypeInv, NodeInv
<1>1. CASE UNCHANGED semVars
  BY <1>1 DEF semVars, Blocked, Covered, Awake, InCall, Runnable, Untimed
<1>2. ASSUME NEW t \in Threads, SemCallStep(t) PROVE CreditInv'
  BY <1>2, EnterStep, ResumeStep DEF SemCallStep
<1>3. ASSUME NEW t \in Threads, NEW r \in SemRequests, SemCall(t, r) PROVE CreditInv'
  <2>1. SemTypeInv' /\ NodeInv'
    BY <1>3 DEF SemCall, InCall, Runnable, Blocked, SemResults, Untimed
  <2>2. Awake \subseteq Awake' /\ (\A u \in Threads : Blocked(u)' => Blocked(u))
    BY <1>3 DEF SemCall, Awake, InCall, Runnable, Blocked
  <2>3. UNCHANGED m_Count
    BY <1>3 DEF SemCall
  <2> QED BY <2>1, <2>2, <2>3, MoreAwake
<1>4. ASSUME NEW t \in Threads, TryAcquire(t) \/ ReleaseOverflow(t) PROVE CreditInv'
  <2>0. /\ pc[t] = "idle" /\ m_Count' \in 0..m_Count /\ m_Holder' \in {m_Holder, t}
        /\ pc' = [pc EXCEPT ![t] = "idle"] /\ req' = [req EXCEPT ![t] = NoSemRequest]
        /\ result' \in SemResults
        /\ UNCHANGED <<m_WaitQueue, sleepers, now, tstate>>
    BY <1>4 DEF TryAcquire, ReleaseOverflow, Take, SemReturn, InCall, SemResults
  <2>1. SemTypeInv' /\ NodeInv'
    BY <2>0 DEF Blocked, Untimed, NoSemRequest, SemRequests, Infinit
  <2>2. /\ Awake' = Awake /\ (\A u \in Threads : Blocked(u)' => Blocked(u))
        /\ m_Count' \in Nat /\ m_Count' <= m_Count
    BY <1>4 DEF TryAcquire, ReleaseOverflow, Take, SemReturn, Awake, InCall,
                Runnable, Blocked
  <2> QED BY <2>1, <2>2, MoreAwake
<1>5. ASSUME NEW t \in Threads, Release(t) PROVE CreditInv'
  BY <1>5, ReleaseStep
<1>6. ASSUME NEW t \in Threads, SemWakeupThread(t) PROVE CreditInv'
  <2>1. SemTypeInv' /\ NodeInv'
    BY <1>6 DEF SemWakeupThread, Blocked, SemResults, Untimed
  <2>2. Awake \subseteq Awake' /\ (\A u \in Threads : Blocked(u)' => Blocked(u))
    BY <1>6 DEF SemWakeupThread, Awake, InCall, Runnable, Blocked
  <2>3. UNCHANGED m_Count
    BY <1>6 DEF SemWakeupThread
  <2> QED BY <2>1, <2>2, <2>3, MoreAwake
<1>7. ASSUME SemSysTick PROVE CreditInv'
  <2>1. SemTypeInv' /\ NodeInv'
    BY <1>7 DEF SemSysTick, Due, Blocked, SemResults, Untimed
  <2>2. Awake \subseteq Awake' /\ (\A u \in Threads : Blocked(u)' => Blocked(u))
    BY <1>7 DEF SemSysTick, Due, Awake, InCall, Runnable, Blocked
  <2>3. UNCHANGED m_Count
    BY <1>7 DEF SemSysTick
  <2> QED BY <2>1, <2>2, <2>3, MoreAwake
<1> QED
  BY <1>1, <1>2, <1>3, <1>4, <1>5, <1>6, <1>7 DEF SemNext

\* The inductive invariant holds in every reachable state.
LEMMA CreditInductive == SemSpec => []CreditInv
<1>1. SemInit => CreditInv
  BY InitCredit
<1> QED BY <1>1, NextCredit, PTL DEF SemSpec

(***************************************************************************)
(* The count stays within its limits, and the wait list never has more     *)
(* nodes than there are threads.                                           *)
(***************************************************************************)
THEOREM SemaphoreTyped == SemSpec => []SemTypeOK
<1>1. CreditInv => SemTypeOK
  <2> SUFFICES ASSUME CreditInv PROVE SemTypeOK
    OBVIOUS
  <2>1. Len(m_WaitQueue) <= Cardinality(Threads)
    BY QueueSize DEF CreditInv, SemTypeInv, NodeInv
  <2> QED BY <2>1 DEF CreditInv, SemTypeInv, SemTypeOK
<1> QED BY CreditInductive, <1>1, PTL

(***************************************************************************)
(* No credit is lost: while a thread sleeps in Acquire, every credit has   *)
(* an awake thread inside the call that comes for it, and the sleeper is   *)
(* linked where Release finds it.                                          *)
(***************************************************************************)
THEOREM NoLostCredit == SemSpec => []CreditsCovered
<1>1. CreditInv => CreditsCovered
  BY DEF CreditInv, NodeInv, Covered, Awake, CreditsCovered
<1> QED BY CreditInductive, <1>1, PTL
=============================================================================
