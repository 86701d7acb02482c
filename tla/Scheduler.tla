------------------------------ MODULE Scheduler ------------------------------
(***************************************************************************)
(* The single-core scheduler (Kernel/Scheduler.cpp) and the life of a      *)
(* thread (Kernel/KThread.cpp, the reaper loop of Kernel/Startup): ready   *)
(* lists, the sleep list, context switches, spawn, exit, join, detach and  *)
(* the reaping of zombies by the init thread.                              *)
(*                                                                         *)
(* KSWITCH_CONTEXT only pends the PendSV exception.  It is taken as soon   *)
(* as interrupts are enabled, so a thread takes no step while it is        *)
(* pending, but other interrupts may come first and change the state of    *)
(* the very thread that is about to be switched away.                      *)
(***************************************************************************)
EXTENDS Integers, FiniteSets, SequencesExt, WaitQueue

CONSTANTS Threads,      \* all threads, idle and init included
          gk_IdleThread, gk_InitThread,
          NoThread,     \* no thread is being joined
          Main,         \* the first thread of the application
          Levels,       \* priority levels 0..Levels-1 (KTHREAD_PRIORITY_LEVELS)
          Level0,       \* the level each thread starts with
          MaxTime       \* bound: the clock saturates here

ASSUME ThreadsAssumption ==
    /\ IsFiniteSet(Threads) /\ NoThread \notin Threads
    /\ {gk_IdleThread, gk_InitThread, Main} \subseteq Threads
    /\ Cardinality({gk_IdleThread, gk_InitThread, Main}) = 3
ASSUME LevelsAssumption ==
    Levels \in Nat \ {0} /\ Level0 \in [Threads -> 0..Levels - 1]
ASSUME TimeAssumption == MaxTime \in Nat

VARIABLES gk_ReadyThreadLists,  \* one list of threads per priority level
          gk_CurrentThread,
          pendSV,               \* a context switch is pending
          tstate,               \* m_ThreadState
          level,                \* m_PriorityLevel
          now,                  \* s_SystemTimeNS, in ticks
          gk_SleepingThreads,   \* sleep nodes, by resume time
          resume,               \* m_ResumeTime of each thread's sleep node
          gk_ZombieThreadLists, \* detached zombies for the init thread
          threadsToDelete,      \* those it has taken over
          detached,             \* m_DetachState == PThreadDetachState_Detached
          joiners,              \* m_WaitQueue of each thread: who joins it
          joining,              \* the thread each thread is joining
          listed,               \* the PID map still names the thread
          cleanups,             \* how often its memory was given to the reaper
          pc                    \* where each thread is in a kernel call

lists == <<gk_ReadyThreadLists, tstate>>
sleep == <<now, gk_SleepingThreads, resume>>
reap == <<gk_ZombieThreadLists, threadsToDelete, detached, listed, cleanups>>
join == <<joiners, joining>>
vars == <<gk_ReadyThreadLists, gk_CurrentThread, pendSV, tstate, level, now,
          gk_SleepingThreads, resume, gk_ZombieThreadLists, threadsToDelete,
          detached, joiners, joining, listed, cleanups, pc>>

States == {"Unborn", "Ready", "Running", "Sleeping", "Waiting", "Stopped",
           "Zombie", "Deleted"}

(***************************************************************************)
(* start_scheduler: idle is running, init is ready and a switch is due.    *)
(***************************************************************************)
Init ==
    /\ gk_ReadyThreadLists =
           [l \in 0..Levels - 1 |-> IF l = Level0[gk_InitThread] THEN <<gk_InitThread>> ELSE <<>>]
    /\ gk_CurrentThread = gk_IdleThread
    /\ pendSV = TRUE
    /\ tstate = [t \in Threads |-> CASE t = gk_IdleThread -> "Running"
                                     [] t = gk_InitThread -> "Ready"
                                     [] OTHER -> "Unborn"]
    /\ level = Level0
    /\ now = 0
    /\ gk_SleepingThreads = <<>>
    /\ resume = [t \in Threads |-> 0]
    /\ gk_ZombieThreadLists = <<>>
    /\ threadsToDelete = <<>>
    /\ detached = [t \in Threads |-> TRUE]
    /\ joiners = [t \in Threads |-> <<>>]
    /\ joining = [t \in Threads |-> NoThread]
    /\ listed = {gk_IdleThread, gk_InitThread}
    /\ cleanups = [t \in Threads |-> 0]
    /\ pc = [t \in Threads |-> IF t = gk_InitThread THEN "boot" ELSE "user"]

-----------------------------------------------------------------------------
(***************************************************************************)
(* add_thread_to_ready_list for a sequence of threads, in that order, on   *)
(* given lists and states.                                                 *)
(***************************************************************************)
Enqueue(ready, threads) ==
    [l \in 0..Levels - 1 |-> ready[l] \o Those(threads, {t \in Threads : level[t] = l})]

MadeReady(state, threads) ==
    [t \in Threads |-> IF t \in Linked(threads) THEN "Ready" ELSE state[t]]

\* Those of some threads that a wake-up finds in one of these states.
InState(state, threads, states) == Those(threads, {t \in Threads : state[t] \in states})

AddToReady(threads) ==
    /\ gk_ReadyThreadLists' = Enqueue(gk_ReadyThreadLists, threads)
    /\ tstate' = MadeReady(tstate, threads)

\* The running thread executes: nothing is pending and it is at label l.
Running(t, l) == gk_CurrentThread = t /\ ~pendSV /\ pc[t] = l /\ tstate[t] = "Running"

-----------------------------------------------------------------------------
(***************************************************************************)
(* select_thread: the first thread of the highest non-empty list runs next *)
(* unless the previous one may go on and outranks it.  A thread that has   *)
(* just become a zombie is handed to init or announced to its joiners.     *)
(***************************************************************************)
Prev == gk_CurrentThread
Occupied == {l \in 0..Levels - 1 : gk_ReadyThreadLists[l] # <<>>}

\* A wrong variant: a running thread gives way to strictly higher levels only.
EligibleAbove == {l \in Occupied : tstate[Prev] # "Running" \/ l > level[Prev]}

Eligible == {l \in Occupied : tstate[Prev] # "Running" \/ l >= level[Prev]}
TopLevel == CHOOSE l \in Eligible : \A k \in Eligible : k <= l

\* The lists and states after the choice, before the zombie is dealt with.
Switched ==
    IF Eligible = {} THEN [ready |-> gk_ReadyThreadLists, state |-> tstate, next |-> Prev]
    ELSE LET next == Head(gk_ReadyThreadLists[TopLevel])
             rest == [gk_ReadyThreadLists EXCEPT ![TopLevel] = Tail(@)]
             back == IF tstate[Prev] = "Running" THEN <<Prev>> ELSE <<>>
         IN  [ready |-> Enqueue(rest, back),
              state |-> [MadeReady(tstate, back) EXCEPT ![next] = "Running"],
              next  |-> next]

\* A wrong variant: nobody tells init.
InitNotWoken(state) == <<>>

\* kwakeup_init_thread, the end of add_thread_to_zombie_list
InitWaiting(state) == IF state[gk_InitThread] = "Waiting" THEN <<gk_InitThread>> ELSE <<>>

\* A wrong variant: joiners are not told.
AnnouncedToInit(state) == IF detached[Prev] THEN InitWaiting(state) ELSE <<>>

\* Whom the death of the previous thread wakes.
Announced(state) == IF detached[Prev] THEN InitWaiting(state)
                    ELSE InState(state, joiners[Prev], {"Sleeping", "Waiting"})

SelectThread ==
    /\ pendSV
    /\ pendSV' = FALSE
    /\ gk_CurrentThread' = Switched.next
    /\ LET state == Switched.state
           dead == state[Prev] = "Zombie"
           woken == IF dead THEN Announced(state) ELSE <<>>
       IN  /\ gk_ReadyThreadLists' = Enqueue(Switched.ready, woken)
           /\ tstate' = MadeReady(state, woken)
           /\ gk_ZombieThreadLists' = IF dead /\ detached[Prev]
                                      THEN Append(gk_ZombieThreadLists, Prev)
                                      ELSE gk_ZombieThreadLists
           /\ joiners' = IF dead /\ ~detached[Prev]
                         THEN [joiners EXCEPT ![Prev] = <<>>] ELSE joiners
    /\ UNCHANGED <<level, sleep, threadsToDelete, detached, joining, listed, cleanups, pc>>

(***************************************************************************)
(* SysTick_Handler: unlinks the sleep nodes at the front of the list whose *)
(* time has come, wakes those threads that still sleep, pends a switch.    *)
(***************************************************************************)
Time == IF now < MaxTime THEN now + 1 ELSE now
DueCount == CHOOSE n \in 0..Len(gk_SleepingThreads) :
    /\ \A i \in 1..n : resume[gk_SleepingThreads[i]] <= Time
    /\ n < Len(gk_SleepingThreads) => resume[gk_SleepingThreads[n + 1]] > Time

SysTick ==
    /\ now' = Time
    /\ AddToReady(InState(tstate, SubSeq(gk_SleepingThreads, 1, DueCount), {"Sleeping"}))
    /\ gk_SleepingThreads' = SubSeq(gk_SleepingThreads, DueCount + 1, Len(gk_SleepingThreads))
    /\ pendSV' = TRUE
    /\ UNCHANGED <<gk_CurrentThread, level, resume, reap, join, pc>>

\* A wrong variant: a thread that is already awake is woken again.
WakeupStatesAny(wakeupSuspended) == {"Ready", "Sleeping", "Waiting", "Stopped"}

(***************************************************************************)
(* An interrupt or the running thread wakes t: wakeup_wait_queue on the    *)
(* queue it waits in, or wakeup_thread.  Only the first asks for a switch, *)
(* and only for a thread of a higher level.                                *)
(***************************************************************************)
WakeupStates(wakeupSuspended) ==
    {"Sleeping", "Waiting"} \cup (IF wakeupSuspended THEN {"Stopped"} ELSE {})

WakeupThread(t, wakeupSuspended) ==
    /\ tstate[t] \in WakeupStates(wakeupSuspended)
    /\ AddToReady(<<t>>)
    /\ \/ UNCHANGED pendSV
       \/ ~wakeupSuspended /\ level[t] > level[gk_CurrentThread] /\ pendSV' = TRUE
    /\ UNCHANGED <<gk_CurrentThread, level, sleep, reap, join, pc>>

-----------------------------------------------------------------------------
\* What the running thread asks the scheduler for.
Yield(t) ==
    /\ Running(t, "user")
    /\ pendSV' = TRUE
    /\ UNCHANGED <<lists, gk_CurrentThread, level, sleep, reap, join, pc>>

\* Blocking in a wait queue (mutex, semaphore, ...), and stop_thread.
Block(t, state) ==
    /\ Running(t, "user")
    /\ tstate' = [tstate EXCEPT ![t] = state]
    /\ pendSV' = TRUE
    /\ UNCHANGED <<gk_ReadyThreadLists, gk_CurrentThread, level, sleep, reap, join, pc>>

\* add_to_sleep_list: before the first node that is not due earlier.
SleepIndex(t, time) ==
    LET later == {i \in DOMAIN gk_SleepingThreads : time <= resume[gk_SleepingThreads[i]]}
    IN  IF later = {} THEN Len(gk_SleepingThreads) + 1
        ELSE CHOOSE i \in later : \A j \in later : i <= j

(***************************************************************************)
(* ksnooze_until_ns: the thread is put to sleep in a critical section, but *)
(* asks for the switch only after it, as a thread that already sleeps (or  *)
(* that the tick has already woken).                                       *)
(***************************************************************************)
Snooze(t, ticks) ==
    /\ Running(t, "user")
    /\ now + ticks + 1 <= MaxTime
    /\ resume' = [resume EXCEPT ![t] = now + ticks + 1]
    /\ gk_SleepingThreads' = InsertAt(gk_SleepingThreads, SleepIndex(t, now + ticks + 1), t)
    /\ tstate' = [tstate EXCEPT ![t] = "Sleeping"]
    /\ pc' = [pc EXCEPT ![t] = "snoozing"]
    /\ UNCHANGED <<gk_ReadyThreadLists, gk_CurrentThread, pendSV, level, now, reap, join>>

SnoozeSwitch(t) ==
    /\ gk_CurrentThread = t /\ ~pendSV /\ pc[t] = "snoozing"
    /\ pendSV' = TRUE
    /\ pc' = [pc EXCEPT ![t] = "snoozed"]
    /\ UNCHANGED <<lists, gk_CurrentThread, level, sleep, reap, join>>

\* A wrong variant: the sleep node is left to the tick.
SnoozeReturnLinked(t) ==
    /\ Running(t, "snoozed")
    /\ pc' = [pc EXCEPT ![t] = "user"]
    /\ UNCHANGED <<lists, gk_CurrentThread, pendSV, level, sleep, reap, join>>

SnoozeReturn(t) ==
    /\ Running(t, "snoozed")
    /\ gk_SleepingThreads' = Detatch(gk_SleepingThreads, t)
    /\ resume' = [resume EXCEPT ![t] = 0]
    /\ pc' = [pc EXCEPT ![t] = "user"]
    /\ UNCHANGED <<lists, gk_CurrentThread, pendSV, level, now, reap, join>>

\* kthread_set_priority_trw: a ready thread stays in the list it is in.
SetPriority(t, u, l) ==
    /\ Running(t, "user")
    /\ u \in listed /\ u # gk_IdleThread /\ tstate[u] # "Deleted" /\ level[u] # l
    /\ level' = [level EXCEPT ![u] = l]
    /\ pendSV' = (u # t /\ l > level[u])
    /\ UNCHANGED <<lists, gk_CurrentThread, sleep, reap, join, pc>>

-----------------------------------------------------------------------------
\* kthread_spawn_trw
Spawn(t, u, detach) ==
    /\ Running(t, "user")
    /\ tstate[u] = "Unborn"
    /\ AddToReady(<<u>>)
    /\ detached' = [detached EXCEPT ![u] = detach]
    /\ listed' = listed \cup {u}
    /\ UNCHANGED <<gk_CurrentThread, pendSV, level, sleep, gk_ZombieThreadLists,
                   threadsToDelete, cleanups, join, pc>>

\* kthread_exit: becomes a zombie, then asks for the switch that buries it.
Exit(t) ==
    /\ Running(t, "user")
    /\ tstate' = [tstate EXCEPT ![t] = "Zombie"]
    /\ pendSV' = TRUE
    /\ UNCHANGED <<gk_ReadyThreadLists, gk_CurrentThread, level, sleep, reap, join, pc>>

(***************************************************************************)
(* kthread_detach.  Clients detach a joinable thread nobody is joining.    *)
(***************************************************************************)
Detach(t, u) ==
    /\ Running(t, "user")
    /\ u \in listed /\ ~detached[u] /\ tstate[u] # "Deleted"
    /\ \A j \in Threads : joining[j] # u
    /\ detached' = [detached EXCEPT ![u] = TRUE]
    /\ IF tstate[u] = "Zombie"
       THEN /\ gk_ZombieThreadLists' = Append(gk_ZombieThreadLists, u)
            /\ AddToReady(InitWaiting(tstate))
       ELSE UNCHANGED <<gk_ZombieThreadLists, lists>>
    /\ UNCHANGED <<gk_CurrentThread, pendSV, level, sleep, threadsToDelete,
                   listed, cleanups, join, pc>>

(***************************************************************************)
(* kthread_join_trw.  Clients join a joinable thread, one at a time.       *)
(***************************************************************************)
Join(t, u) ==
    /\ Running(t, "user") /\ t # u
    /\ u \in listed /\ ~detached[u]
    /\ \A j \in Threads : joining[j] # u
    /\ joining' = [joining EXCEPT ![t] = u]
    /\ pc' = [pc EXCEPT ![t] = "join"]
    /\ UNCHANGED <<lists, gk_CurrentThread, pendSV, level, sleep, reap, joiners>>

\* The first critical section waits for the child to become a zombie ...
JoinWait(t) ==
    /\ Running(t, "join")
    /\ pc' = [pc EXCEPT ![t] = "joinWoken"]
    /\ IF tstate[joining[t]] # "Zombie"
       THEN /\ tstate' = [tstate EXCEPT ![t] = "Waiting"]
            /\ joiners' = [joiners EXCEPT ![joining[t]] = Append(@, t)]
            /\ pendSV' = TRUE
       ELSE UNCHANGED <<tstate, joiners, pendSV>>
    /\ UNCHANGED <<gk_ReadyThreadLists, gk_CurrentThread, level, sleep, reap, joining>>

\* A wrong variant: any wake-up counts as the death of the child.
JoinResumeTrusting(t) ==
    /\ Running(t, "joinWoken")
    /\ joiners' = [joiners EXCEPT ![joining[t]] = Detatch(@, t)]
    /\ pc' = [pc EXCEPT ![t] = "joined"]
    /\ UNCHANGED <<lists, gk_CurrentThread, pendSV, level, sleep, reap, joining>>

\* ... the second one starts over if something else woke the joiner.
JoinResume(t) ==
    /\ Running(t, "joinWoken")
    /\ joiners' = [joiners EXCEPT ![joining[t]] = Detatch(@, t)]
    /\ pc' = [pc EXCEPT ![t] = IF tstate[joining[t]] = "Zombie" THEN "joined" ELSE "join"]
    /\ UNCHANGED <<lists, gk_CurrentThread, pendSV, level, sleep, reap, joining>>

\* The joiner gives the child's memory to the reaper ...
JoinReap(t) ==
    /\ Running(t, "joined")
    /\ cleanups' = [cleanups EXCEPT ![joining[t]] = @ + 1]
    /\ pc' = [pc EXCEPT ![t] = "joinErase"]
    /\ UNCHANGED <<lists, gk_CurrentThread, pendSV, level, sleep, detached, listed,
                   gk_ZombieThreadLists, threadsToDelete, join>>

\* ... and drops it from the PID map.
JoinErase(t) ==
    /\ Running(t, "joinErase")
    /\ listed' = listed \ {joining[t]}
    /\ joining' = [joining EXCEPT ![t] = NoThread]
    /\ pc' = [pc EXCEPT ![t] = "user"]
    /\ UNCHANGED <<lists, gk_CurrentThread, pendSV, level, sleep, detached, cleanups,
                   gk_ZombieThreadLists, threadsToDelete, joiners>>

-----------------------------------------------------------------------------
(***************************************************************************)
(* init_thread_entry: spawn the main thread, then for ever take over the   *)
(* list of zombies, delete them one by one, and sleep if no new one has    *)
(* arrived meanwhile.                                                      *)
(***************************************************************************)
InitBoot ==
    /\ Running(gk_InitThread, "boot")
    /\ AddToReady(<<Main>>)
    /\ listed' = listed \cup {Main}
    /\ pc' = [pc EXCEPT ![gk_InitThread] = "collect"]
    /\ UNCHANGED <<gk_CurrentThread, pendSV, level, sleep, detached,
                   gk_ZombieThreadLists, threadsToDelete, cleanups, join>>

InitCollect ==
    /\ Running(gk_InitThread, "collect")
    /\ threadsToDelete' = threadsToDelete \o gk_ZombieThreadLists
    /\ gk_ZombieThreadLists' = <<>>
    /\ pc' = [pc EXCEPT ![gk_InitThread] = "delete"]
    /\ UNCHANGED <<lists, gk_CurrentThread, pendSV, level, sleep, detached, listed,
                   cleanups, join>>

\* A wrong variant: the zombie stays in the list.
InitDeleteKeeps ==
    /\ Running(gk_InitThread, "delete")
    /\ threadsToDelete # <<>>
    /\ LET zombie == Head(threadsToDelete)
       IN  /\ tstate' = [tstate EXCEPT ![zombie] = "Deleted"]
           /\ cleanups' = [cleanups EXCEPT ![zombie] = @ + 1]
    /\ pc' = [pc EXCEPT ![gk_InitThread] = "erase"]
    /\ UNCHANGED <<gk_ReadyThreadLists, gk_CurrentThread, pendSV, level, sleep,
                   detached, listed, gk_ZombieThreadLists, threadsToDelete, join>>

InitDelete ==
    /\ Running(gk_InitThread, "delete")
    /\ threadsToDelete # <<>>
    /\ LET zombie == Head(threadsToDelete)
       IN  /\ tstate' = [tstate EXCEPT ![zombie] = "Deleted"]
           /\ cleanups' = [cleanups EXCEPT ![zombie] = @ + 1]
    /\ threadsToDelete' = Tail(threadsToDelete)
    /\ pc' = [pc EXCEPT ![gk_InitThread] = "erase"]
    /\ UNCHANGED <<gk_ReadyThreadLists, gk_CurrentThread, pendSV, level, sleep,
                   detached, listed, gk_ZombieThreadLists, join>>

\* The deleted thread, the only one the PID map still names, leaves the map.
InitErase ==
    /\ Running(gk_InitThread, "erase")
    /\ listed' = {t \in listed : tstate[t] # "Deleted"}
    /\ pc' = [pc EXCEPT ![gk_InitThread] = "delete"]
    /\ UNCHANGED <<lists, gk_CurrentThread, pendSV, level, sleep, detached, cleanups,
                   gk_ZombieThreadLists, threadsToDelete, join>>

\* The PID map is locked: init waits in the middle of its work.  A zombie that
\* arrives now wakes it too early, and it goes on waiting for the mutex.
InitLockWait ==
    /\ Running(gk_InitThread, "erase")
    /\ tstate' = [tstate EXCEPT ![gk_InitThread] = "Waiting"]
    /\ pendSV' = TRUE
    /\ UNCHANGED <<gk_ReadyThreadLists, gk_CurrentThread, level, sleep, reap, join, pc>>

\* ... until its holder releases it.
InitLockReleased == pc[gk_InitThread] = "erase" /\ WakeupThread(gk_InitThread, FALSE)

InitDeleted ==
    /\ Running(gk_InitThread, "delete")
    /\ threadsToDelete = <<>>
    /\ pc' = [pc EXCEPT ![gk_InitThread] = "idle"]
    /\ UNCHANGED <<lists, gk_CurrentThread, pendSV, level, sleep, reap, join>>

\* A wrong variant: init goes to sleep without looking at the list again.
MaySleepAlways == TRUE

MaySleep == gk_ZombieThreadLists = <<>>

InitSleep ==
    /\ Running(gk_InitThread, "idle")
    /\ pc' = [pc EXCEPT ![gk_InitThread] = "collect"]
    /\ IF MaySleep
       THEN tstate' = [tstate EXCEPT ![gk_InitThread] = "Waiting"] /\ pendSV' = TRUE
       ELSE UNCHANGED <<tstate, pendSV>>
    /\ UNCHANGED <<gk_ReadyThreadLists, gk_CurrentThread, level, sleep, reap, join>>

-----------------------------------------------------------------------------
InitLoop == InitBoot \/ InitCollect \/ InitDelete \/ InitErase \/ InitDeleted \/ InitSleep

\* The steps of a kernel call that was begun.
InKernel(t) == \/ SnoozeSwitch(t) \/ SnoozeReturn(t)
               \/ JoinWait(t) \/ JoinResume(t) \/ JoinReap(t) \/ JoinErase(t)

\* What a thread may choose to do; the idle thread only spins.
User(t) == /\ t # gk_IdleThread
           /\ \/ Yield(t)
              \/ \E s \in {"Waiting", "Stopped"} : Block(t, s)
              \/ \E n \in 0..1 : Snooze(t, n)
              \/ \E u \in Threads, l \in 0..Levels - 1 : SetPriority(t, u, l)
              \/ \E u \in Threads \ {Main}, d \in BOOLEAN : Spawn(t, u, d)
              \/ Exit(t)
              \/ \E u \in Threads : Detach(t, u) \/ Join(t, u)

Next == \/ SelectThread
        \/ SysTick
        \/ \E t \in Threads, s \in BOOLEAN : WakeupThread(t, s)
        \/ \E t \in Threads : InKernel(t) \/ User(t)
        \/ InitLoop
        \/ InitLockWait

Spec == Init /\ [][Next]_vars

(***************************************************************************)
(* Fairness: a pending exception is taken, the tick keeps coming, a thread *)
(* that gets the processor again and again (for a tick of 1 ms at a time)  *)
(* makes progress in the kernel code it is in, and the mutex of the PID    *)
(* map, which is held for short sections only, is released.                *)
(***************************************************************************)
FairSpec == /\ Spec
            /\ WF_vars(SelectThread)
            /\ WF_vars(SysTick)
            /\ SF_vars(InitLoop)
            /\ WF_vars(InitLockReleased)
            /\ \A t \in Threads : SF_vars(InKernel(t))

-----------------------------------------------------------------------------
TypeOK ==
    /\ gk_ReadyThreadLists \in [0..Levels - 1 -> Seq(Threads)]
    /\ gk_CurrentThread \in Threads
    /\ pendSV \in BOOLEAN
    /\ tstate \in [Threads -> States]
    /\ level \in [Threads -> 0..Levels - 1]
    /\ now \in 0..MaxTime
    /\ gk_SleepingThreads \in Seq(Threads)
    /\ resume \in [Threads -> 0..MaxTime]
    /\ gk_ZombieThreadLists \in Seq(Threads)
    /\ threadsToDelete \in Seq(Threads)
    /\ detached \in [Threads -> BOOLEAN]
    /\ joiners \in [Threads -> Seq(Threads)]
    /\ joining \in [Threads -> Threads \cup {NoThread}]
    /\ listed \subseteq Threads
    /\ cleanups \in [Threads -> 0..1]    \* given back once at most
    /\ pc \in [Threads -> {"boot", "collect", "delete", "erase", "idle", "user", "snoozing",
                           "snoozed", "join", "joinWoken", "joined", "joinErase"}]

(***************************************************************************)
(* Every ready thread is in exactly one ready list, once, and nobody else  *)
(* is in any: no interleaving of wake-ups, ticks and switches loses a      *)
(* thread or links it twice (which PIntrusiveList::Append asserts).  Only  *)
(* the current thread is running, and it is, unless a switch is due or it  *)
(* is on its way into a snooze.                                            *)
(***************************************************************************)
Places(t) == {p \in {<<l, i>> : l \in 0..Levels - 1, i \in 1..Cardinality(Threads)} :
                 p[2] <= Len(gk_ReadyThreadLists[p[1]]) /\ gk_ReadyThreadLists[p[1]][p[2]] = t}
ReadyListsExact ==
    /\ \A t \in Threads :
           /\ Cardinality(Places(t)) = IF tstate[t] = "Ready" THEN 1 ELSE 0
           /\ tstate[t] = "Running" => t = gk_CurrentThread
    /\ tstate[gk_CurrentThread] # "Running" =>
           pendSV \/ pc[gk_CurrentThread] = "snoozing"

(***************************************************************************)
(* The sleep list is in order, which is what lets the tick stop at the     *)
(* first node that is not due, every sleeping thread is in it with a time  *)
(* still to come, and no node outlives the ksnooze_until_ns that owns it:  *)
(* nobody oversleeps, and no tick touches a stack frame that is gone.      *)
(***************************************************************************)
SleepListExact ==
    /\ \A i, j \in DOMAIN gk_SleepingThreads :
           i < j => resume[gk_SleepingThreads[i]] <= resume[gk_SleepingThreads[j]]
    /\ \A t \in Threads : tstate[t] = "Sleeping" =>
           t \in Linked(gk_SleepingThreads) /\ now < resume[t]
    /\ \A t \in Linked(gk_SleepingThreads) : pc[t] \in {"snoozing", "snoozed"}

(***************************************************************************)
(* The init thread never sleeps at the end of its loop while a detached    *)
(* zombie waits for it, whether the zombie came before, during or after    *)
(* its last look at the list, or while init waited for a mutex.            *)
(***************************************************************************)
InitSeesZombies ==
    gk_ZombieThreadLists # <<>> /\ pc[gk_InitThread] # "erase" =>
        tstate[gk_InitThread] # "Waiting"

(***************************************************************************)
(* The memory of a thread goes to the reaper only after its last step, and *)
(* never while it is still current; the PID map names it until then.  A    *)
(* zombie is queued for deletion at most once, and only if nobody will     *)
(* join it; a joinable one is left for its joiner.                         *)
(***************************************************************************)
ReapedAfterDeath ==
    LET queued == gk_ZombieThreadLists \o threadsToDelete
    IN  /\ \A t \in Threads :
               /\ cleanups[t] > 0 => tstate[t] \in {"Zombie", "Deleted"} /\ t # gk_CurrentThread
               /\ tstate[t] # "Unborn" /\ cleanups[t] = 0 => t \in listed
        /\ \A i, j \in DOMAIN queued : queued[i] = queued[j] => i = j
        /\ \A i \in DOMAIN queued :
               /\ tstate[queued[i]] = "Zombie" /\ detached[queued[i]]
               /\ \A j \in Threads : joining[j] # queued[i]

(***************************************************************************)
(* A joiner does not sleep beside a child that is gone.                    *)
(***************************************************************************)
JoinerWoken ==
    \A t \in Threads :
        /\ joining[t] # NoThread /\ tstate[t] = "Waiting"
        /\ tstate[joining[t]] \in {"Zombie", "Deleted"}
        => joining[t] = gk_CurrentThread /\ pendSV

\* Round robin: a ready thread gets the processor (all threads on one level).
ReadyRuns == \A t \in Threads : tstate[t] = "Ready" ~> tstate[t] = "Running"

\* A detached thread that has exited is eventually deleted by init.
ZombiesDeleted ==
    \A t \in Threads : (tstate[t] = "Zombie" /\ detached[t]) ~> tstate[t] = "Deleted"
=============================================================================
