------------------------------ MODULE KProcess ------------------------------
(***************************************************************************)
(* Processes (Kernel/KProcess.cpp): birth, threads that come and go, stop, *)
(* continue and kill (KPosixSignals.cpp), exit with the children handed to *)
(* the kernel process, waitid, and the init thread that reaps what it      *)
(* inherits (KStartup.cpp).  Operations hold g_PIDMapMutex.  But a thread  *)
(* is stopped and takes a signal with the scheduler lock only, and the     *)
(* exit status of a process is read and written without any lock: where    *)
(* SetExitStatus runs in a thread, and where waitid reports a child, the   *)
(* look and the write are two steps.                                       *)
(***************************************************************************)
EXTENDS WaitQueue, FiniteSets

CONSTANTS Procs, Threads,
          gk_KernelProcess,     \* parent of the first process and of the orphans
          First,                \* the process main_thread_entry runs in
          Owner,                \* the process each thread is for
          MainThread,           \* the first thread of each process
          Detached,             \* threads nobody joins
          Asynchronous,         \* threads that may be cancelled at any point
          Exiting,              \* threads whose program calls exit()
          Spawns, Waits,        \* processes the program of a process starts, its waitid calls
          ANY,                  \* P_ALL
          NULL,
          Signalled, MaxSignals \* bounds: processes kill() is called for, number of calls

User == Procs \ {gk_KernelProcess}

ASSUME ProcessAssumption ==
    /\ gk_KernelProcess \in Procs /\ First \in User
    /\ IsFiniteSet(Procs) /\ IsFiniteSet(Threads) /\ NULL \notin Procs \cup Threads
    /\ Owner \in [Threads -> User]
    /\ MainThread \in [User -> Threads] /\ \A p \in User : Owner[MainThread[p]] = p
    /\ Detached \subseteq Threads /\ Asynchronous \subseteq Threads /\ Exiting \subseteq Threads
    /\ Spawns \in [User -> SUBSET User]
    /\ \A p \in User : Waits[p] \subseteq
           [id : User \cup {ANY},
            options : SUBSET {"EXITED", "STOPPED", "CONTINUED", "NOHANG", "NOWAIT"}]
    /\ Signalled \subseteq User /\ MaxSignals \in Nat

VARIABLES g_PIDMapMutex,            \* its holder between two steps
          pidNode,                  \* processes the PID map leads to
          m_State, m_Parent, m_Children, m_Threads,
          si_code,                  \* m_ExitInfo.si_code
          m_StoppedThreadCount, m_ThreadsToStop,
          m_ChildrenCondition,      \* threads whose wait node is linked, in order
          tstate, pc,               \* scheduler state of each thread, and where it is
          pending,                  \* SIGKILL and SIGSTOP not yet taken
          canceled,                 \* IsCanceled
          want,                     \* the waitid call a thread is in
          found,                    \* the child it is about to report
          cur,                      \* the si_code SetExitStatus has read, for each thread
          sender,                   \* who has the mutex in kill(SIGSTOP) or kill(SIGCONT)
          init,                     \* where the init thread is
          sent,                     \* kill() calls so far
          panicked                  \* a kassert failed and the kernel stopped

treeVars == <<pidNode, m_Parent, m_Children>>
stopVars == <<m_StoppedThreadCount, m_ThreadsToStop>>
readVars == <<found, cur, sender, panicked>>
vars == <<g_PIDMapMutex, treeVars, stopVars, m_State, m_Threads, si_code, m_ChildrenCondition,
          tstate, pc, pending, canceled, want, readVars, init, sent>>

ProcStates == {"Unborn", "Running", "Stopping", "Stopped", "Continuing", "Continued", "Zombie"}
Death == {"EXITED", "KILLED"}       \* CLD_DUMPED is set like CLD_KILLED
Codes == {"0", "STOPPED", "CONTINUED"} \cup Death
Idle == [proc |-> gk_KernelProcess, code |-> "0", cur |-> "0"]

Init ==
    /\ g_PIDMapMutex = NULL
    /\ pidNode = {First, gk_KernelProcess}
    /\ m_State = [p \in Procs |-> IF p \in pidNode THEN "Running" ELSE "Unborn"]
    /\ m_Parent = [p \in Procs |-> IF p = First THEN gk_KernelProcess ELSE NULL]
    /\ m_Children = [p \in Procs |-> IF p = gk_KernelProcess THEN <<First>> ELSE <<>>]
    /\ m_Threads = [p \in Procs |-> IF p = First THEN {MainThread[First]} ELSE {}]
    /\ si_code = [p \in Procs |-> "0"]
    /\ m_StoppedThreadCount = [p \in Procs |-> 0]
    /\ m_ThreadsToStop = [p \in Procs |-> 0]
    /\ m_ChildrenCondition = [p \in Procs |-> <<>>]
    /\ tstate = [t \in Threads |-> IF t = MainThread[First] THEN "Ready" ELSE "Unborn"]
    /\ pc = [t \in Threads |-> "user"]
    /\ pending = [t \in Threads |-> {}]
    /\ canceled = {}
    /\ want = [t \in Threads |-> NULL]
    /\ found = NULL /\ cur = [t \in Threads |-> "0"] /\ sender = Idle
    /\ init = "Waiting"
    /\ sent = 0
    /\ panicked = FALSE

MutexFree == g_PIDMapMutex = NULL /\ sender.code = "0"
At(t, labels) == tstate[t] = "Ready" /\ pc[t] \in labels
Goto(t, label) == pc' = [pc EXCEPT ![t] = label]

-----------------------------------------------------------------------------
(* Waking threads *)

\* wakeup_thread for every thread of S: with `suspended' also stopped ones.
WokenThreads(ts, S, suspended) ==
    [t \in Threads |-> IF t \in S /\ ts[t] \in {"Waiting"} \cup (IF suspended THEN {"Stopped"} ELSE {})
                       THEN "Ready" ELSE ts[t]]

\* A wrong variant: the thread is woken, its wait node stays linked.
NotifyKeepsNode(q, ts) ==
    LET queue == m_ChildrenCondition[q]
    IN  /\ tstate' = WokenThreads(ts, IF queue = <<>> THEN {} ELSE {Head(queue)}, FALSE)
        /\ UNCHANGED m_ChildrenCondition

\* m_ChildrenCondition.Wakeup(1), and SIGCHLD for the parent (with SA_NOCLDSTOP maybe not):
\* whichever of its threads the signal goes to is woken, and will queue itself again.
Notify(q, ts) ==
    LET queue == m_ChildrenCondition[q]
        first == IF queue = <<>> THEN {} ELSE {Head(queue)}
    IN  /\ m_ChildrenCondition' = [m_ChildrenCondition EXCEPT ![q] = IF @ = <<>> THEN @ ELSE Tail(@)]
        /\ \E signalled \in {{}} \cup {{t} : t \in m_Threads[q]} :
               tstate' = WokenThreads(ts, first \cup signalled, FALSE)

\* The write of SetExitStatus, when `read' is the status it has seen.
SetExitStatus(p, read, code) ==
    si_code' = [si_code EXCEPT ![p] = IF read \in Death THEN @ ELSE code]

\* ThreadContinued for each stopped thread of S, which are made ready.
Resume(p, S, state) ==
    LET stopped == {t \in S : tstate[t] = "Stopped"}
        last == stopped # {} /\ m_StoppedThreadCount[p] = Cardinality(stopped)
        ts == WokenThreads(tstate, S, TRUE)
    IN  /\ m_StoppedThreadCount' = [m_StoppedThreadCount EXCEPT ![p] = @ - Cardinality(stopped)]
        /\ IF state = "Continuing" /\ last
           THEN m_State' = [m_State EXCEPT ![p] = "Continued"] /\ Notify(m_Parent[p], ts)
           ELSE /\ m_State' = [m_State EXCEPT ![p] = state]
                /\ tstate' = ts /\ UNCHANGED m_ChildrenCondition

-----------------------------------------------------------------------------
(* Birth *)

\* A thread of p starts a process c with one thread.
SpawnProcess(t, c) ==
    LET p == Owner[t]
    IN  /\ At(t, {"user"}) /\ MutexFree
        /\ m_State[c] = "Unborn"
        /\ pidNode' = pidNode \cup {c}
        /\ m_State' = [m_State EXCEPT ![c] = "Running"]
        /\ m_Parent' = [m_Parent EXCEPT ![c] = p]
        /\ m_Children' = [m_Children EXCEPT ![p] = Append(@, c)]
        /\ m_Threads' = [m_Threads EXCEPT ![c] = {MainThread[c]}]
        /\ tstate' = [tstate EXCEPT ![MainThread[c]] = "Ready"]
        /\ UNCHANGED <<g_PIDMapMutex, stopVars, si_code, m_ChildrenCondition, pc, pending,
                       canceled, want, readVars, init, sent>>

\* The constructor of KThreadCB throws.  The child is in m_Children already, and the scope
\* guard erases its PID node only: its destructor finds it in a session, and panics.
SpawnFails(t, c) ==
    LET p == Owner[t]
    IN  /\ At(t, {"user"}) /\ MutexFree
        /\ m_State[c] = "Unborn"
        /\ m_State' = [m_State EXCEPT ![c] = "Destroyed"]
        /\ m_Parent' = [m_Parent EXCEPT ![c] = p]
        /\ m_Children' = [m_Children EXCEPT ![p] = Append(@, c)]
        /\ panicked' = TRUE
        /\ UNCHANGED <<g_PIDMapMutex, pidNode, stopVars, m_Threads, si_code, m_ChildrenCondition,
                       tstate, pc, pending, canceled, want, found, cur, sender, init, sent>>

\* A thread starts another one in its own process.
AddThread(t, u) ==
    /\ At(t, {"user"}) /\ MutexFree
    /\ Owner[u] = Owner[t] /\ tstate[u] = "Unborn"
    /\ m_Threads' = [m_Threads EXCEPT ![Owner[t]] = @ \cup {u}]
    /\ tstate' = [tstate EXCEPT ![u] = "Ready"]
    /\ UNCHANGED <<g_PIDMapMutex, treeVars, stopVars, m_State, si_code, m_ChildrenCondition, pc,
                   pending, canceled, want, readVars, init, sent>>

-----------------------------------------------------------------------------
(* Signals *)

\* kill(p, SIGSTOP) and kill(p, SIGCONT), up to the look at the status.
Send(p, code, states) ==
    /\ MutexFree /\ p \in pidNode /\ sent < MaxSignals /\ sent' = sent + 1
    /\ m_State[p] \in states
    /\ sender' = [proc |-> p, code |-> code, cur |-> si_code[p]]
    /\ UNCHANGED <<g_PIDMapMutex, treeVars, stopVars, m_State, m_Threads, si_code,
                   m_ChildrenCondition, tstate, pc, pending, canceled, want, found, cur, init,
                   panicked>>

StopProcess(p) == Send(p, "STOPPED", ProcStates \ {"Stopping", "Stopped"})
ContinueProcess(p) == Send(p, "CONTINUED", {"Stopping", "Stopped"})

\* The rest of SIGSTOP: every thread of the process has to stop.
StopThreads ==
    LET p == sender.proc
    IN  /\ sender.code = "STOPPED"
        /\ SetExitStatus(p, sender.cur, "STOPPED")
        /\ m_State' = [m_State EXCEPT ![p] = "Stopping"]
        /\ m_ThreadsToStop' = [m_ThreadsToStop EXCEPT ![p] = Cardinality(m_Threads[p])]
        /\ pending' = [t \in Threads |-> pending[t] \cup (IF t \in m_Threads[p] THEN {"STOP"} ELSE {})]
        /\ tstate' = WokenThreads(tstate, m_Threads[p], FALSE)
        /\ sender' = Idle
        /\ UNCHANGED <<g_PIDMapMutex, treeVars, m_StoppedThreadCount, m_Threads,
                       m_ChildrenCondition, pc, canceled, want, found, cur, init, sent, panicked>>

\* The rest of SIGCONT: the SIGSTOP a thread has not taken yet stays pending.
ContinueThreads ==
    LET p == sender.proc
    IN  /\ sender.code = "CONTINUED"
        /\ SetExitStatus(p, sender.cur, "CONTINUED")
        /\ m_ThreadsToStop' = [m_ThreadsToStop EXCEPT ![p] = 0]
        /\ Resume(p, m_Threads[p], "Continuing")
        /\ sender' = Idle
        /\ UNCHANGED <<g_PIDMapMutex, treeVars, m_Threads, pc, pending, canceled, want, found, cur,
                       init, sent, panicked>>

\* kill(p, SIGKILL)
Kill(p) ==
    /\ MutexFree /\ p \in pidNode /\ sent < MaxSignals /\ sent' = sent + 1
    /\ pending' = [t \in Threads |-> pending[t] \cup (IF t \in m_Threads[p] THEN {"KILL"} ELSE {})]
    /\ Resume(p, m_Threads[p], m_State[p])
    /\ UNCHANGED <<g_PIDMapMutex, treeVars, m_ThreadsToStop, m_Threads, si_code, pc, canceled, want,
                   readVars, init>>

\* A thread on its way to user mode takes SIGKILL: signal_terminate_thread will end it.
\* This runs in the handler of an exception, and no thread in between.
TakeKill(t) ==
    /\ At(t, {"user", "dying"}) /\ "KILL" \in pending[t]
    /\ pending' = [pending EXCEPT ![t] = @ \ {"KILL"}]
    /\ SetExitStatus(Owner[t], si_code[Owner[t]], "KILLED")
    /\ Goto(t, "dying")
    /\ UNCHANGED <<g_PIDMapMutex, treeVars, stopVars, m_State, m_Threads, m_ChildrenCondition,
                   tstate, canceled, want, readVars, init, sent>>

\* It takes SIGSTOP: stop_thread, and ThreadStopped under the scheduler lock alone.
TakeStop(t) ==
    LET p == Owner[t]
        ts == [tstate EXCEPT ![t] = "Stopped"]
    IN  /\ At(t, {"user", "dying"}) /\ pending[t] = {"STOP"}
        /\ pending' = [pending EXCEPT ![t] = {}]
        /\ m_StoppedThreadCount' = [m_StoppedThreadCount EXCEPT ![p] = @ + 1]
        /\ IF m_State[p] = "Stopping" /\ m_StoppedThreadCount[p] + 1 = m_ThreadsToStop[p]
           THEN m_State' = [m_State EXCEPT ![p] = "Stopped"] /\ Notify(m_Parent[p], ts)
           ELSE tstate' = ts /\ UNCHANGED <<m_State, m_ChildrenCondition>>
        /\ UNCHANGED <<g_PIDMapMutex, treeVars, m_ThreadsToStop, m_Threads, si_code, pc, canceled,
                       want, readVars, init, sent>>

-----------------------------------------------------------------------------
(* Exit *)

\* kexit, up to the look at the status.
Exit(t) ==
    /\ t \in Exiting /\ At(t, {"user"}) /\ MutexFree
    /\ g_PIDMapMutex' = t
    /\ cur' = [cur EXCEPT ![t] = si_code[Owner[t]]]
    /\ Goto(t, "kexit")
    /\ UNCHANGED <<treeVars, stopVars, m_State, m_Threads, si_code, m_ChildrenCondition, tstate,
                   pending, canceled, want, found, sender, init, sent, panicked>>

\* The rest of kexit: the other threads are cancelled, which wakes also those that are
\* stopped, and ends at once those that may be cancelled at any point.
CancelThreads(t) ==
    LET p == Owner[t]
        others == {u \in m_Threads[p] \ {t} : u \notin canceled}
    IN  /\ At(t, {"kexit"})
        /\ SetExitStatus(p, cur[t], "EXITED")
        /\ cur' = [cur EXCEPT ![t] = "0"]
        /\ canceled' = canceled \cup others
        /\ pending' = [u \in Threads |-> pending[u] \cup
                          (IF u \in others \cap Asynchronous THEN {"KILL"} ELSE {})]
        /\ Resume(p, others, m_State[p])
        /\ g_PIDMapMutex' = NULL
        /\ Goto(t, "dying")
        /\ UNCHANGED <<treeVars, m_ThreadsToStop, m_Threads, want, found, sender, init, sent,
                       panicked>>

\* A thread returns from its function, or finds out that it has been cancelled.
Finish(t) ==
    /\ At(t, {"user"})
    /\ Goto(t, "dying")
    /\ UNCHANGED <<g_PIDMapMutex, treeVars, stopVars, m_State, m_Threads, si_code,
                   m_ChildrenCondition, tstate, pending, canceled, want, readVars, init, sent>>

\* kthread_exit, without any lock: the main thread looks at the status ...
ThreadExit(t) ==
    /\ At(t, {"dying"})
    /\ IF t = MainThread[Owner[t]]
       THEN cur' = [cur EXCEPT ![t] = si_code[Owner[t]]] /\ Goto(t, "status")
       ELSE Goto(t, "exiting") /\ UNCHANGED cur
    /\ UNCHANGED <<g_PIDMapMutex, treeVars, stopVars, m_State, m_Threads, si_code,
                   m_ChildrenCondition, tstate, pending, canceled, want, found, sender, init, sent,
                   panicked>>

\* ... and sets it.
MainThreadExit(t) ==
    /\ At(t, {"status"})
    /\ SetExitStatus(Owner[t], cur[t], "EXITED")
    /\ cur' = [cur EXCEPT ![t] = "0"]
    /\ Goto(t, "exiting")
    /\ UNCHANGED <<g_PIDMapMutex, treeVars, stopVars, m_State, m_Threads, m_ChildrenCondition,
                   tstate, pending, canceled, want, found, sender, init, sent, panicked>>

WakeInit == init' = IF init = "Waiting" THEN "collect" ELSE init

\* A wrong variant: the children keep their parent.
HandleExitKeepsParent(p) ==
    /\ IF m_Children[p] = <<>> THEN UNCHANGED <<m_Children, init>>
       ELSE /\ m_Children' = [m_Children EXCEPT ![gk_KernelProcess] = @ \o m_Children[p], ![p] = <<>>]
            /\ WakeInit
    /\ UNCHANGED m_Parent
    /\ si_code' = [si_code EXCEPT ![p] = IF @ = "0" THEN "KILLED" ELSE @]
    /\ m_State' = [m_State EXCEPT ![p] = "Zombie"]
    /\ Notify(m_Parent[p], tstate)

\* The last thread is gone: the children go to the kernel process, the parent is told.
HandleExit(p) ==
    /\ IF m_Children[p] = <<>> THEN UNCHANGED <<m_Children, m_Parent, init>>
       ELSE /\ m_Children' = [m_Children EXCEPT ![gk_KernelProcess] = @ \o m_Children[p], ![p] = <<>>]
            /\ m_Parent' = [c \in Procs |-> IF c \in Linked(m_Children[p]) THEN gk_KernelProcess
                                            ELSE m_Parent[c]]
            /\ WakeInit
    /\ si_code' = [si_code EXCEPT ![p] = IF @ = "0" THEN "KILLED" ELSE @]
    /\ m_State' = [m_State EXCEPT ![p] = "Zombie"]
    /\ Notify(m_Parent[p], tstate)

\* A wrong variant: a thread leaves its process without the mutex of the PID map.
RemoveThreadUnlocked(t) ==
    LET p == Owner[t]
    IN  /\ At(t, {"exiting"})
        /\ m_Threads' = [m_Threads EXCEPT ![p] = @ \ {t}]
        /\ IF m_Threads[p] = {t} THEN HandleExit(p)
           ELSE UNCHANGED <<m_Children, m_Parent, init, si_code, m_State, m_ChildrenCondition, tstate>>
        /\ Goto(t, "exited")
        /\ UNCHANGED <<g_PIDMapMutex, pidNode, stopVars, pending, canceled, want, readVars, sent>>

RemoveThread(t) ==
    LET p == Owner[t]
    IN  /\ At(t, {"exiting"}) /\ MutexFree
        /\ m_Threads' = [m_Threads EXCEPT ![p] = @ \ {t}]
        /\ IF m_Threads[p] = {t} THEN HandleExit(p)
           ELSE UNCHANGED <<m_Children, m_Parent, init, si_code, m_State, m_ChildrenCondition, tstate>>
        /\ Goto(t, "exited")
        /\ UNCHANGED <<g_PIDMapMutex, pidNode, stopVars, pending, canceled, want, readVars, sent>>

\* The thread becomes a zombie, its signals are of no more use; init is woken for one
\* that nobody joins.
ThreadGone(t) ==
    /\ At(t, {"exited"})
    /\ tstate' = [tstate EXCEPT ![t] = "Zombie"]
    /\ pending' = [pending EXCEPT ![t] = {}]
    /\ canceled' = canceled \ {t}
    /\ IF t \in Detached THEN WakeInit ELSE UNCHANGED init
    /\ UNCHANGED <<g_PIDMapMutex, treeVars, stopVars, m_State, m_Threads, si_code,
                   m_ChildrenCondition, pc, want, readVars, sent>>

-----------------------------------------------------------------------------
(* waitid *)

\* What WaitGID finds reportable: the state alone.
ReadyGID(c, options) ==
    \/ "EXITED" \in options /\ m_State[c] = "Zombie"
    \/ "STOPPED" \in options /\ m_State[c] = "Stopped"
    \/ "CONTINUED" \in options /\ m_State[c] = "Continued"

\* What WaitPID finds reportable.
ReadyPID(c, options) ==
    \/ "EXITED" \in options /\ m_State[c] = "Zombie"
    \/ "STOPPED" \in options /\ m_State[c] = "Stopped" /\ si_code[c] = "STOPPED"
    \/ "CONTINUED" \in options /\ m_State[c] = "Continued" /\ si_code[c] = "CONTINUED"

\* The children of p that the call may report, in the order it looks at them.
Reportable(p, w) ==
    IF w.id = ANY THEN Those(m_Children[p], {c \in User : ReadyGID(c, w.options)})
    ELSE IF ReadyPID(w.id, w.options) THEN <<w.id>> ELSE <<>>

HasChild(p, w) ==
    IF w.id = ANY THEN m_Children[p] # <<>> ELSE w.id \in pidNode /\ m_Parent[w.id] = p

\* RemoveChild, and the PID map forgets the process.
Reap(p, c) ==
    /\ m_Children' = [m_Children EXCEPT ![p] = Detatch(@, c)]
    /\ m_Parent' = [m_Parent EXCEPT ![c] = NULL]
    /\ pidNode' = pidNode \ {c}

\* GetChildInfo has the mutex, but that does not keep the status from being set.
GetChildInfo(p, c, options) ==
    IF "NOWAIT" \in options THEN UNCHANGED <<treeVars, m_State, si_code>>
    ELSE IF m_State[c] = "Zombie" THEN Reap(p, c) /\ UNCHANGED <<m_State, si_code>>
    ELSE /\ si_code' = [si_code EXCEPT ![c] = "0"]
         /\ m_State' = [m_State EXCEPT ![c] = IF @ = "Continued" THEN "Running" ELSE @]
         /\ UNCHANGED treeVars

\* One turn of the loop of WaitPID or WaitGID, the mutex held: it finds a child to report,
\* or returns without one, or is going to wait.
Look(t, w) ==
    LET p == Owner[t]
        ready == Reportable(p, w)
        finds == HasChild(p, w) /\ ready # <<>>
        sleeps == HasChild(p, w) /\ ready = <<>> /\ "NOHANG" \notin w.options
    IN  /\ found' = IF finds THEN Head(ready) ELSE NULL
        /\ Goto(t, IF finds THEN "found" ELSE IF sleeps THEN "looked" ELSE "user")
        /\ g_PIDMapMutex' = IF finds \/ sleeps THEN t ELSE NULL
        /\ want' = [want EXCEPT ![t] = IF finds \/ sleeps THEN w ELSE NULL]
        /\ UNCHANGED <<treeVars, stopVars, m_State, m_Threads, si_code, m_ChildrenCondition, tstate,
                       pending, canceled, cur, sender, init, sent, panicked>>

Wait(t, w) == At(t, {"user"}) /\ MutexFree /\ Look(t, w)

LookAgain(t) == At(t, {"again"}) /\ Look(t, want[t])

\* The child is reported, and the mutex released.
Report(t) ==
    /\ At(t, {"found"})
    /\ GetChildInfo(Owner[t], found, want[t].options)
    /\ found' = NULL
    /\ Goto(t, "user")
    /\ g_PIDMapMutex' = NULL
    /\ want' = [want EXCEPT ![t] = NULL]
    /\ UNCHANGED <<stopVars, m_Threads, m_ChildrenCondition, tstate, pending, canceled, cur, sender,
                   init, sent, panicked>>

\* WaitCancelable: a cancelled thread is sent back at once, and the loop does not
\* look at the result; anybody else is queued and gives the mutex back.
Sleep(t) ==
    /\ At(t, {"looked"})
    /\ IF t \in canceled
       THEN Goto(t, "again") /\ UNCHANGED <<m_ChildrenCondition, tstate, g_PIDMapMutex>>
       ELSE /\ m_ChildrenCondition' = [m_ChildrenCondition EXCEPT ![Owner[t]] = Append(@, t)]
            /\ tstate' = [tstate EXCEPT ![t] = "Waiting"]
            /\ g_PIDMapMutex' = NULL
            /\ Goto(t, "asleep")
    /\ UNCHANGED <<treeVars, stopVars, m_State, m_Threads, si_code, pending, canceled, want,
                   readVars, init, sent>>

\* Awake again, with the mutex: a thread whose node is still linked was woken by a
\* signal, and goes back to sleep without a look at the children.
Awake(t) ==
    LET linked == t \in Linked(m_ChildrenCondition[Owner[t]])
    IN  /\ At(t, {"asleep"}) /\ MutexFree
        /\ g_PIDMapMutex' = t
        /\ m_ChildrenCondition' = [m_ChildrenCondition EXCEPT ![Owner[t]] = Detatch(@, t)]
        /\ Goto(t, IF linked THEN "looked" ELSE "again")
        /\ UNCHANGED <<treeVars, stopVars, m_State, m_Threads, si_code, tstate, pending, canceled,
                       want, readVars, init, sent>>

-----------------------------------------------------------------------------
\* The init thread: it deletes the zombie threads nobody joins, reaps the children it has
\* inherited one by one, and sleeps unless another zombie thread has arrived meanwhile.  The
\* threads are deleted together with the first turn of the loop over the children.
ZombieThreads == {t \in Detached : tstate[t] = "Zombie"}

InitReap ==
    LET zombies == Those(m_Children[gk_KernelProcess], {c \in User : m_State[c] = "Zombie"})
    IN  /\ init \in {"collect", "reap"} /\ MutexFree
        /\ tstate' = [t \in Threads |-> IF init = "collect" /\ t \in ZombieThreads
                                        THEN "Deleted" ELSE tstate[t]]
        /\ IF zombies # <<>> THEN Reap(gk_KernelProcess, Head(zombies)) /\ init' = "reap"
           ELSE init' = "reaped" /\ UNCHANGED treeVars
        /\ UNCHANGED <<g_PIDMapMutex, stopVars, m_State, m_Threads, si_code, m_ChildrenCondition,
                       pc, pending, canceled, want, readVars, sent>>

InitSleep ==
    /\ init = "reaped"
    /\ init' = IF ZombieThreads = {} THEN "Waiting" ELSE "collect"
    /\ UNCHANGED <<g_PIDMapMutex, treeVars, stopVars, m_State, m_Threads, si_code,
                   m_ChildrenCondition, tstate, pc, pending, canceled, want, readVars, sent>>

Step(t) == \/ \E c \in Spawns[Owner[t]] : SpawnProcess(t, c) \/ SpawnFails(t, c)
           \/ \E u \in Threads : AddThread(t, u)
           \/ TakeKill(t) \/ TakeStop(t)
           \/ Exit(t) \/ CancelThreads(t) \/ Finish(t)
           \/ ThreadExit(t) \/ MainThreadExit(t) \/ RemoveThread(t) \/ ThreadGone(t)
           \/ \E w \in Waits[Owner[t]] : Wait(t, w)
           \/ LookAgain(t) \/ Report(t) \/ Sleep(t) \/ Awake(t)

Next == /\ ~panicked
        /\ \/ \E t \in Threads : Step(t)
           \/ \E p \in Signalled : StopProcess(p) \/ ContinueProcess(p) \/ Kill(p)
           \/ StopThreads
           \/ ContinueThreads
           \/ InitReap
           \/ InitSleep

Spec == Init /\ [][Next]_vars

-----------------------------------------------------------------------------
TypeOK ==
    /\ g_PIDMapMutex \in Threads \cup {NULL}
    /\ pidNode \subseteq Procs
    /\ m_State \in [Procs -> ProcStates \cup {"Destroyed"}]
    /\ m_Parent \in [Procs -> Procs \cup {NULL}]
    /\ m_Children \in [Procs -> Seq(User)]
    /\ m_Threads \in [Procs -> SUBSET Threads]
    /\ si_code \in [Procs -> Codes]
    /\ m_ChildrenCondition \in [Procs -> Seq(Threads)]
    /\ tstate \in [Threads -> {"Unborn", "Ready", "Waiting", "Stopped", "Zombie", "Deleted"}]
    /\ pc \in [Threads -> {"user", "kexit", "dying", "status", "exiting", "exited", "looked",
                           "again", "found", "asleep"}]
    /\ pending \in [Threads -> SUBSET {"KILL", "STOP"}]
    /\ canceled \subseteq Threads
    /\ found \in User \cup {NULL}
    /\ cur \in [Threads -> Codes]
    /\ sender \in [proc : Procs, code : {"0", "STOPPED", "CONTINUED"}, cur : Codes]
    /\ init \in {"Waiting", "collect", "reap", "reaped"}
    /\ sent \in 0..MaxSignals
    /\ panicked \in BOOLEAN
    /\ \A p \in Procs : m_StoppedThreadCount[p] = Cardinality({t \in m_Threads[p] : tstate[t] = "Stopped"})

(***************************************************************************)
(* The family tree: a process the PID map leads to is in the list of its   *)
(* parent, once, and in no other; the parent is in the map too, and is not *)
(* dead; a process that has been reaped is in no list and has no children. *)
(* So every orphan has a living parent, and nobody is reaped twice.  The   *)
(* one exception: when a process is started and its thread cannot be, the  *)
(* list of the parent has a child that the map does not lead to, and the   *)
(* kernel has panicked in the destructor of that child.                    *)
(***************************************************************************)
FamilyTree ==
    /\ TypeOK
    /\ \A c \in User :
           /\ \A p \in Procs : Cardinality({i \in DOMAIN m_Children[p] : m_Children[p][i] = c}) =
                                   IF m_Parent[c] = p THEN 1 ELSE 0
           /\ c \in pidNode <=> m_Parent[c] # NULL /\ m_State[c] # "Destroyed"
           /\ c \in pidNode => m_Parent[c] = gk_KernelProcess \/ m_Threads[m_Parent[c]] # {}
    /\ panicked <=> \E c \in User : m_State[c] = "Destroyed"

(***************************************************************************)
(* What is told of the dead is final.  While a process lives its exit      *)
(* status can be lost: SIGSTOP, SIGCONT, kexit and kthread_exit write what *)
(* they decided upon an older status, and waitid resets the one of a child *)
(* that it found stopped.  But those who do so to another process have the *)
(* mutex its last thread needs to leave: a dead process has a status, and  *)
(* if it says how the process ended, no signal, wait or exit changes it.   *)
(***************************************************************************)
Dead(p) == m_State[p] \notin {"Unborn", "Destroyed"} /\ m_Threads[p] = {}
DeadKeepsStatus ==
    [][\A p \in User : Dead(p) =>
           /\ si_code[p] # "0"
           /\ si_code[p] \in Death => si_code'[p] = si_code[p]]_vars

(***************************************************************************)
(* Where all calls of a program wait for the exit of any child, a thread   *)
(* sleeps in waitid beside children that have exited only while as many    *)
(* others of its process are on their way to look, or to report: every     *)
(* exit wakes one, and SIGCHLD, which only makes a thread queue itself     *)
(* again, cannot lose the wake-up.                                         *)
(***************************************************************************)
Looking(p) == {t \in m_Threads[p] : /\ pc[t] \in {"asleep", "again", "found"}
                                    /\ t \notin Linked(m_ChildrenCondition[p])}
WaiterSeesExit ==
    \A t \in Threads :
        LET p == Owner[t]
        IN  /\ tstate[t] = "Waiting"
            /\ \A w \in Waits[p] : w.id = ANY /\ w.options \ {"NOHANG"} = {"EXITED"}
            => Cardinality({i \in DOMAIN m_Children[p] : m_State[m_Children[p][i]] = "Zombie"})
                   <= Cardinality(Looking(p))
=============================================================================
