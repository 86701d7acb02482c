-------------------------- MODULE KProcess_proofs ---------------------------
(***************************************************************************)
(* Theorems about the processes, for every set of processes and threads,   *)
(* whatever they start, signal and wait for: the family tree, the status   *)
(* of the dead, and no exit that a thread in waitid sleeps through.        *)
(***************************************************************************)
EXTENDS KProcess, WaitQueue_proofs

USE ProcessAssumption

Labels == {"user", "kexit", "dying", "status", "exiting", "exited", "looked", "again", "found", "asleep"}

\* The types while the kernel runs: no process has been destroyed at birth.
TypeInv ==
    /\ g_PIDMapMutex \in Threads \cup {NULL}
    /\ pidNode \subseteq Procs
    /\ m_State \in [Procs -> ProcStates]
    /\ m_Parent \in [Procs -> Procs \cup {NULL}]
    /\ m_Children \in [Procs -> Seq(User)]
    /\ m_Threads \in [Procs -> SUBSET Threads]
    /\ si_code \in [Procs -> Codes]
    /\ m_StoppedThreadCount \in [Procs -> Int]
    /\ m_ChildrenCondition \in [Procs -> Seq(Threads)]
    /\ tstate \in [Threads -> {"Unborn", "Ready", "Waiting", "Stopped", "Zombie", "Deleted"}]
    /\ pc \in [Threads -> Labels]
    /\ pending \in [Threads -> SUBSET {"KILL", "STOP"}]
    /\ canceled \subseteq Threads
    /\ DOMAIN want = Threads
    /\ found \in User \cup {NULL}
    /\ cur \in [Threads -> Codes]
    /\ sender \in [proc : Procs, code : {"0", "STOPPED", "CONTINUED"}, cur : Codes]
    /\ init \in {"Waiting", "collect", "reap", "reaped"}
    /\ sent \in 0..MaxSignals
    /\ panicked = FALSE

\* A process has the threads that have been started for it and have not left it.
Members(p) == {t \in Threads : Owner[t] = p /\ tstate[t] # "Unborn" /\ pc[t] # "exited"}

\* Where a thread can be in each state; waitid keeps the mutex while it looks, kexit its own.
ThreadInv ==
    /\ \A p \in Procs : m_Threads[p] = Members(p)
    /\ \A t \in Threads :
          /\ tstate[t] = "Unborn" => pc[t] = "user"
          /\ tstate[t] = "Waiting" => t \in Linked(m_ChildrenCondition[Owner[t]])
          /\ tstate[t] = "Stopped" => pc[t] \in {"user", "dying"}
          /\ tstate[t] \in {"Zombie", "Deleted"} => pc[t] = "exited"
          /\ pc[t] \in {"looked", "again", "found", "kexit"} => g_PIDMapMutex = t
          /\ pc[t] \in {"looked", "again", "found", "asleep"} => want[t] \in Waits[Owner[t]]

\* Those whose node is linked in m_ChildrenCondition are asleep in waitid.
QueueInv ==
    \A p \in Procs : /\ OneNodeEach(m_ChildrenCondition[p])
                     /\ \A t \in Linked(m_ChildrenCondition[p]) : Owner[t] = p /\ pc[t] = "asleep"

\* A process that has not been started has nothing, one that is dead has no threads.
ProcInv ==
    \A p \in User :
        /\ m_State[p] = "Unborn" => p \notin pidNode /\ \A t \in Threads : Owner[t] = p => tstate[t] = "Unborn"
        /\ m_State[p] # "Unborn" => tstate[MainThread[p]] # "Unborn"
        /\ m_State[p] = "Zombie" => m_Threads[p] = {}
        /\ m_Threads[p] # {} => p \in pidNode

\* The lists of children are those of the parents.
TreeInv ==
    /\ m_Parent[gk_KernelProcess] = NULL
    /\ \A p \in Procs : /\ OneNodeEach(m_Children[p])
                        /\ Linked(m_Children[p]) = {c \in User : m_Parent[c] = p}
    /\ \A c \in User :
           /\ c \in pidNode <=> m_Parent[c] # NULL
           /\ c \in pidNode => m_Parent[c] = gk_KernelProcess \/ m_Threads[m_Parent[c]] # {}

StoppedOf(p) == {t \in m_Threads[p] : tstate[t] = "Stopped"}
StopInv == \A p \in Procs : m_StoppedThreadCount[p] = Cardinality(StoppedOf(p))

\* The kill() that has the mutex is for a process the map leads to.
SenderInv == sender.code # "0" =>
    g_PIDMapMutex = NULL /\ sender.proc \in User /\ sender.proc \in pidNode

\* The dead have a status, are never stopped, and whoever writes theirs has seen it.
DeadInv ==
    \A p \in User : m_Threads[p] = {} /\ m_State[p] # "Unborn" =>
        /\ si_code[p] # "0" /\ m_State[p] \in {"Zombie", "Stopping", "Continuing"}
        /\ sender.code # "0" /\ sender.proc = p => sender.cur = si_code[p]

\* Every exit that nobody has reaped has woken a thread of the parent, if one slept.
ExitWaits(p) == \A w \in Waits[p] : w.id = ANY /\ w.options \ {"NOHANG"} = {"EXITED"}
Zombies(p) == {c \in User : m_Parent[c] = p /\ m_State[c] = "Zombie"}
Sleepers(p) == {t \in Threads : Owner[t] = p /\ pc[t] = "looked"} \cup Linked(m_ChildrenCondition[p])
ExitInv == \A p \in User : ExitWaits(p) /\ Sleepers(p) # {} =>
               Cardinality(Zombies(p)) <= Cardinality(Looking(p))

\* What waitid has found stays a child, and alive or dead, until it is reported.
FoundInv ==
    \A t \in Threads : pc[t] = "found" =>
        /\ found \in User /\ m_Parent[found] = Owner[t]
        /\ m_State[found] = "Zombie" \/ m_Threads[found] # {}
        /\ ExitWaits(Owner[t]) => m_State[found] = "Zombie"

IInv == /\ TypeInv /\ ThreadInv /\ QueueInv /\ ProcInv /\ TreeInv /\ StopInv
        /\ SenderInv /\ DeadInv /\ FoundInv /\ ExitInv

-----------------------------------------------------------------------------
(* Lists, sizes and the conjuncts that most steps keep *)

\* The positions of a list with an element of a set, and those elements.
LEMMA Positions ==
    ASSUME NEW S, IsFiniteSet(S), NEW s \in Seq(S), OneNodeEach(s), NEW P
    PROVE  Cardinality({i \in DOMAIN s : s[i] \in P}) = Cardinality(Linked(s) \cap P)
<1> DEFINE at == {i \in DOMAIN s : s[i] \in P}
           f == [i \in at |-> s[i]]
<1>1. /\ Len(s) \in Nat /\ DOMAIN s = 1..Len(s) /\ Linked(s) \subseteq S
      /\ \A x : x \in Linked(s) <=> \E i \in 1..Len(s) : s[i] = x
  BY LinkedAt
<1>2. IsFiniteSet(at)
  <2>1. IsFiniteSet(1..Len(s)) /\ at \subseteq 1..Len(s)
    BY <1>1, FS_Interval
  <2> HIDE DEF at
  <2> QED BY <2>1, FS_Subset
<1>3. f \in Bijection(at, Linked(s) \cap P)
  <2>1. f \in [at -> Linked(s) \cap P]
    BY <1>1
  <2>2. \A i, j \in at : f[i] = f[j] => i = j
    BY <1>1 DEF OneNodeEach
  <2>3. \A x \in Linked(s) \cap P : \E i \in at : f[i] = x
    BY <1>1
  <2> HIDE DEF f, at
  <2> QED BY <2>1, <2>2, <2>3 DEF Bijection, Injection, Surjection, IsInjective
<1> HIDE DEF at
<1> QED BY <1>2, <1>3, FS_Bijection DEF ExistsBijection, at

\* A set without one element.
LEMMA OneLess ==
    ASSUME NEW S, IsFiniteSet(S), NEW x
    PROVE  /\ IsFiniteSet(S \ {x}) /\ Cardinality(S \ {x}) \in Nat /\ Cardinality(S) \in Nat
           /\ Cardinality(S \ {x}) >= Cardinality(S) - 1
           /\ x \in S => Cardinality(S \ {x}) = Cardinality(S) - 1
<1>1. PICK n, m : n = Cardinality(S) /\ m = Cardinality(S \ {x})
  OBVIOUS
<1>2. IsFiniteSet(S \ {x}) /\ m = IF x \in S THEN n - 1 ELSE n
  BY <1>1, FS_RemoveElement
<1>3. n \in Nat /\ m \in Nat
  BY <1>1, <1>2, FS_CardinalityType
<1> QED BY <1>1, <1>2, <1>3

\* The sets that are counted are finite.
LEMMA Sizes ==
    ASSUME TypeInv, NEW p \in Procs
    PROVE  /\ IsFiniteSet(StoppedOf(p)) /\ Cardinality(StoppedOf(p)) \in Nat
           /\ IsFiniteSet(Looking(p)) /\ Cardinality(Looking(p)) \in Nat
           /\ IsFiniteSet(Zombies(p)) /\ Cardinality(Zombies(p)) \in Nat
<1>1. StoppedOf(p) \subseteq Threads /\ Looking(p) \subseteq Threads /\ Zombies(p) \subseteq Procs
  BY DEF TypeInv, StoppedOf, Looking, Zombies, User
<1> QED BY <1>1, FS_Subset, FS_CardinalityType

\* The same, after a step.
LEMMA SizesPrime ==
    ASSUME TypeInv', NEW p \in Procs
    PROVE  /\ IsFiniteSet(StoppedOf(p)') /\ Cardinality(StoppedOf(p)') \in Nat
           /\ IsFiniteSet(Looking(p)') /\ Cardinality(Looking(p)') \in Nat
           /\ IsFiniteSet(Zombies(p)') /\ Cardinality(Zombies(p)') \in Nat
<1>1. StoppedOf(p)' \subseteq Threads /\ Looking(p)' \subseteq Threads /\ Zombies(p)' \subseteq Procs
  BY DEF TypeInv, StoppedOf, Looking, Zombies, User
<1> QED BY <1>1, FS_Subset, FS_CardinalityType

\* No step but an exit and those of waitid can break ExitInv.
LEMMA ExitKept ==
    ASSUME IInv, TypeInv', NEW p \in User,
           Zombies(p)' \subseteq Zombies(p), Looking(p) \subseteq Looking(p)',
           Sleepers(p)' \subseteq Sleepers(p), ExitWaits(p), Sleepers(p)' # {}
    PROVE  Cardinality(Zombies(p)') <= Cardinality(Looking(p)')
<1>1. p \in Procs /\ TypeInv /\ Sleepers(p) # {}
  BY DEF User, IInv
<1>2. Cardinality(Zombies(p)) <= Cardinality(Looking(p))
  BY <1>1 DEF IInv, ExitInv
<1>3. Cardinality(Zombies(p)') <= Cardinality(Zombies(p))
  BY <1>1, Sizes, FS_Subset
<1>4. Cardinality(Looking(p)) <= Cardinality(Looking(p)')
  BY <1>1, SizesPrime, FS_Subset
<1> QED BY <1>1, <1>2, <1>3, <1>4, Sizes, SizesPrime

\* A thread that is ready and has not left is one of its process, which is alive.
LEMMA ReadyIsMember ==
    ASSUME IInv, NEW t \in Threads, tstate[t] = "Ready", pc[t] # "exited"
    PROVE  /\ Owner[t] \in User /\ Owner[t] \in Procs /\ Owner[t] # gk_KernelProcess
           /\ t \in m_Threads[Owner[t]] /\ Owner[t] \in pidNode /\ m_Parent[Owner[t]] \in Procs
           /\ m_State[Owner[t]] \notin {"Unborn", "Zombie"}
<1>1. Owner[t] \in User /\ Owner[t] \in Procs /\ Owner[t] # gk_KernelProcess
  BY DEF User
<1>2. t \in m_Threads[Owner[t]]
  BY <1>1 DEF IInv, ThreadInv, Members
<1>3. Owner[t] \in pidNode
  BY <1>1, <1>2 DEF IInv, ProcInv
<1>4. m_Parent[Owner[t]] \in Procs
  BY <1>1, <1>3 DEF IInv, TreeInv, TypeInv
<1> QED BY <1>1, <1>2, <1>3, <1>4 DEF IInv, ProcInv

\* While the mutex is free nobody looks, reports or exits.
LEMMA NobodyHolds ==
    ASSUME IInv, g_PIDMapMutex = NULL
    PROVE  \A t \in Threads : pc[t] \notin {"looked", "again", "found", "kexit"}
  BY DEF IInv, ThreadInv

\* A process the map leads to has a parent, or is the kernel's.
LEMMA ParentKnown ==
    ASSUME IInv, NEW p \in pidNode, p \in User
    PROVE  m_Parent[p] \in Procs /\ m_State[p] # "Unborn"
  BY DEF IInv, TreeInv, TypeInv, ProcInv, User

\* The first process has just been started.
LEMMA InitIInv == Init => IInv
<1> SUFFICES ASSUME Init PROVE IInv
  OBVIOUS
<1>1. /\ <<First>> \in Seq(User) /\ OneNodeEach(<<First>>) /\ Linked(<<First>>) = {First}
      /\ <<>> \in Seq(User) /\ <<>> \in Seq(Threads) /\ Linked(<<>>) = {} /\ OneNodeEach(<<>>)
  BY SingleLinked, EmptyLinked
<1>2. MainThread[First] \in Threads /\ Owner[MainThread[First]] = First /\ First \in Procs
      /\ First # gk_KernelProcess /\ First # NULL /\ gk_KernelProcess # NULL
  BY DEF User
<1>3. TypeInv
  BY <1>1, <1>2 DEF Init, TypeInv, ProcStates, Labels, Codes, Idle
<1>4. ThreadInv
  <2>1. ASSUME NEW p \in Procs PROVE m_Threads[p] = Members(p)
    BY <1>2 DEF Init, Members
  <2> QED BY <2>1 DEF Init, ThreadInv
<1>5. QueueInv
  BY <1>1 DEF Init, QueueInv
<1>6. ProcInv
  BY <1>2 DEF Init, ProcInv, User
<1>7. TreeInv
  <2>1. m_Parent[gk_KernelProcess] = NULL
    BY <1>2 DEF Init
  <2>2. ASSUME NEW p \in Procs
        PROVE  OneNodeEach(m_Children[p]) /\ Linked(m_Children[p]) = {c \in User : m_Parent[c] = p}
    BY <1>1, <1>2 DEF Init, User
  <2> QED BY <1>2, <2>1, <2>2 DEF Init, TreeInv, User
<1>8. StopInv
  <2>1. \A p \in Procs : StoppedOf(p) = {}
    BY DEF Init, StoppedOf
  <2> QED BY <2>1, FS_EmptySet DEF Init, StopInv
<1>9. SenderInv /\ DeadInv /\ FoundInv
  BY <1>2 DEF Init, SenderInv, DeadInv, FoundInv, Idle, User
<1>10. ExitInv
  <2>1. \A p \in User : Sleepers(p) = {}
    BY <1>1 DEF Init, Sleepers, User
  <2> QED BY <2>1 DEF ExitInv
<1> QED BY <1>3, <1>4, <1>5, <1>6, <1>7, <1>8, <1>9, <1>10 DEF IInv

-----------------------------------------------------------------------------
(* Waking threads *)

TStates == {"Unborn", "Ready", "Waiting", "Stopped", "Zombie", "Deleted"}

\* The queues with some nodes unlinked.
Unlinks(P) == /\ m_ChildrenCondition' \in [Procs -> Seq(Threads)]
              /\ \A p \in Procs : /\ OneNodeEach(m_ChildrenCondition'[p])
                                  /\ Linked(m_ChildrenCondition'[p]) = Linked(m_ChildrenCondition[p]) \ P

\* The states ts of the threads with some sleepers awake.
Wakes(ts) == /\ tstate' \in [Threads -> TStates]
             /\ \A t \in Threads : \/ tstate'[t] = ts[t]
                                   \/ ts[t] = "Waiting" /\ tstate'[t] = "Ready"

\* Nothing is unlinked.
LEMMA KeepsNodes ==
    ASSUME IInv, UNCHANGED m_ChildrenCondition
    PROVE  Unlinks({})
  BY DEF Unlinks, IInv, TypeInv, QueueInv

\* Notify unlinks the first node, if there is one, and its thread is awake.
LEMMA NotifyWakes ==
    ASSUME IInv, NEW q \in Procs, NEW ts \in [Threads -> TStates], Notify(q, ts)
    PROVE  \E P \in SUBSET Linked(m_ChildrenCondition[q]) :
              /\ m_ChildrenCondition[q] # <<>> => P # {}
              /\ Unlinks(P) /\ Wakes(ts)
              /\ \A t \in P : tstate'[t] # "Waiting"
<1>1. PICK queue, first : /\ queue = m_ChildrenCondition[q]
                          /\ first = IF queue = <<>> THEN {} ELSE {Head(queue)}
  OBVIOUS
<1>2. /\ m_ChildrenCondition' = [m_ChildrenCondition EXCEPT ![q] = IF queue = <<>> THEN queue ELSE Tail(queue)]
      /\ \E signalled : tstate' = WokenThreads(ts, first \cup signalled, FALSE)
  BY <1>1 DEF Notify
<1>3. /\ m_ChildrenCondition \in [Procs -> Seq(Threads)] /\ queue \in Seq(Threads) /\ OneNodeEach(queue)
      /\ \A p \in Procs : OneNodeEach(m_ChildrenCondition[p])
      /\ \A p \in Procs : \A t \in Linked(m_ChildrenCondition[p]) : Owner[t] = p
  BY <1>1 DEF IInv, TypeInv, QueueInv
<1>4. Wakes(ts) /\ \A t \in first \cap Threads : tstate'[t] # "Waiting"
  <2>1. PICK signalled : tstate' = WokenThreads(ts, first \cup signalled, FALSE)
    BY <1>2
  <2>2. PICK S : S = first \cup signalled
    OBVIOUS
  <2>3. /\ tstate' \in [Threads -> TStates]
        /\ \A t \in Threads : tstate'[t] = IF t \in S /\ ts[t] = "Waiting" THEN "Ready" ELSE ts[t]
    <3>1. /\ ts \in [Threads -> TStates]
          /\ tstate' = [t \in Threads |->
                          IF t \in S /\ ts[t] \in {"Waiting"} \cup (IF FALSE THEN {"Stopped"} ELSE {})
                          THEN "Ready" ELSE ts[t]]
      BY <2>1, <2>2 DEF WokenThreads
    <3> QED BY <3>1 DEF TStates
  <2> QED BY <2>2, <2>3 DEF Wakes
<1>5. CASE queue = <<>>
  <2>1. m_ChildrenCondition' = m_ChildrenCondition
    BY <1>1, <1>2, <1>3, <1>5
  <2>2. Unlinks({})
    BY <2>1, KeepsNodes
  <2> QED BY <1>1, <1>4, <1>5, <2>2
<1>6. CASE queue # <<>>
  <2>1. /\ Head(queue) \in Linked(queue) /\ Tail(queue) \in Seq(Threads) /\ OneNodeEach(Tail(queue))
        /\ Linked(Tail(queue)) = Linked(queue) \ {Head(queue)}
    BY <1>3, <1>6, TailLinked
  <2>2. m_ChildrenCondition' = [m_ChildrenCondition EXCEPT ![q] = Tail(queue)] /\ first = {Head(queue)}
    BY <1>1, <1>2, <1>6
  <2>3. m_ChildrenCondition' \in [Procs -> Seq(Threads)]
    BY <1>3, <2>1, <2>2
  <2>4. ASSUME NEW p \in Procs
        PROVE  /\ OneNodeEach(m_ChildrenCondition'[p])
               /\ Linked(m_ChildrenCondition'[p]) = Linked(m_ChildrenCondition[p]) \ {Head(queue)}
    <3>1. CASE p = q
      BY <1>1, <1>3, <2>1, <2>2, <3>1
    <3>2. CASE p # q
      <4>1. m_ChildrenCondition'[p] = m_ChildrenCondition[p]
        BY <1>3, <2>2, <3>2
      <4>2. Head(queue) \notin Linked(m_ChildrenCondition[p])
        BY <1>1, <1>3, <2>1, <3>2
      <4> QED BY <1>3, <4>1, <4>2
    <3> QED BY <3>1, <3>2
  <2>5. Unlinks({Head(queue)})
    BY <2>3, <2>4 DEF Unlinks
  <2>6. Head(queue) \in Threads
    BY <1>3, <2>1, LinkedAt
  <2>7. tstate'[Head(queue)] # "Waiting"
    BY <1>4, <2>2, <2>6
  <2>8. {Head(queue)} \in SUBSET Linked(m_ChildrenCondition[q]) /\ {Head(queue)} # {}
    BY <1>1, <2>1
  <2>9. \A t \in {Head(queue)} : tstate'[t] # "Waiting"
    BY <2>7
  <2> QED BY ONLY <1>4, <2>5, <2>8, <2>9
<1> QED BY <1>5, <1>6

(***************************************************************************)
(* The steps that start no process and no thread, end none, and are none   *)
(* of waitid: signals, and threads that are on their way out.              *)
(***************************************************************************)
Quiet ==
    /\ UNCHANGED <<pidNode, m_Parent, m_Children, m_Threads, want, found>>
    /\ \E P : Unlinks(P) /\ \A t \in P : tstate'[t] # "Waiting"
    /\ \A t \in Threads :
          /\ \/ pc'[t] = pc[t]
             \/ /\ pc[t] \in {"user", "kexit", "dying", "status"}
                /\ pc'[t] \in {"kexit", "dying", "status", "exiting"}
                /\ tstate[t] = "Ready" /\ tstate'[t] = "Ready"
          /\ pc'[t] \in {"looked", "again", "found", "kexit"} =>
                 g_PIDMapMutex' = t \/ (pc'[t] = pc[t] /\ g_PIDMapMutex' = g_PIDMapMutex)
          /\ \/ tstate'[t] = tstate[t]
             \/ tstate[t] \in {"Waiting", "Stopped"} /\ tstate'[t] = "Ready"
             \/ tstate[t] = "Ready" /\ tstate'[t] = "Stopped" /\ pc[t] \in {"user", "dying"}
    /\ \A p \in User : /\ m_State'[p] = "Unborn" <=> m_State[p] = "Unborn"
                       /\ m_State'[p] = "Zombie" => m_State[p] = "Zombie"
    /\ \/ \A t \in Threads : pc[t] # "found"
       \/ \A p \in User : m_State[p] = "Zombie" => m_State'[p] = "Zombie"

\* What they keep.
LEMMA QuietStep ==
    ASSUME IInv, Quiet, TypeInv'
    PROVE  ThreadInv' /\ QueueInv' /\ ProcInv' /\ TreeInv' /\ FoundInv' /\ ExitInv'
<1>1. TypeInv /\ ThreadInv /\ QueueInv /\ ProcInv /\ TreeInv /\ FoundInv
  BY DEF IInv
<1>2. /\ UNCHANGED <<pidNode, m_Parent, m_Children, m_Threads, want, found>>
      /\ \A t \in Threads :
          /\ \/ pc'[t] = pc[t]
             \/ /\ pc[t] \in {"user", "kexit", "dying", "status"}
                /\ pc'[t] \in {"kexit", "dying", "status", "exiting"}
                /\ tstate[t] = "Ready" /\ tstate'[t] = "Ready"
          /\ pc'[t] \in {"looked", "again", "found", "kexit"} =>
                 g_PIDMapMutex' = t \/ (pc'[t] = pc[t] /\ g_PIDMapMutex' = g_PIDMapMutex)
          /\ \/ tstate'[t] = tstate[t]
             \/ tstate[t] \in {"Waiting", "Stopped"} /\ tstate'[t] = "Ready"
             \/ tstate[t] = "Ready" /\ tstate'[t] = "Stopped" /\ pc[t] \in {"user", "dying"}
      /\ \A p \in User : /\ m_State'[p] = "Unborn" <=> m_State[p] = "Unborn"
                         /\ m_State'[p] = "Zombie" => m_State[p] = "Zombie"
  BY DEF Quiet
<1>3. PICK P : Unlinks(P) /\ \A t \in P : tstate'[t] # "Waiting"
  BY DEF Quiet
<1>4. \A p \in Procs : /\ OneNodeEach(m_ChildrenCondition'[p])
                       /\ Linked(m_ChildrenCondition'[p]) = Linked(m_ChildrenCondition[p]) \ P
                       /\ Linked(m_ChildrenCondition[p]) \subseteq Threads
  BY <1>1, <1>3, LinkedAt DEF Unlinks, TypeInv
<1>5. \A t \in Threads : Owner[t] \in Procs /\ Owner[t] \in User
  BY DEF User
<1>6. \A t \in Threads : /\ tstate'[t] = "Unborn" <=> tstate[t] = "Unborn"
                         /\ pc'[t] = "exited" <=> pc[t] = "exited"
                         /\ pc'[t] = "looked" <=> pc[t] = "looked"
                         /\ pc'[t] = "again" <=> pc[t] = "again"
                         /\ pc'[t] = "found" <=> pc[t] = "found"
                         /\ pc'[t] = "asleep" <=> pc[t] = "asleep"
  BY <1>2
<1>7. ThreadInv'
  <2>1. \A p \in Procs : Members(p)' = Members(p)
    BY <1>6 DEF Members
  <2>2. ASSUME NEW t \in Threads
        PROVE  /\ tstate'[t] = "Unborn" => pc'[t] = "user"
               /\ tstate'[t] = "Stopped" => pc'[t] \in {"user", "dying"}
               /\ tstate'[t] \in {"Zombie", "Deleted"} => pc'[t] = "exited"
    BY <1>1, <1>2 DEF ThreadInv
  <2>3. ASSUME NEW t \in Threads
        PROVE  /\ pc'[t] \in {"looked", "again", "found", "kexit"} => g_PIDMapMutex' = t
               /\ pc'[t] \in {"looked", "again", "found", "asleep"} => want'[t] \in Waits[Owner[t]]
    BY <1>1, <1>2, <1>6 DEF ThreadInv
  <2>4. ASSUME NEW t \in Threads, tstate'[t] = "Waiting"
        PROVE  t \in Linked(m_ChildrenCondition'[Owner[t]])
    BY <1>1, <1>2, <1>3, <1>4, <1>5, <2>4 DEF ThreadInv
  <2> QED BY <1>1, <1>2, <2>1, <2>2, <2>3, <2>4 DEF ThreadInv
<1>8. QueueInv'
  <2>1. ASSUME NEW p \in Procs, NEW t \in Linked(m_ChildrenCondition'[p])
        PROVE  Owner[t] = p /\ pc'[t] = "asleep"
    <3>1. t \in Linked(m_ChildrenCondition[p]) /\ t \in Threads
      BY <1>4
    <3> QED BY <1>1, <1>6, <3>1 DEF QueueInv
  <2> QED BY <1>4, <2>1 DEF QueueInv
<1>9. ProcInv'
  BY <1>1, <1>2, <1>6 DEF ProcInv
<1>10. TreeInv'
  BY <1>1, <1>2 DEF TreeInv
<1>13. FoundInv'
  <2>1. CASE \A t \in Threads : pc[t] # "found"
    BY <1>6, <2>1 DEF FoundInv
  <2>2. CASE \A p \in User : m_State[p] = "Zombie" => m_State'[p] = "Zombie"
    <3> SUFFICES ASSUME NEW t \in Threads, pc[t] = "found", pc'[t] = "found"
                 PROVE  /\ found' \in User /\ m_Parent'[found'] = Owner[t]
                        /\ m_State'[found'] = "Zombie" \/ m_Threads'[found'] # {}
                        /\ ExitWaits(Owner[t]) => m_State'[found'] = "Zombie"
      BY <1>6 DEF FoundInv, ExitWaits
    <3>1. /\ found \in User /\ m_Parent[found] = Owner[t]
          /\ m_State[found] = "Zombie" \/ m_Threads[found] # {}
          /\ ExitWaits(Owner[t]) => m_State[found] = "Zombie"
      BY <1>1 DEF FoundInv
    <3>2. found' = found /\ m_Parent' = m_Parent /\ m_Threads' = m_Threads
      BY <1>2
    <3> QED BY <2>2, <3>1, <3>2
  <2> QED BY <2>1, <2>2 DEF Quiet
<1>11. ASSUME NEW p \in User, ExitWaits(p), Sleepers(p)' # {}
       PROVE  Cardinality(Zombies(p)') <= Cardinality(Looking(p)')
  <2>1. Zombies(p)' \subseteq Zombies(p)
    BY <1>2 DEF Zombies
  <2>2. p \in Procs /\ m_Threads[p] \subseteq Threads
    BY <1>1 DEF TypeInv, User
  <2>3. Looking(p) \subseteq Looking(p)'
    <3> SUFFICES ASSUME NEW t \in Looking(p) PROVE t \in Looking(p)'
      OBVIOUS
    <3>1. /\ t \in m_Threads[p] /\ t \in Threads /\ pc[t] \in {"asleep", "again", "found"}
          /\ t \notin Linked(m_ChildrenCondition[p])
      BY <2>2 DEF Looking
    <3>2. t \in m_Threads'[p]
      BY <1>2, <2>2, <3>1
    <3>3. pc'[t] \in {"asleep", "again", "found"}
      BY <1>2, <1>4, <1>6, <2>2, <3>1
    <3>4. t \notin Linked(m_ChildrenCondition'[p])
      BY <1>2, <1>4, <1>6, <2>2, <3>1
    <3> QED BY <3>2, <3>3, <3>4 DEF Looking
  <2>4. Sleepers(p)' \subseteq Sleepers(p)
    BY <1>4, <1>6, <2>2, SMTT(30) DEF Sleepers
  <2> QED BY <1>11, <2>1, <2>3, <2>4, ExitKept
<1>12. ExitInv'
  BY <1>11 DEF ExitInv, ExitWaits
<1> QED BY <1>7, <1>8, <1>9, <1>10, <1>12, <1>13

(***************************************************************************)
(* What the steps keep that write no status of the dead, stop none of      *)
(* them, and change neither what kill() has seen nor that it has the mutex.*)
(***************************************************************************)
LEMMA DeadKept ==
    ASSUME IInv, UNCHANGED sender,
           sender.code # "0" => UNCHANGED g_PIDMapMutex /\ pidNode \subseteq pidNode',
           \A p \in User : m_Threads'[p] = {} =>
               m_Threads[p] = {} /\ si_code'[p] = si_code[p] /\ m_State'[p] = m_State[p]
    PROVE  SenderInv' /\ DeadInv'
<1>1. SenderInv /\ DeadInv
  BY DEF IInv
<1>2. SenderInv'
  BY <1>1 DEF SenderInv
<1>3. DeadInv'
  BY <1>1 DEF DeadInv
<1> QED BY <1>2, <1>3

\* While the mutex is free nobody is about to report.
LEMMA FoundFree ==
    ASSUME IInv, g_PIDMapMutex = NULL, \A t \in Threads : pc'[t] = "found" => pc[t] = "found"
    PROVE  FoundInv'
<1>1. \A t \in Threads : pc'[t] # "found"
  BY NobodyHolds
<1> QED BY <1>1 DEF FoundInv

\* What has been found stays as it is.
LEMMA FoundKept ==
    ASSUME IInv, UNCHANGED <<found, m_Parent>>, \A t \in Threads : pc'[t] = "found" => pc[t] = "found",
           \A p \in User : /\ m_State[p] = "Zombie" => m_State'[p] = "Zombie"
                           /\ m_Threads[p] # {} => m_Threads'[p] # {}
    PROVE  FoundInv'
<1> SUFFICES ASSUME NEW t \in Threads, pc'[t] = "found"
             PROVE  /\ found' \in User /\ m_Parent'[found'] = Owner[t]
                    /\ m_State'[found'] = "Zombie" \/ m_Threads'[found'] # {}
                    /\ ExitWaits(Owner[t]) => m_State'[found'] = "Zombie"
  BY DEF FoundInv, ExitWaits
<1>1. /\ found \in User /\ m_Parent[found] = Owner[t]
      /\ m_State[found] = "Zombie" \/ m_Threads[found] # {}
      /\ ExitWaits(Owner[t]) => m_State[found] = "Zombie"
  BY DEF IInv, FoundInv
<1> QED BY <1>1

\* The number of stopped threads, when nobody is stopped or made to continue.
LEMMA StopKept ==
    ASSUME IInv, UNCHANGED <<m_Threads, m_StoppedThreadCount>>,
           \A t \in Threads : tstate'[t] = "Stopped" <=> tstate[t] = "Stopped"
    PROVE  StopInv'
<1>1. \A p \in Procs : m_Threads[p] \subseteq Threads
  BY DEF IInv, TypeInv
<1>2. \A p \in Procs : StoppedOf(p)' = StoppedOf(p)
  BY <1>1 DEF StoppedOf
<1> QED BY <1>2 DEF IInv, StopInv

\* The write of SetExitStatus concerns one process, and leaves it with a status.
LEMMA SetExitStatusKeeps ==
    ASSUME TypeInv, NEW p \in Procs, NEW read \in Codes,
           NEW code \in {"STOPPED", "CONTINUED"} \cup Death, SetExitStatus(p, read, code)
    PROVE  /\ si_code' \in [Procs -> Codes]
           /\ \A q \in Procs \ {p} : si_code'[q] = si_code[q]
           /\ read \in Death => si_code'[p] = si_code[p]
           /\ read \notin Death => si_code'[p] = code
  BY DEF TypeInv, SetExitStatus, Codes, Death

(***************************************************************************)
(* Resume: of some threads of p those that are stopped are ready again,    *)
(* and counted; the last of them may tell the parent.                      *)
(***************************************************************************)
LEMMA ResumeStep ==
    ASSUME IInv, NEW p \in User, p \in pidNode, NEW S, S \subseteq m_Threads[p],
           NEW state \in ProcStates, Resume(p, S, state), UNCHANGED m_Threads
    PROVE  /\ m_StoppedThreadCount' \in [Procs -> Int] /\ StopInv'
           /\ m_State' \in [Procs -> ProcStates]
           /\ \A q \in Procs \ {p} : m_State'[q] = m_State[q]
           /\ m_State'[p] = state \/ (state = "Continuing" /\ m_State'[p] = "Continued" /\ S # {})
           /\ \E P : Unlinks(P) /\ \A t \in P : tstate'[t] # "Waiting"
           /\ tstate' \in [Threads -> TStates]
           /\ \A t \in Threads : \/ tstate'[t] = tstate[t]
                                 \/ tstate[t] \in {"Waiting", "Stopped"} /\ tstate'[t] = "Ready"
<1>1. TypeInv /\ ThreadInv /\ StopInv /\ p \in Procs /\ m_Parent[p] \in Procs
  BY ParentKnown DEF IInv, User
<1>2. PICK stopped, ts, n : /\ stopped = {t \in S : tstate[t] = "Stopped"}
                            /\ ts = WokenThreads(tstate, S, TRUE)
                            /\ n = m_StoppedThreadCount[p] - Cardinality(stopped)
  OBVIOUS
<1>3. /\ ts \in [Threads -> TStates]
      /\ \A t \in Threads : ts[t] = IF t \in S /\ tstate[t] \in {"Waiting", "Stopped"} THEN "Ready"
                                    ELSE tstate[t]
  <2>1. tstate \in [Threads -> TStates]
    BY <1>1 DEF TypeInv, TStates
  <2> QED BY <1>2, <2>1 DEF WokenThreads, TStates
<1>4. /\ m_StoppedThreadCount' = [m_StoppedThreadCount EXCEPT ![p] = n]
      /\ \/ /\ state = "Continuing" /\ stopped # {} /\ m_State' = [m_State EXCEPT ![p] = "Continued"]
            /\ Notify(m_Parent[p], ts)
         \/ /\ m_State' = [m_State EXCEPT ![p] = state]
            /\ tstate' = ts /\ UNCHANGED m_ChildrenCondition
  BY <1>2 DEF Resume
<1>5. /\ m_State' \in [Procs -> ProcStates]
      /\ \A q \in Procs \ {p} : m_State'[q] = m_State[q]
      /\ m_State'[p] = state \/ (state = "Continuing" /\ m_State'[p] = "Continued" /\ S # {})
  <2>1. m_State \in [Procs -> ProcStates] /\ {state, "Continued"} \subseteq ProcStates
    BY <1>1 DEF TypeInv, ProcStates
  <2>2. PICK new \in {state, "Continued"} :
            /\ m_State' = [m_State EXCEPT ![p] = new]
            /\ new = state \/ (state = "Continuing" /\ stopped # {})
    BY <1>4
  <2>3. stopped # {} => S # {}
    BY <1>2
  <2> QED BY <1>1, <2>1, <2>2, <2>3
<1>6. /\ \E P : Unlinks(P) /\ \A t \in P : tstate'[t] # "Waiting"
      /\ tstate' \in [Threads -> TStates]
      /\ \A t \in Threads : tstate'[t] = ts[t] \/ (ts[t] = "Waiting" /\ tstate'[t] = "Ready")
  <2>1. CASE Notify(m_Parent[p], ts)
    <3>1. PICK q : q = m_Parent[p]
      OBVIOUS
    <3>2. \E P \in SUBSET Linked(m_ChildrenCondition[q]) :
              Unlinks(P) /\ Wakes(ts) /\ \A t \in P : tstate'[t] # "Waiting"
      BY <1>1, <1>3, <2>1, <3>1, NotifyWakes
    <3> QED BY <3>2 DEF Wakes
  <2>2. CASE tstate' = ts /\ UNCHANGED m_ChildrenCondition
    BY <1>3, <2>2, KeepsNodes
  <2> QED BY <1>4, <2>1, <2>2
<1>7. \A t \in Threads : \/ tstate'[t] = tstate[t]
                         \/ tstate[t] \in {"Waiting", "Stopped"} /\ tstate'[t] = "Ready"
  BY <1>3, <1>6
<1>8. \A q \in Procs : m_Threads[q] \subseteq Threads /\ \A t \in m_Threads[q] : Owner[t] = q
  BY <1>1 DEF ThreadInv, Members
<1>9. \A t \in Threads : tstate'[t] = "Stopped" <=> tstate[t] = "Stopped" /\ t \notin S
  BY <1>3, <1>6
<1>10. StoppedOf(p)' = StoppedOf(p) \ stopped /\ stopped \subseteq StoppedOf(p)
  BY <1>1, <1>2, <1>8, <1>9 DEF StoppedOf
<1>11. \A q \in Procs \ {p} : StoppedOf(q)' = StoppedOf(q)
  BY <1>1, <1>8, <1>9 DEF StoppedOf
<1>12. Cardinality(StoppedOf(p)') = n /\ n \in Int
  <2>1. IsFiniteSet(StoppedOf(p)) /\ Cardinality(StoppedOf(p)) \in Nat
    BY <1>1, Sizes
  <2>2. Cardinality(StoppedOf(p) \ stopped)
           = Cardinality(StoppedOf(p)) - Cardinality(StoppedOf(p) \cap stopped)
    BY <2>1, FS_Difference
  <2>3. StoppedOf(p) \cap stopped = stopped
    BY <1>10
  <2>4. IsFiniteSet(stopped) /\ Cardinality(stopped) \in Nat
    BY <1>10, <2>1, FS_Subset, FS_CardinalityType
  <2>5. m_StoppedThreadCount[p] = Cardinality(StoppedOf(p))
    BY <1>1 DEF StopInv
  <2>6. Cardinality(StoppedOf(p)') = Cardinality(StoppedOf(p)) - Cardinality(stopped)
    BY <1>10, <2>2, <2>3
  <2> QED BY <1>2, <2>1, <2>4, <2>5, <2>6
<1>13. m_StoppedThreadCount' \in [Procs -> Int]
  BY <1>1, <1>4, <1>12 DEF TypeInv
<1>14. StopInv'
  BY <1>1, <1>4, <1>11, <1>12 DEF StopInv, TypeInv
<1> QED BY <1>5, <1>6, <1>7, <1>13, <1>14

-----------------------------------------------------------------------------
(* Signals, and threads on their way out *)

\* kill(p, SIGSTOP) and kill(p, SIGCONT), up to the look at the status.
LEMMA SendStep ==
    ASSUME IInv, NEW p \in User, NEW code \in {"STOPPED", "CONTINUED"}, NEW states, Send(p, code, states)
    PROVE  IInv'
<1>1. TypeInv /\ DeadInv /\ p \in Procs
  BY DEF IInv, User
<1>2. /\ g_PIDMapMutex = NULL /\ p \in pidNode /\ sent < MaxSignals /\ sent' = sent + 1
      /\ sender' = [proc |-> p, code |-> code, cur |-> si_code[p]]
      /\ UNCHANGED <<g_PIDMapMutex, pidNode, m_Parent, m_Children, m_StoppedThreadCount, m_State, m_Threads,
                     si_code, m_ChildrenCondition, tstate, pc, pending, canceled, want, found, cur, init,
                     panicked>>
  BY DEF Send, MutexFree, treeVars, stopVars
<1>3. TypeInv'
  <2>1. sender' \in [proc : Procs, code : {"0", "STOPPED", "CONTINUED"}, cur : Codes]
    BY <1>1, <1>2 DEF TypeInv
  <2>2. sent' \in 0..MaxSignals
    BY <1>1, <1>2 DEF TypeInv
  <2> QED BY <1>1, <1>2, <2>1, <2>2 DEF TypeInv
<1>4. Quiet
  <2>1. Unlinks({})
    BY <1>2, KeepsNodes
  <2>2. \E P : Unlinks(P) /\ \A t \in P : tstate'[t] # "Waiting"
    BY <2>1
  <2> QED BY <1>2, <2>2 DEF Quiet
<1>5. StopInv'
  BY <1>2, StopKept
<1>6. sender'.code = code /\ sender'.proc = p /\ sender'.cur = si_code[p]
  BY <1>2
<1>7. SenderInv'
  BY <1>2, <1>6 DEF SenderInv
<1>8. DeadInv'
  BY <1>1, <1>2, <1>6 DEF DeadInv
<1> QED BY <1>3, <1>4, <1>5, <1>7, <1>8, QuietStep DEF IInv

\* What kill() writes leaves a dead process with a status.
LEMMA SenderKeepsDead ==
    ASSUME IInv, sender.code # "0", sender' = Idle, SetExitStatus(sender.proc, sender.cur, sender.code),
           UNCHANGED m_Threads, \A q \in User \ {sender.proc} : m_State'[q] = m_State[q],
           m_Threads[sender.proc] = {} => m_State'[sender.proc] \in {"Stopping", "Continuing"}
    PROVE  /\ si_code' \in [Procs -> Codes] /\ SenderInv' /\ DeadInv'
<1>1. TypeInv /\ SenderInv /\ DeadInv /\ User \subseteq Procs
  BY DEF IInv, User
<1>2. PICK p, read, code : p = sender.proc /\ read = sender.cur /\ code = sender.code
  OBVIOUS
<1>3. p \in User /\ p \in pidNode /\ read \in Codes /\ code \in {"STOPPED", "CONTINUED"}
  <2>1. sender \in [proc : Procs, code : {"0", "STOPPED", "CONTINUED"}, cur : Codes]
    BY <1>1 DEF TypeInv
  <2>2. sender.cur \in Codes /\ sender.code \in {"0", "STOPPED", "CONTINUED"}
    BY <2>1
  <2> QED BY <1>1, <1>2, <2>2 DEF SenderInv
<1>4. m_State[p] # "Unborn"
  BY <1>3, ParentKnown
<1>5. /\ si_code' \in [Procs -> Codes]
      /\ \A q \in Procs \ {p} : si_code'[q] = si_code[q]
      /\ read \in Death => si_code'[p] = si_code[p]
      /\ read \notin Death => si_code'[p] = code
  BY <1>1, <1>2, <1>3, SetExitStatusKeeps
<1>6. sender'.code = "0"
  BY DEF Idle
<1>7. SenderInv'
  BY <1>6 DEF SenderInv
<1>8. m_Threads[p] = {} => read = si_code[p] /\ si_code[p] # "0"
  BY <1>1, <1>2, <1>3, <1>4 DEF DeadInv
<1>9. ASSUME NEW q \in User, m_Threads'[q] = {}, m_State'[q] # "Unborn"
      PROVE  si_code'[q] # "0" /\ m_State'[q] \in {"Zombie", "Stopping", "Continuing"}
  <2>1. CASE q = p
    BY <1>2, <1>3, <1>5, <1>8, <1>9, <2>1
  <2>2. CASE q # p
    BY <1>1, <1>2, <1>5, <1>9, <2>2 DEF DeadInv
  <2> QED BY <2>1, <2>2
<1>10. DeadInv'
  BY <1>6, <1>9 DEF DeadInv
<1> QED BY <1>5, <1>7, <1>10

\* The rest of SIGSTOP.
LEMMA StopThreadsStep ==
    ASSUME IInv, StopThreads
    PROVE  IInv'
<1>1. TypeInv /\ ThreadInv /\ SenderInv
  BY DEF IInv
<1>2. PICK p, S : p = sender.proc /\ S = m_Threads[p]
  OBVIOUS
<1>3. /\ sender.code = "STOPPED" /\ sender' = Idle
      /\ SetExitStatus(p, sender.cur, sender.code) /\ m_State' = [m_State EXCEPT ![p] = "Stopping"]
      /\ pending' = [t \in Threads |-> pending[t] \cup (IF t \in S THEN {"STOP"} ELSE {})]
      /\ tstate' = WokenThreads(tstate, S, FALSE)
      /\ UNCHANGED <<g_PIDMapMutex, pidNode, m_Parent, m_Children, m_StoppedThreadCount, m_Threads,
                     m_ChildrenCondition, pc, canceled, want, found, cur, init, sent, panicked>>
  BY <1>2 DEF StopThreads, treeVars
<1>4. p \in User /\ p \in Procs /\ p \in pidNode /\ g_PIDMapMutex = NULL
  BY <1>1, <1>2, <1>3 DEF SenderInv, User
<1>5. /\ tstate' \in [Threads -> TStates]
      /\ \A t \in Threads : tstate'[t] = IF t \in S /\ tstate[t] = "Waiting" THEN "Ready" ELSE tstate[t]
  <2>1. tstate \in [Threads -> TStates]
    BY <1>1 DEF TypeInv, TStates
  <2> QED BY <1>3, <2>1 DEF WokenThreads, TStates
<1>6. m_State' \in [Procs -> ProcStates] /\ \A q \in Procs : m_State'[q] = IF q = p THEN "Stopping" ELSE m_State[q]
  BY <1>1, <1>3, <1>4 DEF TypeInv, ProcStates
<1>7. si_code' \in [Procs -> Codes] /\ SenderInv' /\ DeadInv'
  <2>1. sender.code # "0" /\ SetExitStatus(sender.proc, sender.cur, sender.code) /\ UNCHANGED m_Threads
    BY <1>2, <1>3
  <2>2. /\ \A q \in User \ {sender.proc} : m_State'[q] = m_State[q]
        /\ m_State'[sender.proc] \in {"Stopping", "Continuing"}
    BY <1>2, <1>4, <1>6 DEF User
  <2> QED BY <1>3, <2>1, <2>2, SenderKeepsDead
<1>8. TypeInv'
  <2>1. pending' \in [Threads -> SUBSET {"KILL", "STOP"}]
    BY <1>1, <1>3 DEF TypeInv
  <2>2. sender' \in [proc : Procs, code : {"0", "STOPPED", "CONTINUED"}, cur : Codes]
    BY <1>3 DEF Idle, Codes
  <2> QED BY <1>1, <1>3, <1>5, <1>6, <1>7, <2>1, <2>2 DEF TypeInv, TStates
<1>9. Quiet
  <2>1. Unlinks({})
    BY <1>3, KeepsNodes
  <2>2. \A q \in User : /\ m_State'[q] = "Unborn" <=> m_State[q] = "Unborn"
                        /\ m_State'[q] = "Zombie" => m_State[q] = "Zombie"
    BY <1>4, <1>6, ParentKnown DEF User
  <2>3. \A t \in Threads : /\ pc'[t] = pc[t] /\ pc[t] # "found"
                           /\ \/ tstate'[t] = tstate[t]
                              \/ tstate[t] \in {"Waiting", "Stopped"} /\ tstate'[t] = "Ready"
    BY <1>3, <1>4, <1>5, NobodyHolds
  <2>4. \E P : Unlinks(P) /\ \A t \in P : tstate'[t] # "Waiting"
    BY <2>1
  <2> QED BY <1>3, <2>2, <2>3, <2>4 DEF Quiet
<1>10. StopInv'
  BY <1>3, <1>5, StopKept
<1> QED BY <1>7, <1>8, <1>9, <1>10, QuietStep DEF IInv

\* The rest of SIGCONT.
LEMMA ContinueThreadsStep ==
    ASSUME IInv, ContinueThreads
    PROVE  IInv'
<1>1. TypeInv /\ ThreadInv /\ SenderInv
  BY DEF IInv
<1>2. PICK p, S, state : p = sender.proc /\ S = m_Threads[p] /\ state = "Continuing"
  OBVIOUS
<1>3. /\ sender.code = "CONTINUED" /\ sender' = Idle
      /\ SetExitStatus(p, sender.cur, sender.code) /\ Resume(p, S, state)
      /\ UNCHANGED <<g_PIDMapMutex, pidNode, m_Parent, m_Children, m_Threads,
                     pc, pending, canceled, want, found, cur, init, sent, panicked>>
  BY <1>2 DEF ContinueThreads, treeVars
<1>4. p \in User /\ p \in Procs /\ p \in pidNode /\ g_PIDMapMutex = NULL
  BY <1>1, <1>2, <1>3 DEF SenderInv, User
<1>5. /\ m_StoppedThreadCount' \in [Procs -> Int] /\ StopInv'
      /\ m_State' \in [Procs -> ProcStates]
      /\ \A q \in Procs \ {p} : m_State'[q] = m_State[q]
      /\ m_State'[p] \in {"Continuing", "Continued"} /\ (S = {} => m_State'[p] = "Continuing")
      /\ \E P : Unlinks(P) /\ \A t \in P : tstate'[t] # "Waiting"
      /\ tstate' \in [Threads -> TStates]
      /\ \A t \in Threads : \/ tstate'[t] = tstate[t]
                            \/ tstate[t] \in {"Waiting", "Stopped"} /\ tstate'[t] = "Ready"
  <2>1. state \in ProcStates
    BY <1>2 DEF ProcStates
  <2>2. Resume(p, S, state) /\ S \subseteq m_Threads[p] /\ UNCHANGED m_Threads /\ p \in pidNode
    BY <1>2, <1>3, <1>4
  <2>3. m_State'[p] = state \/ (state = "Continuing" /\ m_State'[p] = "Continued" /\ S # {})
    BY <1>4, <2>1, <2>2, ResumeStep
  <2>4. m_State'[p] \in {"Continuing", "Continued"} /\ (S = {} => m_State'[p] = "Continuing")
    BY <1>2, <2>3
  <2> QED BY <1>4, <2>1, <2>2, <2>4, ResumeStep
<1>6. si_code' \in [Procs -> Codes] /\ SenderInv' /\ DeadInv'
  <2>1. sender.code # "0" /\ SetExitStatus(sender.proc, sender.cur, sender.code) /\ UNCHANGED m_Threads
    BY <1>2, <1>3
  <2>2. /\ \A q \in User \ {sender.proc} : m_State'[q] = m_State[q]
        /\ m_Threads[sender.proc] = {} => m_State'[sender.proc] \in {"Stopping", "Continuing"}
    BY <1>2, <1>4, <1>5 DEF User
  <2> QED BY <1>3, <2>1, <2>2, SenderKeepsDead
<1>7. TypeInv'
  <2>1. sender' \in [proc : Procs, code : {"0", "STOPPED", "CONTINUED"}, cur : Codes]
    BY <1>3 DEF Idle, Codes
  <2> QED BY <1>1, <1>3, <1>5, <1>6, <2>1 DEF TypeInv, TStates, Unlinks
<1>8. Quiet
  <2>1. \A q \in User : /\ m_State'[q] = "Unborn" <=> m_State[q] = "Unborn"
                        /\ m_State'[q] = "Zombie" => m_State[q] = "Zombie"
    BY <1>4, <1>5, ParentKnown DEF User
  <2>2. \A t \in Threads : pc'[t] = pc[t] /\ pc[t] # "found"
    BY <1>3, <1>4, NobodyHolds
  <2> QED BY <1>3, <1>5, <2>1, <2>2 DEF Quiet
<1> QED BY <1>5, <1>6, <1>7, <1>8, QuietStep DEF IInv

\* kill(p, SIGKILL)
LEMMA KillStep ==
    ASSUME IInv, NEW p \in User, Kill(p)
    PROVE  IInv'
<1>1. TypeInv /\ ThreadInv /\ p \in Procs
  BY DEF IInv, User
<1>2. PICK S, state : S = m_Threads[p] /\ state = m_State[p]
  OBVIOUS
<1>3. /\ g_PIDMapMutex = NULL /\ p \in pidNode /\ sent < MaxSignals /\ sent' = sent + 1
      /\ Resume(p, S, state)
      /\ pending' = [t \in Threads |-> pending[t] \cup (IF t \in S THEN {"KILL"} ELSE {})]
      /\ UNCHANGED <<g_PIDMapMutex, pidNode, m_Parent, m_Children, m_Threads, si_code,
                     pc, canceled, want, found, cur, sender, panicked, init>>
  BY <1>2 DEF Kill, MutexFree, treeVars, readVars
<1>4. /\ m_StoppedThreadCount' \in [Procs -> Int] /\ StopInv'
      /\ m_State' \in [Procs -> ProcStates]
      /\ \A q \in Procs \ {p} : m_State'[q] = m_State[q]
      /\ m_State'[p] = state \/ (state = "Continuing" /\ m_State'[p] = "Continued" /\ S # {})
      /\ \E P : Unlinks(P) /\ \A t \in P : tstate'[t] # "Waiting"
      /\ tstate' \in [Threads -> TStates]
      /\ \A t \in Threads : \/ tstate'[t] = tstate[t]
                            \/ tstate[t] \in {"Waiting", "Stopped"} /\ tstate'[t] = "Ready"
  <2>1. state \in ProcStates
    BY <1>1, <1>2 DEF TypeInv
  <2>2. Resume(p, S, state) /\ S \subseteq m_Threads[p] /\ UNCHANGED m_Threads /\ p \in pidNode
    BY <1>2, <1>3
  <2> QED BY <2>1, <2>2, ResumeStep
<1>5. TypeInv'
  <2>1. pending' \in [Threads -> SUBSET {"KILL", "STOP"}]
    BY <1>1, <1>3 DEF TypeInv
  <2>2. sent' \in 0..MaxSignals
    BY <1>1, <1>3 DEF TypeInv
  <2> QED BY <1>1, <1>3, <1>4, <2>1, <2>2 DEF TypeInv, TStates, Unlinks
<1>6. Quiet
  <2>1. \A q \in User : /\ m_State'[q] = "Unborn" <=> m_State[q] = "Unborn"
                        /\ m_State'[q] = "Zombie" => m_State[q] = "Zombie"
    BY <1>2, <1>4 DEF User
  <2>2. \A t \in Threads : pc'[t] = pc[t] /\ pc[t] # "found"
    BY <1>3, NobodyHolds
  <2> QED BY <1>3, <1>4, <2>1, <2>2 DEF Quiet
<1>7. SenderInv' /\ DeadInv'
  <2>1. \A q \in User : m_Threads'[q] = {} => m_Threads[q] = {} /\ m_State'[q] = m_State[q] /\ si_code'[q] = si_code[q]
    BY <1>2, <1>3, <1>4 DEF User
  <2>2. UNCHANGED <<sender, g_PIDMapMutex>> /\ pidNode \subseteq pidNode'
    BY <1>3
  <2> QED BY <2>1, <2>2, DeadKept
<1> QED BY <1>4, <1>5, <1>6, <1>7, QuietStep DEF IInv

\* A thread that is ready belongs to a process that lives: what it writes is of no dead one.
LEMMA LivingWrites ==
    ASSUME IInv, NEW t \in Threads, tstate[t] = "Ready", pc[t] # "exited",
           UNCHANGED <<sender, m_Threads, pidNode>>, sender.code # "0" => UNCHANGED g_PIDMapMutex,
           \A q \in User \ {Owner[t]} : si_code'[q] = si_code[q] /\ m_State'[q] = m_State[q]
    PROVE  SenderInv' /\ DeadInv'
<1>1. Owner[t] \in User /\ m_Threads[Owner[t]] # {}
  BY ReadyIsMember
<1>2. \A q \in User : m_Threads'[q] = {} => m_Threads[q] = {} /\ si_code'[q] = si_code[q] /\ m_State'[q] = m_State[q]
  BY <1>1
<1> QED BY <1>2, DeadKept

\* SIGKILL is taken.
LEMMA TakeKillStep ==
    ASSUME IInv, NEW t \in Threads, TakeKill(t)
    PROVE  IInv'
<1>1. TypeInv /\ ThreadInv
  BY DEF IInv
<1>2. PICK p, read : p = Owner[t] /\ read = si_code[p]
  OBVIOUS
<1>3. /\ tstate[t] = "Ready" /\ pc[t] \in {"user", "dying"}
      /\ pending' = [pending EXCEPT ![t] = @ \ {"KILL"}]
      /\ SetExitStatus(p, read, "KILLED") /\ pc' = [pc EXCEPT ![t] = "dying"]
      /\ UNCHANGED <<g_PIDMapMutex, pidNode, m_Parent, m_Children, m_StoppedThreadCount, m_State, m_Threads,
                     m_ChildrenCondition, tstate, canceled, want, found, cur, sender, panicked, init, sent>>
  BY <1>2 DEF TakeKill, At, Goto, treeVars, stopVars, readVars
<1>4. si_code' \in [Procs -> Codes] /\ \A q \in Procs \ {p} : si_code'[q] = si_code[q]
  <2>1. p \in Procs /\ read \in Codes
    BY <1>1, <1>2 DEF TypeInv, User
  <2>2. "KILLED" \in {"STOPPED", "CONTINUED"} \cup Death
    BY DEF Death
  <2> QED BY <1>1, <1>3, <2>1, <2>2, SetExitStatusKeeps
<1>5. TypeInv'
  <2>1. pending' \in [Threads -> SUBSET {"KILL", "STOP"}]
    BY <1>1, <1>3 DEF TypeInv
  <2>2. pc' \in [Threads -> Labels]
    BY <1>1, <1>3 DEF TypeInv, Labels
  <2> QED BY <1>1, <1>3, <1>4, <2>1, <2>2 DEF TypeInv
<1>6. \A u \in Threads : pc'[u] = IF u = t THEN "dying" ELSE pc[u]
  BY <1>1, <1>3 DEF TypeInv
<1>7. Quiet
  <2>1. Unlinks({})
    BY <1>3, KeepsNodes
  <2>2. \E P : Unlinks(P) /\ \A u \in P : tstate'[u] # "Waiting"
    BY <2>1
  <2> QED BY <1>3, <1>6, <2>2 DEF Quiet
<1>8. StopInv'
  BY <1>3, StopKept
<1>9. SenderInv' /\ DeadInv'
  <2>1. \A q \in User \ {Owner[t]} : si_code'[q] = si_code[q] /\ m_State'[q] = m_State[q]
    BY <1>2, <1>3, <1>4 DEF User
  <2>2. UNCHANGED <<sender, m_Threads, pidNode>> /\ UNCHANGED g_PIDMapMutex /\ pc[t] # "exited"
    BY <1>3
  <2> QED BY <1>3, <2>1, <2>2, LivingWrites
<1> QED BY <1>5, <1>7, <1>8, <1>9, QuietStep DEF IInv

\* SIGSTOP is taken.
LEMMA TakeStopStep ==
    ASSUME IInv, NEW t \in Threads, TakeStop(t)
    PROVE  IInv'
<1>1. TypeInv /\ ThreadInv /\ StopInv
  BY DEF IInv
<1>2. PICK p, ts : p = Owner[t] /\ ts = [tstate EXCEPT ![t] = "Stopped"]
  OBVIOUS
<1>3. /\ tstate[t] = "Ready" /\ pc[t] \in {"user", "dying"}
      /\ pending' = [pending EXCEPT ![t] = {}]
      /\ m_StoppedThreadCount' = [m_StoppedThreadCount EXCEPT ![p] = @ + 1]
      /\ \/ m_State' = [m_State EXCEPT ![p] = "Stopped"] /\ Notify(m_Parent[p], ts)
         \/ tstate' = ts /\ UNCHANGED <<m_State, m_ChildrenCondition>>
      /\ UNCHANGED <<g_PIDMapMutex, pidNode, m_Parent, m_Children, m_Threads, si_code, pc, canceled,
                     want, found, cur, sender, panicked,
                     init, sent>>
  BY <1>2 DEF TakeStop, At, treeVars, readVars
<1>4. /\ p \in User /\ p \in Procs /\ t \in m_Threads[p] /\ m_Parent[p] \in Procs
      /\ m_State[p] \notin {"Unborn", "Zombie"}
  BY <1>2, <1>3, ReadyIsMember
<1>5. ts \in [Threads -> TStates] /\ \A u \in Threads : ts[u] = IF u = t THEN "Stopped" ELSE tstate[u]
  BY <1>1, <1>2 DEF TypeInv, TStates
<1>6. /\ \E P : Unlinks(P) /\ \A u \in P : tstate'[u] # "Waiting"
      /\ tstate' \in [Threads -> TStates]
      /\ \A u \in Threads : tstate'[u] = ts[u] \/ (ts[u] = "Waiting" /\ tstate'[u] = "Ready")
  <2>1. CASE Notify(m_Parent[p], ts)
    <3>1. PICK q : q = m_Parent[p]
      OBVIOUS
    <3>2. \E P \in SUBSET Linked(m_ChildrenCondition[q]) :
              Unlinks(P) /\ Wakes(ts) /\ \A u \in P : tstate'[u] # "Waiting"
      BY <1>4, <1>5, <2>1, <3>1, NotifyWakes
    <3> QED BY <3>2 DEF Wakes
  <2>2. CASE tstate' = ts /\ UNCHANGED m_ChildrenCondition
    BY <1>5, <2>2, KeepsNodes
  <2> QED BY <1>3, <2>1, <2>2
<1>7. m_State' \in [Procs -> ProcStates] /\ \A q \in User : \/ m_State'[q] = m_State[q]
                                                            \/ q = p /\ m_State'[q] = "Stopped"
  <2>1. m_State \in [Procs -> ProcStates] /\ "Stopped" \in ProcStates /\ User \subseteq Procs
    BY <1>1 DEF TypeInv, ProcStates, User
  <2>2. m_State' = [m_State EXCEPT ![p] = "Stopped"] \/ m_State' = m_State
    BY <1>3
  <2> QED BY <1>4, <2>1, <2>2
<1>8. TypeInv'
  <2>1. m_StoppedThreadCount' \in [Procs -> Int]
    <3>1. m_StoppedThreadCount \in [Procs -> Int] /\ m_StoppedThreadCount[p] + 1 \in Int
      BY <1>1, <1>4 DEF TypeInv
    <3> QED BY <1>3, <3>1
  <2>2. pending' \in [Threads -> SUBSET {"KILL", "STOP"}]
    BY <1>1, <1>3 DEF TypeInv
  <2> QED BY <1>1, <1>3, <1>6, <1>7, <2>1, <2>2 DEF TypeInv, TStates, Unlinks
<1>9. \A u \in Threads : IF u = t THEN tstate'[u] = "Stopped"
                         ELSE tstate'[u] = tstate[u] \/ (tstate[u] = "Waiting" /\ tstate'[u] = "Ready")
  BY <1>5, <1>6
<1>10. Quiet
  <2>1. \A q \in User : /\ m_State'[q] = "Unborn" <=> m_State[q] = "Unborn"
                        /\ m_State'[q] = "Zombie" <=> m_State[q] = "Zombie"
    BY <1>4, <1>7
  <2>2. \A u \in Threads :
          /\ pc'[u] = pc[u]
          /\ \/ tstate'[u] = tstate[u]
             \/ tstate[u] \in {"Waiting", "Stopped"} /\ tstate'[u] = "Ready"
             \/ tstate[u] = "Ready" /\ tstate'[u] = "Stopped" /\ pc[u] \in {"user", "dying"}
    BY <1>3, <1>9
  <2> QED BY <1>3, <1>6, <2>1, <2>2 DEF Quiet
<1>11. StopInv'
  <2>1. \A q \in Procs : m_Threads[q] \subseteq Threads /\ \A u \in m_Threads[q] : Owner[u] = q
    BY <1>1 DEF ThreadInv, Members
  <2>2. \A u \in Threads : tstate'[u] = "Stopped" <=> u = t \/ tstate[u] = "Stopped"
    BY <1>9
  <2>3. StoppedOf(p)' = StoppedOf(p) \cup {t} /\ t \notin StoppedOf(p)
    BY <1>3, <1>4, <2>1, <2>2 DEF StoppedOf
  <2>4. \A q \in Procs \ {p} : StoppedOf(q)' = StoppedOf(q)
    BY <1>2, <1>3, <2>1, <2>2 DEF StoppedOf
  <2>5. Cardinality(StoppedOf(p) \cup {t}) = Cardinality(StoppedOf(p)) + 1
    BY <1>1, <1>4, <2>3, Sizes, FS_AddElement
  <2>6. m_StoppedThreadCount'[p] = Cardinality(StoppedOf(p)')
    BY <1>1, <1>3, <1>4, <2>3, <2>5 DEF TypeInv, StopInv
  <2> QED BY <1>1, <1>3, <1>4, <2>4, <2>6 DEF TypeInv, StopInv
<1>12. SenderInv' /\ DeadInv'
  <2>1. \A q \in User \ {Owner[t]} : si_code'[q] = si_code[q] /\ m_State'[q] = m_State[q]
    BY <1>2, <1>3, <1>7
  <2>2. UNCHANGED <<sender, m_Threads, pidNode, g_PIDMapMutex>> /\ pc[t] # "exited"
    BY <1>3
  <2> QED BY <1>3, <2>1, <2>2, LivingWrites
<1> QED BY <1>8, <1>10, <1>11, <1>12, QuietStep DEF IInv

\* exit(), up to the look at the status.
LEMMA ExitStep ==
    ASSUME IInv, NEW t \in Threads, Exit(t)
    PROVE  IInv'
<1>1. TypeInv /\ ThreadInv /\ SenderInv
  BY DEF IInv
<1>2. /\ tstate[t] = "Ready" /\ pc[t] = "user" /\ g_PIDMapMutex = NULL /\ sender.code = "0"
      /\ g_PIDMapMutex' = t /\ cur' = [cur EXCEPT ![t] = si_code[Owner[t]]] /\ pc' = [pc EXCEPT ![t] = "kexit"]
      /\ UNCHANGED <<pidNode, m_Parent, m_Children, m_StoppedThreadCount, m_State, m_Threads, si_code,
                     m_ChildrenCondition, tstate, pending, canceled, want, found, sender, init, sent, panicked>>
  BY DEF Exit, At, Goto, MutexFree, treeVars, stopVars
<1>3. TypeInv'
  <2>1. cur' \in [Threads -> Codes]
    BY <1>1, <1>2 DEF TypeInv, User
  <2>2. pc' \in [Threads -> Labels]
    BY <1>1, <1>2 DEF TypeInv, Labels
  <2> QED BY <1>1, <1>2, <2>1, <2>2 DEF TypeInv
<1>4. \A u \in Threads : pc'[u] = (IF u = t THEN "kexit" ELSE pc[u]) /\ pc[u] \notin {"looked", "again", "found", "kexit"}
  BY <1>1, <1>2, NobodyHolds DEF TypeInv
<1>5. Quiet
  <2>1. Unlinks({})
    BY <1>2, KeepsNodes
  <2>2. \E P : Unlinks(P) /\ \A u \in P : tstate'[u] # "Waiting"
    BY <2>1
  <2> QED BY <1>2, <1>4, <2>2 DEF Quiet
<1>6. StopInv'
  BY <1>2, StopKept
<1>7. SenderInv' /\ DeadInv'
  <2>1. UNCHANGED <<sender, m_Threads, pidNode, si_code, m_State>> /\ sender.code = "0" /\ pc[t] # "exited"
    BY <1>2
  <2> QED BY <1>2, <2>1, LivingWrites
<1> QED BY <1>3, <1>5, <1>6, <1>7, QuietStep DEF IInv

\* The rest of exit(): the status, and the other threads are cancelled.
LEMMA CancelThreadsStep ==
    ASSUME IInv, NEW t \in Threads, CancelThreads(t)
    PROVE  IInv'
<1>1. TypeInv /\ ThreadInv /\ SenderInv
  BY DEF IInv
<1>2. PICK p, others, state, read :
         /\ p = Owner[t] /\ state = m_State[p] /\ read = cur[t]
         /\ others = {u \in m_Threads[p] \ {t} : u \notin canceled}
  OBVIOUS
<1>3. /\ tstate[t] = "Ready" /\ pc[t] = "kexit"
      /\ SetExitStatus(p, read, "EXITED") /\ canceled' = canceled \cup others
      /\ cur' = [cur EXCEPT ![t] = "0"]
      /\ pending' = [u \in Threads |-> pending[u] \cup (IF u \in others \cap Asynchronous THEN {"KILL"} ELSE {})]
      /\ Resume(p, others, state) /\ g_PIDMapMutex' = NULL /\ pc' = [pc EXCEPT ![t] = "dying"]
      /\ UNCHANGED <<pidNode, m_Parent, m_Children, m_Threads, want, found, sender, init, sent, panicked>>
  BY <1>2 DEF CancelThreads, At, Goto, treeVars
<1>4. /\ p \in User /\ p \in Procs /\ p \in pidNode /\ state \in ProcStates /\ read \in Codes
      /\ others \subseteq m_Threads[p] /\ others \subseteq Threads /\ g_PIDMapMutex = t /\ t # NULL
  BY <1>1, <1>2, <1>3, ReadyIsMember DEF TypeInv, ThreadInv
<1>5. /\ m_StoppedThreadCount' \in [Procs -> Int] /\ StopInv'
      /\ m_State' \in [Procs -> ProcStates]
      /\ \A q \in Procs \ {p} : m_State'[q] = m_State[q]
      /\ m_State'[p] = state \/ (state = "Continuing" /\ m_State'[p] = "Continued" /\ others # {})
      /\ \E P : Unlinks(P) /\ \A u \in P : tstate'[u] # "Waiting"
      /\ tstate' \in [Threads -> TStates]
      /\ \A u \in Threads : \/ tstate'[u] = tstate[u]
                            \/ tstate[u] \in {"Waiting", "Stopped"} /\ tstate'[u] = "Ready"
  <2>1. UNCHANGED m_Threads /\ Resume(p, others, state)
    BY <1>3
  <2> QED BY <1>4, <2>1, ResumeStep
<1>6. si_code' \in [Procs -> Codes] /\ \A q \in Procs \ {p} : si_code'[q] = si_code[q]
  <2>1. "EXITED" \in {"STOPPED", "CONTINUED"} \cup Death
    BY DEF Death
  <2> QED BY <1>1, <1>3, <1>4, <2>1, SetExitStatusKeeps
<1>7. TypeInv'
  <2>1. canceled' \subseteq Threads
    BY <1>1, <1>3, <1>4 DEF TypeInv
  <2>2. cur' \in [Threads -> Codes]
    BY <1>1, <1>3 DEF TypeInv, Codes
  <2>3. pending' \in [Threads -> SUBSET {"KILL", "STOP"}]
    BY <1>1, <1>3 DEF TypeInv
  <2>4. pc' \in [Threads -> Labels]
    BY <1>1, <1>3 DEF TypeInv, Labels
  <2> QED BY <1>1, <1>3, <1>5, <1>6, <2>1, <2>2, <2>3, <2>4 DEF TypeInv, TStates, Unlinks
<1>8. \A u \in Threads : pc'[u] = (IF u = t THEN "dying" ELSE pc[u])
                         /\ (u # t => pc[u] \notin {"looked", "again", "found", "kexit"})
  BY <1>1, <1>3, <1>4 DEF TypeInv, ThreadInv
<1>9. Quiet
  <2>1. \A q \in User : /\ m_State'[q] = "Unborn" <=> m_State[q] = "Unborn"
                        /\ m_State'[q] = "Zombie" => m_State[q] = "Zombie"
    BY <1>2, <1>5 DEF User
  <2>2. tstate'[t] = "Ready"
    BY <1>3, <1>5
  <2>3. \A u \in Threads :
          /\ \/ pc'[u] = pc[u]
             \/ /\ pc[u] \in {"user", "kexit", "dying", "status"}
                /\ pc'[u] \in {"kexit", "dying", "status", "exiting"}
                /\ tstate[u] = "Ready" /\ tstate'[u] = "Ready"
          /\ pc'[u] \notin {"looked", "again", "found", "kexit"} /\ pc[u] # "found"
          /\ \/ tstate'[u] = tstate[u]
             \/ tstate[u] \in {"Waiting", "Stopped"} /\ tstate'[u] = "Ready"
    BY <1>3, <1>5, <1>8, <2>2
  <2> QED BY <1>3, <1>5, <2>1, <2>3 DEF Quiet
<1>10. SenderInv' /\ DeadInv'
  <2>1. \A q \in User \ {Owner[t]} : si_code'[q] = si_code[q] /\ m_State'[q] = m_State[q]
    BY <1>2, <1>5, <1>6 DEF User
  <2>2. UNCHANGED <<sender, m_Threads, pidNode>> /\ pc[t] # "exited"
    BY <1>3
  <2>3. sender.code = "0"
    BY <1>1, <1>4 DEF SenderInv
  <2> QED BY <1>3, <2>1, <2>2, <2>3, LivingWrites
<1> QED BY <1>5, <1>7, <1>9, <1>10, QuietStep DEF IInv

(***************************************************************************)
(* A thread goes on towards its end, and writes no more than the status of *)
(* its process.                                                            *)
(***************************************************************************)
LEMMA GoesOn ==
    ASSUME IInv, NEW t \in Threads, tstate[t] = "Ready", pc[t] \in {"user", "dying", "status"},
           NEW label \in {"dying", "status", "exiting"}, pc' = [pc EXCEPT ![t] = label],
           cur' \in [Threads -> Codes], si_code' \in [Procs -> Codes],
           \A q \in Procs \ {Owner[t]} : si_code'[q] = si_code[q],
           UNCHANGED <<g_PIDMapMutex, pidNode, m_Parent, m_Children, m_StoppedThreadCount, m_State, m_Threads,
                       m_ChildrenCondition, tstate, pending, canceled, want, found, sender, panicked, init,
                       sent>>
    PROVE  IInv'
<1>1. TypeInv
  BY DEF IInv
<1>2. /\ pc' \in [Threads -> Labels]
      /\ \A u \in Threads : pc'[u] = IF u = t THEN label ELSE pc[u]
  BY <1>1 DEF TypeInv, Labels
<1>3. TypeInv'
  BY <1>1, <1>2 DEF TypeInv
<1>4. Quiet
  <2>1. Unlinks({})
    BY KeepsNodes
  <2>2. \E P : Unlinks(P) /\ \A u \in P : tstate'[u] # "Waiting"
    BY <2>1
  <2> QED BY <1>2, <2>2 DEF Quiet
<1>5. StopInv'
  BY StopKept
<1>6. SenderInv' /\ DeadInv'
  <2>1. \A q \in User \ {Owner[t]} : si_code'[q] = si_code[q] /\ m_State'[q] = m_State[q]
    BY DEF User
  <2>2. UNCHANGED <<sender, m_Threads, pidNode, g_PIDMapMutex>> /\ pc[t] # "exited"
    OBVIOUS
  <2> QED BY <2>1, <2>2, LivingWrites
<1> QED BY <1>3, <1>4, <1>5, <1>6, QuietStep DEF IInv

\* A thread returns from its function.
LEMMA FinishStep ==
    ASSUME IInv, NEW t \in Threads, Finish(t)
    PROVE  IInv'
<1>1. TypeInv
  BY DEF IInv
<1>2. /\ tstate[t] = "Ready" /\ pc[t] = "user" /\ pc' = [pc EXCEPT ![t] = "dying"]
      /\ UNCHANGED <<g_PIDMapMutex, pidNode, m_Parent, m_Children, m_StoppedThreadCount, m_State, m_Threads,
                     si_code, m_ChildrenCondition, tstate, pending, canceled, want, found, cur, sender,
                     panicked, init, sent>>
  BY DEF Finish, At, Goto, treeVars, stopVars, readVars
<1>3. cur' \in [Threads -> Codes] /\ si_code' \in [Procs -> Codes]
  BY <1>1, <1>2 DEF TypeInv
<1> QED BY <1>2, <1>3, GoesOn

\* kthread_exit: the main thread looks at the status.
LEMMA ThreadExitStep ==
    ASSUME IInv, NEW t \in Threads, ThreadExit(t)
    PROVE  IInv'
<1>1. TypeInv
  BY DEF IInv
<1>2. PICK p, label : p = Owner[t] /\ label = IF t = MainThread[p] THEN "status" ELSE "exiting"
  OBVIOUS
<1>3. /\ tstate[t] = "Ready" /\ pc[t] = "dying" /\ pc' = [pc EXCEPT ![t] = label]
      /\ cur' = cur \/ cur' = [cur EXCEPT ![t] = si_code[p]]
      /\ UNCHANGED <<g_PIDMapMutex, pidNode, m_Parent, m_Children, m_StoppedThreadCount, m_State, m_Threads,
                     si_code, m_ChildrenCondition, tstate, pending, canceled, want, found, sender, panicked,
                     init, sent>>
  BY <1>2 DEF ThreadExit, At, Goto, treeVars, stopVars
<1>4. label \in {"dying", "status", "exiting"}
  BY <1>2
<1>5. si_code' \in [Procs -> Codes] /\ cur' \in [Threads -> Codes]
  <2>1. si_code[p] \in Codes
    BY <1>1, <1>2 DEF TypeInv, User
  <2>2. PICK read : read = si_code[p]
    OBVIOUS
  <2>3. cur' = cur \/ cur' = [cur EXCEPT ![t] = read]
    BY <1>3, <2>2
  <2>4. cur \in [Threads -> Codes] /\ si_code' \in [Procs -> Codes]
    BY <1>1, <1>3 DEF TypeInv
  <2> QED BY <2>1, <2>2, <2>3, <2>4
<1> QED BY <1>3, <1>4, <1>5, GoesOn

\* ... and sets it.
LEMMA MainThreadExitStep ==
    ASSUME IInv, NEW t \in Threads, MainThreadExit(t)
    PROVE  IInv'
<1>1. TypeInv
  BY DEF IInv
<1>2. PICK p, read : p = Owner[t] /\ read = cur[t]
  OBVIOUS
<1>3. /\ tstate[t] = "Ready" /\ pc[t] = "status" /\ pc' = [pc EXCEPT ![t] = "exiting"]
      /\ SetExitStatus(p, read, "EXITED") /\ cur' = [cur EXCEPT ![t] = "0"]
      /\ UNCHANGED <<g_PIDMapMutex, pidNode, m_Parent, m_Children, m_StoppedThreadCount, m_State, m_Threads,
                     m_ChildrenCondition, tstate, pending, canceled, want, found, sender, panicked, init, sent>>
  BY <1>2 DEF MainThreadExit, At, Goto, treeVars, stopVars
<1>4. si_code' \in [Procs -> Codes] /\ \A q \in Procs \ {p} : si_code'[q] = si_code[q]
  <2>1. p \in Procs /\ read \in Codes
    BY <1>1, <1>2 DEF TypeInv, User
  <2>2. "EXITED" \in {"STOPPED", "CONTINUED"} \cup Death
    BY DEF Death
  <2> QED BY <1>1, <1>3, <2>1, <2>2, SetExitStatusKeeps
<1>5. cur' \in [Threads -> Codes]
  BY <1>1, <1>3 DEF TypeInv, Codes
<1> QED BY <1>2, <1>3, <1>4, <1>5, GoesOn

-----------------------------------------------------------------------------
(* Birth *)

\* A process is started, with its main thread.
LEMMA SpawnProcessStep ==
    ASSUME IInv, NEW t \in Threads, NEW c \in User, SpawnProcess(t, c)
    PROVE  IInv'
<1>1. TypeInv /\ ThreadInv /\ QueueInv /\ ProcInv /\ TreeInv /\ StopInv /\ c \in Procs
  BY DEF IInv, User
<1>2. PICK p, m : p = Owner[t] /\ m = MainThread[c]
  OBVIOUS
<1>3. /\ g_PIDMapMutex = NULL /\ sender.code = "0"
      /\ tstate[t] = "Ready" /\ pc[t] = "user" /\ m_State[c] = "Unborn"
      /\ pidNode' = pidNode \cup {c}
      /\ m_State' = [m_State EXCEPT ![c] = "Running"]
      /\ m_Parent' = [m_Parent EXCEPT ![c] = p]
      /\ m_Children' = [m_Children EXCEPT ![p] = Append(@, c)]
      /\ m_Threads' = [m_Threads EXCEPT ![c] = {m}]
      /\ tstate' = [tstate EXCEPT ![m] = "Ready"]
      /\ UNCHANGED <<g_PIDMapMutex, m_StoppedThreadCount, si_code, m_ChildrenCondition, pc, pending,
                     canceled, want, found, cur, sender, panicked,
                     init, sent>>
  BY <1>2 DEF SpawnProcess, MutexFree, At, stopVars, readVars
<1>4. /\ p \in User /\ p \in Procs /\ p # gk_KernelProcess /\ t \in m_Threads[p] /\ p \in pidNode
      /\ m_State[p] # "Unborn" /\ p # c /\ p # NULL /\ c # gk_KernelProcess
  BY <1>2, <1>3, ReadyIsMember DEF User
<1>5. m \in Threads /\ Owner[m] = c /\ \A u \in Threads : Owner[u] = c => tstate[u] = "Unborn" /\ pc[u] = "user"
  BY <1>1, <1>2, <1>3 DEF ThreadInv, ProcInv
<1>6. c \notin pidNode /\ m_Parent[c] = NULL
  BY <1>1, <1>3 DEF ProcInv, TreeInv
<1>7. /\ \A u \in Threads : tstate'[u] = IF u = m THEN "Ready" ELSE tstate[u]
      /\ \A q \in Procs : m_Threads'[q] = IF q = c THEN {m} ELSE m_Threads[q]
      /\ \A q \in Procs : m_State'[q] = IF q = c THEN "Running" ELSE m_State[q]
      /\ \A q \in Procs : m_Parent'[q] = IF q = c THEN p ELSE m_Parent[q]
  BY <1>1, <1>3, <1>5 DEF TypeInv
<1>8. /\ Append(m_Children[p], c) \in Seq(User) /\ OneNodeEach(Append(m_Children[p], c))
      /\ Linked(Append(m_Children[p], c)) = Linked(m_Children[p]) \cup {c}
  <2>1. c \notin Linked(m_Children[p]) /\ m_Children[p] \in Seq(User) /\ OneNodeEach(m_Children[p])
    BY <1>1, <1>4, <1>6 DEF TreeInv, TypeInv
  <2> QED BY <2>1, AppendLinked
<1>9. TypeInv'
  <2>1. m_Children' \in [Procs -> Seq(User)]
    BY <1>1, <1>3, <1>4, <1>8 DEF TypeInv
  <2>2. m_State' \in [Procs -> ProcStates]
    BY <1>1, <1>3 DEF TypeInv, ProcStates
  <2> QED BY <1>1, <1>3, <1>4, <1>5, <2>1, <2>2 DEF TypeInv
<1>10. ThreadInv'
  <2>1. ASSUME NEW q \in Procs PROVE m_Threads'[q] = Members(q)'
    <3>1. CASE q = c
      <4>1. Members(q)' = {m}
        BY <1>3, <1>5, <1>7, <3>1 DEF Members
      <4> QED BY <1>7, <3>1, <4>1
    <3>2. CASE q # c
      <4>1. Members(q)' = Members(q)
        BY <1>3, <1>5, <1>7, <3>2 DEF Members
      <4> QED BY <1>1, <1>7, <3>2, <4>1 DEF ThreadInv
    <3> QED BY <3>1, <3>2
  <2>2. ASSUME NEW u \in Threads
        PROVE  /\ tstate'[u] = "Unborn" => pc'[u] = "user"
               /\ tstate'[u] = "Waiting" => u \in Linked(m_ChildrenCondition'[Owner[u]])
               /\ tstate'[u] = "Stopped" => pc'[u] \in {"user", "dying"}
               /\ tstate'[u] \in {"Zombie", "Deleted"} => pc'[u] = "exited"
               /\ pc'[u] \in {"looked", "again", "found", "kexit"} => g_PIDMapMutex' = u
               /\ pc'[u] \in {"looked", "again", "found", "asleep"} => want'[u] \in Waits[Owner[u]]
    BY <1>1, <1>3, <1>7 DEF ThreadInv
  <2> QED BY <2>1, <2>2 DEF ThreadInv
<1>11. QueueInv'
  BY <1>1, <1>3 DEF QueueInv
<1>12. ProcInv'
  <2> SUFFICES ASSUME NEW q \in User
               PROVE  /\ m_State'[q] = "Unborn" => q \notin pidNode' /\ \A u \in Threads : Owner[u] = q => tstate'[u] = "Unborn"
                      /\ m_State'[q] # "Unborn" => tstate'[MainThread[q]] # "Unborn"
                      /\ m_State'[q] = "Zombie" => m_Threads'[q] = {}
                      /\ m_Threads'[q] # {} => q \in pidNode'
    BY DEF ProcInv
  <2>1. q \in Procs /\ MainThread[q] \in Threads
    BY DEF User
  <2>2. CASE q = c
    BY <1>2, <1>3, <1>5, <1>7, <2>1, <2>2
  <2>3. CASE q # c
    BY <1>1, <1>3, <1>5, <1>7, <2>1, <2>3 DEF ProcInv
  <2> QED BY <2>2, <2>3
<1>13. TreeInv'
  <2>1. m_Parent'[gk_KernelProcess] = NULL
    BY <1>1, <1>4, <1>7 DEF TreeInv
  <2>2. ASSUME NEW q \in Procs
        PROVE  OneNodeEach(m_Children'[q]) /\ Linked(m_Children'[q]) = {x \in User : m_Parent'[x] = q}
    <3>1. Linked(m_Children[q]) = {x \in User : m_Parent[x] = q} /\ OneNodeEach(m_Children[q])
      BY <1>1 DEF TreeInv
    <3>2. \A x \in User : m_Parent'[x] = IF x = c THEN p ELSE m_Parent[x]
      BY <1>7 DEF User
    <3>3. CASE q = p
      <4>1. m_Children'[q] = Append(m_Children[p], c)
        BY <1>1, <1>3, <3>3 DEF TypeInv
      <4>2. OneNodeEach(m_Children'[q])
        BY <1>8, <4>1
      <4>3. Linked(m_Children'[q]) = {x \in User : m_Parent[x] = q} \cup {c}
        BY <1>8, <3>1, <3>3, <4>1
      <4>4. {x \in User : m_Parent'[x] = q} = {x \in User : m_Parent[x] = q} \cup {c}
        BY <3>2, <3>3
      <4> QED BY <4>2, <4>3, <4>4
    <3>4. CASE q # p
      <4>1. m_Children'[q] = m_Children[q]
        BY <1>1, <1>3, <3>4 DEF TypeInv
      <4>2. {x \in User : m_Parent'[x] = q} = {x \in User : m_Parent[x] = q}
        BY <1>6, <3>2, <3>4
      <4> QED BY <3>1, <4>1, <4>2
    <3> QED BY <3>3, <3>4
  <2>3. ASSUME NEW x \in User
        PROVE  /\ x \in pidNode' <=> m_Parent'[x] # NULL
               /\ x \in pidNode' => m_Parent'[x] = gk_KernelProcess \/ m_Threads'[m_Parent'[x]] # {}
    <3>1. x \in Procs /\ (x \in pidNode => m_Parent[x] \in Procs)
      BY <1>1 DEF User, TreeInv, TypeInv
    <3>2. CASE x = c
      BY <1>3, <1>4, <1>7, <3>1, <3>2
    <3>3. CASE x # c
      <4>1. m_Parent'[x] = m_Parent[x] /\ (x \in pidNode' <=> x \in pidNode)
        BY <1>3, <1>7, <3>1, <3>3
      <4>2. \A q \in Procs : m_Threads[q] # {} => m_Threads'[q] # {}
        BY <1>7
      <4> QED BY <1>1, <3>1, <4>1, <4>2 DEF TreeInv
    <3> QED BY <3>2, <3>3
  <2> QED BY <2>1, <2>2, <2>3 DEF TreeInv
<1>14. StopInv'
  <2>1. \A q \in Procs : m_Threads[q] = Members(q)
    BY <1>1 DEF ThreadInv
  <2>2. StoppedOf(c)' = {} /\ StoppedOf(c) = {}
    BY <1>1, <1>5, <1>7, <2>1 DEF StoppedOf, Members
  <2>3. \A q \in Procs \ {c} : StoppedOf(q)' = StoppedOf(q)
    BY <1>5, <1>7, <2>1 DEF StoppedOf, Members
  <2>4. \A q \in Procs : StoppedOf(q)' = StoppedOf(q)
    BY <2>2, <2>3
  <2> QED BY <1>1, <1>3, <2>4 DEF StopInv
<1>15. SenderInv' /\ DeadInv' /\ FoundInv'
  <2>1. \A q \in User : m_Threads'[q] = {} =>
            m_Threads[q] = {} /\ si_code'[q] = si_code[q] /\ m_State'[q] = m_State[q]
    <3>1. m_Threads'[c] # {} /\ User \subseteq Procs
      BY <1>1, <1>7 DEF User
    <3> QED BY <1>3, <1>7, <3>1
  <2>2. SenderInv' /\ DeadInv'
    BY <1>3, <2>1, DeadKept
  <2> QED BY <1>3, <2>2, FoundFree
<1>16. ASSUME NEW q \in User, ExitWaits(q), Sleepers(q)' # {}
       PROVE  Cardinality(Zombies(q)') <= Cardinality(Looking(q)')
  <2>1. q \in Procs
    BY DEF User
  <2>2. Zombies(q)' \subseteq Zombies(q)
    BY <1>7 DEF Zombies, User
  <2>3. Looking(q) \subseteq Looking(q)'
    <3>1. CASE q = c
      <4>1. m_Threads[q] = {}
        BY <1>1, <1>5, <3>1 DEF ThreadInv, Members
      <4> QED BY <4>1 DEF Looking
    <3>2. CASE q # c
      BY <1>3, <1>7, <2>1, <3>2 DEF Looking
    <3> QED BY <3>1, <3>2
  <2>4. Sleepers(q)' \subseteq Sleepers(q)
    BY <1>3 DEF Sleepers
  <2> QED BY <1>9, <1>16, <2>2, <2>3, <2>4, ExitKept
<1>17. ExitInv'
  BY <1>16 DEF ExitInv, ExitWaits
<1> QED BY <1>9, <1>10, <1>11, <1>12, <1>13, <1>14, <1>15, <1>17 DEF IInv

\* A thread is started.
LEMMA AddThreadStep ==
    ASSUME IInv, NEW t \in Threads, NEW u \in Threads, AddThread(t, u)
    PROVE  IInv'
<1>1. TypeInv /\ ThreadInv /\ QueueInv /\ ProcInv /\ TreeInv /\ StopInv
  BY DEF IInv
<1>2. PICK p : p = Owner[t]
  OBVIOUS
<1>3. /\ g_PIDMapMutex = NULL /\ sender.code = "0"
      /\ tstate[t] = "Ready" /\ pc[t] = "user" /\ Owner[u] = p /\ tstate[u] = "Unborn"
      /\ m_Threads' = [m_Threads EXCEPT ![p] = @ \cup {u}]
      /\ tstate' = [tstate EXCEPT ![u] = "Ready"]
      /\ UNCHANGED <<g_PIDMapMutex, pidNode, m_Parent, m_Children, m_StoppedThreadCount, m_State, si_code,
                     m_ChildrenCondition, pc, pending, canceled, want, found, cur, sender, panicked,
                     init, sent>>
  BY <1>2 DEF AddThread, MutexFree, At, stopVars, treeVars, readVars
<1>4. p \in User /\ p \in Procs /\ t \in m_Threads[p] /\ p \in pidNode /\ m_State[p] \notin {"Unborn", "Zombie"}
  BY <1>2, <1>3, ReadyIsMember
<1>5. pc[u] = "user"
  BY <1>1, <1>3 DEF ThreadInv
<1>6. /\ \A v \in Threads : tstate'[v] = IF v = u THEN "Ready" ELSE tstate[v]
      /\ \A q \in Procs : m_Threads'[q] = IF q = p THEN m_Threads[q] \cup {u} ELSE m_Threads[q]
  BY <1>1, <1>3 DEF TypeInv
<1>7. TypeInv'
  <2>1. m_Threads' \in [Procs -> SUBSET Threads]
    BY <1>1, <1>3, <1>4 DEF TypeInv
  <2> QED BY <1>1, <1>3, <2>1 DEF TypeInv
<1>8. ThreadInv'
  <2>1. ASSUME NEW q \in Procs PROVE m_Threads'[q] = Members(q)'
    <3>1. Members(q)' = IF q = p THEN Members(q) \cup {u} ELSE Members(q)
      BY <1>3, <1>5, <1>6 DEF Members
    <3> QED BY <1>1, <1>6, <3>1 DEF ThreadInv
  <2>2. ASSUME NEW v \in Threads
        PROVE  /\ tstate'[v] = "Unborn" => pc'[v] = "user"
               /\ tstate'[v] = "Waiting" => v \in Linked(m_ChildrenCondition'[Owner[v]])
               /\ tstate'[v] = "Stopped" => pc'[v] \in {"user", "dying"}
               /\ tstate'[v] \in {"Zombie", "Deleted"} => pc'[v] = "exited"
               /\ pc'[v] \in {"looked", "again", "found", "kexit"} => g_PIDMapMutex' = v
               /\ pc'[v] \in {"looked", "again", "found", "asleep"} => want'[v] \in Waits[Owner[v]]
    BY <1>1, <1>3, <1>6 DEF ThreadInv
  <2> QED BY <2>1, <2>2 DEF ThreadInv
<1>9. QueueInv'
  BY <1>1, <1>3 DEF QueueInv
<1>10. ProcInv'
  <2> SUFFICES ASSUME NEW q \in User
               PROVE  /\ m_State'[q] = "Unborn" => q \notin pidNode' /\ \A v \in Threads : Owner[v] = q => tstate'[v] = "Unborn"
                      /\ m_State'[q] # "Unborn" => tstate'[MainThread[q]] # "Unborn"
                      /\ m_State'[q] = "Zombie" => m_Threads'[q] = {}
                      /\ m_Threads'[q] # {} => q \in pidNode'
    BY DEF ProcInv
  <2>1. q \in Procs /\ MainThread[q] \in Threads
    BY DEF User
  <2>2. CASE q = p
    BY <1>1, <1>3, <1>4, <1>6, <2>1, <2>2 DEF ProcInv
  <2>3. CASE q # p
    BY <1>1, <1>3, <1>6, <2>1, <2>3 DEF ProcInv
  <2> QED BY <2>2, <2>3
<1>11. TreeInv'
  <2>1. ASSUME NEW x \in User, x \in pidNode, m_Parent[x] # gk_KernelProcess
        PROVE  m_Threads'[m_Parent[x]] # {}
    <3>1. m_Parent[x] \in Procs /\ m_Threads[m_Parent[x]] # {}
      BY <1>1, <2>1 DEF TreeInv, TypeInv, User
    <3> QED BY <1>6, <3>1
  <2> QED BY <1>1, <1>3, <2>1 DEF TreeInv
<1>12. StopInv'
  <2>1. \A q \in Procs : StoppedOf(q)' = StoppedOf(q)
    <3>1. \A q \in Procs : m_Threads[q] \subseteq Threads
      BY <1>1 DEF TypeInv
    <3> QED BY <1>3, <1>6, <3>1 DEF StoppedOf
  <2> QED BY <1>1, <1>3, <2>1 DEF StopInv
<1>13. SenderInv' /\ DeadInv' /\ FoundInv'
  <2>1. \A q \in User : m_Threads'[q] = {} =>
            m_Threads[q] = {} /\ si_code'[q] = si_code[q] /\ m_State'[q] = m_State[q]
    BY <1>3, <1>6 DEF User
  <2>2. SenderInv' /\ DeadInv'
    BY <1>3, <2>1, DeadKept
  <2> QED BY <1>3, <2>2, FoundFree
<1>14. ASSUME NEW q \in User, ExitWaits(q), Sleepers(q)' # {}
       PROVE  Cardinality(Zombies(q)') <= Cardinality(Looking(q)')
  <2>1. q \in Procs
    BY DEF User
  <2>2. Zombies(q)' \subseteq Zombies(q)
    BY <1>3 DEF Zombies
  <2>3. Looking(q) \subseteq Looking(q)'
    BY <1>3, <1>6, <2>1 DEF Looking
  <2>4. Sleepers(q)' \subseteq Sleepers(q)
    BY <1>3 DEF Sleepers
  <2> QED BY <1>7, <1>14, <2>2, <2>3, <2>4, ExitKept
<1>15. ExitInv'
  BY <1>14 DEF ExitInv, ExitWaits
<1> QED BY <1>7, <1>8, <1>9, <1>10, <1>11, <1>12, <1>13, <1>15 DEF IInv

-----------------------------------------------------------------------------
(* A thread leaves its process *)

\* The children of a process that ends go to the kernel process.
LEMMA OrphansInherited ==
    ASSUME IInv, NEW p \in User, HandleExit(p), UNCHANGED pidNode,
           m_Threads' = [m_Threads EXCEPT ![p] = {}]
    PROVE  /\ m_Children' \in [Procs -> Seq(User)] /\ m_Parent' \in [Procs -> Procs \cup {NULL}]
           /\ \A c \in User : m_Parent'[c] = IF m_Parent[c] = p THEN gk_KernelProcess ELSE m_Parent[c]
           /\ TreeInv'
<1>1. TypeInv /\ TreeInv /\ p \in Procs /\ p # gk_KernelProcess
  BY DEF IInv, User
<1>2. PICK k : k = gk_KernelProcess
  OBVIOUS
<1>3. PICK mine, kin : mine = m_Children[p] /\ kin = m_Children[k]
  OBVIOUS
<1>4. /\ mine \in Seq(User) /\ OneNodeEach(mine) /\ Linked(mine) = {c \in User : m_Parent[c] = p}
      /\ kin \in Seq(User) /\ OneNodeEach(kin) /\ Linked(kin) = {c \in User : m_Parent[c] = k}
      /\ k \in Procs /\ k # p /\ k # NULL /\ m_Parent[k] = NULL /\ k \notin User
  BY <1>1, <1>2, <1>3 DEF TypeInv, TreeInv, User
<1>5. /\ kin \o mine \in Seq(User) /\ OneNodeEach(kin \o mine)
      /\ Linked(kin \o mine) = Linked(kin) \cup Linked(mine)
  <2>1. Linked(kin) \cap Linked(mine) = {}
    BY <1>4
  <2> QED BY <1>4, <2>1, ConcatLinked
<1>6. <<>> \in Seq(User) /\ Linked(<<>>) = {} /\ OneNodeEach(<<>>)
  BY EmptyLinked
<1>7. /\ m_Children' \in [Procs -> Seq(User)]
      /\ \A q \in Procs : m_Children'[q] = IF q = p THEN <<>>
                                           ELSE IF q = k /\ mine # <<>> THEN kin \o mine ELSE m_Children[q]
      /\ m_Parent' \in [Procs -> Procs \cup {NULL}]
      /\ \A c \in Procs : m_Parent'[c] = IF c \in Linked(mine) THEN k ELSE m_Parent[c]
  <2>1. m_Children \in [Procs -> Seq(User)] /\ m_Parent \in [Procs -> Procs \cup {NULL}]
    BY <1>1 DEF TypeInv
  <2>2. CASE mine = <<>>
    <3>1. m_Children' = m_Children /\ m_Parent' = m_Parent
      BY <1>3, <2>2 DEF HandleExit
    <3> QED BY <1>3, <1>6, <2>1, <2>2, <3>1
  <2>3. CASE mine # <<>>
    <3>1. /\ m_Children' = [m_Children EXCEPT ![k] = kin \o mine, ![p] = <<>>]
          /\ m_Parent' = [c \in Procs |-> IF c \in Linked(mine) THEN k ELSE m_Parent[c]]
      BY <1>2, <1>3, <2>3 DEF HandleExit
    <3>2. m_Children' \in [Procs -> Seq(User)]
      BY <1>1, <1>4, <1>5, <1>6, <2>1, <3>1
    <3>3. \A q \in Procs : m_Children'[q] = IF q = p THEN <<>> ELSE IF q = k THEN kin \o mine ELSE m_Children[q]
      BY <1>1, <1>4, <2>1, <3>1
    <3>4. m_Parent' \in [Procs -> Procs \cup {NULL}]
      BY <1>4, <2>1, <3>1
    <3> QED BY <2>3, <3>1, <3>2, <3>3, <3>4
  <2> QED BY <2>2, <2>3
<1>8. \A c \in User : m_Parent'[c] = IF m_Parent[c] = p THEN k ELSE m_Parent[c]
  BY <1>4, <1>7 DEF User
<1>9. ASSUME NEW q \in Procs
      PROVE  OneNodeEach(m_Children'[q]) /\ Linked(m_Children'[q]) = {c \in User : m_Parent'[c] = q}
  <2>1. OneNodeEach(m_Children[q]) /\ Linked(m_Children[q]) = {c \in User : m_Parent[c] = q}
    BY <1>1 DEF TreeInv
  <2>2. CASE q = p
    <3>1. m_Children'[q] = <<>>
      BY <1>7, <2>2
    <3>2. {c \in User : m_Parent'[c] = q} = {}
      BY <1>4, <1>8, <2>2
    <3> QED BY <1>6, <3>1, <3>2
  <2>3. CASE q = k
    <3>1. {c \in User : m_Parent'[c] = k} = Linked(kin) \cup Linked(mine)
      BY <1>4, <1>8
    <3>2. CASE mine = <<>>
      BY <1>3, <1>4, <1>6, <1>7, <2>3, <3>1, <3>2
    <3>3. CASE mine # <<>>
      BY <1>4, <1>5, <1>7, <2>3, <3>1, <3>3
    <3> QED BY <3>2, <3>3
  <2>4. CASE q # p /\ q # k
    <3>1. {c \in User : m_Parent'[c] = q} = {c \in User : m_Parent[c] = q}
      BY <1>8, <2>4
    <3> QED BY <1>7, <2>1, <2>4, <3>1
  <2> QED BY <2>2, <2>3, <2>4
<1>10. ASSUME NEW c \in User
       PROVE  /\ c \in pidNode' <=> m_Parent'[c] # NULL
              /\ c \in pidNode' => m_Parent'[c] = k \/ m_Threads'[m_Parent'[c]] # {}
  <2>1. c \in pidNode' <=> m_Parent[c] # NULL
    BY <1>1 DEF TreeInv
  <2>2. CASE m_Parent[c] = p
    BY <1>1, <1>4, <1>8, <2>1, <2>2
  <2>3. CASE m_Parent[c] # p
    <3>1. m_Parent'[c] = m_Parent[c]
      BY <1>8, <2>3
    <3>2. \A q \in Procs \ {p} : m_Threads'[q] = m_Threads[q]
      BY <1>1 DEF TypeInv
    <3>3. c \in pidNode => m_Parent[c] \in Procs /\ (m_Parent[c] = k \/ m_Threads[m_Parent[c]] # {})
      BY <1>1, <1>2 DEF TreeInv, TypeInv, User
    <3> QED BY <2>1, <2>3, <3>1, <3>2, <3>3
  <2> QED BY <2>2, <2>3
<1>11. m_Parent'[k] = NULL
  BY <1>4, <1>7
<1>12. TreeInv'
  BY <1>2, <1>9, <1>10, <1>11 DEF TreeInv
<1> QED BY <1>2, <1>7, <1>8, <1>12

(***************************************************************************)
(* The exit of the last thread has woken a sleeper of the parent, and      *)
(* nobody is on the way into the queue.                                    *)
(***************************************************************************)
LEMMA ExitSeen ==
    ASSUME IInv, TypeInv', MutexFree, NEW p \in User, NEW t \in Threads, pc[t] = "exiting",
           UNCHANGED g_PIDMapMutex,
           pc' = [pc EXCEPT ![t] = "exited"], m_Threads' = [m_Threads EXCEPT ![p] = @ \ {t}],
           \A c \in User : m_Parent'[c] = IF m_Parent[c] = p THEN gk_KernelProcess ELSE m_Parent[c],
           \A c \in User \ {p} : m_State'[c] = m_State[c],
           NEW P \in SUBSET Linked(m_ChildrenCondition[m_Parent[p]]), Unlinks(P),
           m_Parent[p] \in Procs, m_ChildrenCondition[m_Parent[p]] # <<>> => P # {}
    PROVE  ExitInv'
<1>1. TypeInv /\ ThreadInv /\ QueueInv
  BY DEF IInv
<1>2. PICK q : q = m_Parent[p]
  OBVIOUS
<1>3. \A r \in Procs : /\ Linked(m_ChildrenCondition'[r]) = Linked(m_ChildrenCondition[r]) \ P
                       /\ Linked(m_ChildrenCondition[r]) \subseteq Threads
                       /\ m_Threads[r] \subseteq Threads
                       /\ \A u \in Linked(m_ChildrenCondition[r]) : Owner[u] = r /\ pc[u] = "asleep"
  <2> TAKE r \in Procs
  <2>1. Linked(m_ChildrenCondition'[r]) = Linked(m_ChildrenCondition[r]) \ P
    BY DEF Unlinks
  <2>2. m_ChildrenCondition[r] \in Seq(Threads) /\ m_Threads[r] \subseteq Threads
    BY <1>1 DEF TypeInv
  <2>3. Linked(m_ChildrenCondition[r]) \subseteq Threads
    BY <2>2, LinkedAt
  <2> QED BY <1>1, <2>1, <2>2, <2>3 DEF QueueInv
<1>4. \A u \in Threads : pc'[u] = IF u = t THEN "exited" ELSE pc[u]
  BY <1>1 DEF TypeInv
<1>5. \A r \in Procs : m_Threads'[r] = m_Threads[r] \/ m_Threads'[r] = m_Threads[r] \ {t}
  BY <1>1 DEF TypeInv
<1>6. \A u \in Threads : pc[u] \notin {"looked", "again"}
  BY <1>1 DEF ThreadInv, MutexFree
<1>7. ASSUME NEW r \in User, ExitWaits(r), Sleepers(r)' # {}
      PROVE  Cardinality(Zombies(r)') <= Cardinality(Looking(r)')
  <2>1. r \in Procs /\ r # gk_KernelProcess
    BY DEF User
  <2>2. Looking(r) \subseteq Looking(r)'
    <3> SUFFICES ASSUME NEW u \in Looking(r) PROVE u \in Looking(r)'
      OBVIOUS
    <3>1. /\ u \in m_Threads[r] /\ u \in Threads /\ pc[u] \in {"asleep", "again", "found"}
          /\ u \notin Linked(m_ChildrenCondition[r])
      BY <1>3, <2>1 DEF Looking
    <3>2. u # t /\ pc'[u] \in {"asleep", "again", "found"}
      BY <1>4, <3>1
    <3>3. u \in m_Threads'[r]
      BY ONLY <1>5, <2>1, <3>1, <3>2
    <3>4. u \notin Linked(m_ChildrenCondition'[r])
      BY ONLY <1>3, <2>1, <3>1
    <3> QED BY <3>2, <3>3, <3>4 DEF Looking
  <2>3. Sleepers(r)' \subseteq Linked(m_ChildrenCondition[r]) /\ Sleepers(r)' \subseteq Sleepers(r)
    <3>1. Linked(m_ChildrenCondition'[r]) \subseteq Linked(m_ChildrenCondition[r])
      BY <1>3, <2>1
    <3>2. \A u \in Threads : pc'[u] # "looked"
      BY <1>4, <1>6
    <3> QED BY <3>1, <3>2 DEF Sleepers
  <2>4. CASE r # q
    <3>1. Zombies(r)' \subseteq Zombies(r)
      <4> SUFFICES ASSUME NEW c \in User, m_Parent'[c] = r, m_State'[c] = "Zombie"
                   PROVE  m_Parent[c] = r /\ m_State[c] = "Zombie"
        BY DEF Zombies
      <4>1. m_Parent[c] = r
        BY <2>1
      <4>2. c # p
        BY <1>2, <2>4, <4>1
      <4> QED BY <4>1, <4>2
    <3> QED BY <1>7, <2>2, <2>3, <3>1, ExitKept
  <2>5. CASE r = q
    <3>1. Zombies(r)' \subseteq Zombies(r) \cup {p}
      BY <2>1 DEF Zombies
    <3>2. Linked(m_ChildrenCondition[r]) # {} /\ m_ChildrenCondition[r] # <<>>
      BY <1>7, <2>3, EmptyLinked
    <3>3. PICK h : h \in P /\ h \in Linked(m_ChildrenCondition[r])
      BY <1>2, <2>5, <3>2
    <3>4. /\ h \in Threads /\ Owner[h] = r /\ pc[h] = "asleep" /\ h # t
          /\ h \notin Linked(m_ChildrenCondition'[r])
      BY <1>3, <2>1, <3>3
    <3>5. h \in m_Threads[r]
      BY <1>1, <2>1, <3>4 DEF ThreadInv, Members
    <3>6. h \in Looking(r)' /\ h \notin Looking(r)
      BY <1>4, <1>5, <2>1, <3>3, <3>4, <3>5 DEF Looking
    <3>7. PICK Z, L : Z = Zombies(r) \cup {p} /\ L = Looking(r) \cup {h}
      OBVIOUS
    <3>8. Z \in SUBSET Procs /\ IsFiniteSet(Z) /\ Cardinality(Z) <= Cardinality(Zombies(r)) + 1
      <4>1. IsFiniteSet(Zombies(r)) /\ Cardinality(Zombies(r)) \in Nat
        BY <1>1, <2>1, Sizes
      <4>2. Z \in SUBSET Procs
        BY <3>7 DEF Zombies, User
      <4>3. CASE p \in Zombies(r)
        <5>1. Z = Zombies(r)
          BY <3>7, <4>3
        <5> QED BY <4>1, <4>2, <5>1
      <4>4. CASE p \notin Zombies(r)
        <5>1. IsFiniteSet(Zombies(r) \cup {p}) /\ Cardinality(Zombies(r) \cup {p}) = Cardinality(Zombies(r)) + 1
          BY <4>1, <4>4, FS_AddElement
        <5> QED BY <3>7, <4>1, <4>2, <5>1
      <4> QED BY <4>3, <4>4
    <3>9. Cardinality(L) = Cardinality(Looking(r)) + 1 /\ L \subseteq Looking(r)'
      BY <1>1, <2>1, <2>2, <3>6, <3>7, Sizes, FS_AddElement
    <3>10. Cardinality(Zombies(r)') <= Cardinality(Z)
      BY <3>1, <3>7, <3>8, FS_Subset
    <3>11. Cardinality(L) <= Cardinality(Looking(r)')
      BY <2>1, <3>9, SizesPrime, FS_Subset
    <3>12. Cardinality(Zombies(r)) <= Cardinality(Looking(r))
      BY <1>7, <2>3 DEF IInv, ExitInv
    <3>13. /\ Cardinality(Zombies(r)) \in Nat /\ Cardinality(Looking(r)) \in Nat
           /\ Cardinality(Zombies(r)') \in Nat /\ Cardinality(Looking(r)') \in Nat
      BY <1>1, <2>1, Sizes, SizesPrime
    <3>14. Cardinality(Z) \in Nat
      BY <3>8, FS_CardinalityType
    <3> QED BY <3>8, <3>9, <3>10, <3>11, <3>12, <3>13, <3>14
  <2> QED BY <2>4, <2>5
<1> QED BY <1>7 DEF ExitInv, ExitWaits

\* A thread that leaves, and maybe others that are woken.
LEMMA LeaveKeeps ==
    ASSUME IInv, NEW t \in Threads, tstate[t] = "Ready", pc[t] = "exiting",
           pc' = [pc EXCEPT ![t] = "exited"], m_Threads' = [m_Threads EXCEPT ![Owner[t]] = @ \ {t}],
           UNCHANGED <<g_PIDMapMutex, m_StoppedThreadCount, want>>,
           NEW P, Unlinks(P), \A u \in P : tstate'[u] # "Waiting", Wakes(tstate)
    PROVE  ThreadInv' /\ QueueInv' /\ StopInv'
<1>1. TypeInv /\ ThreadInv /\ QueueInv /\ StopInv
  BY DEF IInv
<1>2. \A u \in Threads : pc'[u] = IF u = t THEN "exited" ELSE pc[u]
  BY <1>1 DEF TypeInv
<1>3. \A u \in Threads : tstate'[u] = tstate[u] \/ (tstate[u] = "Waiting" /\ tstate'[u] = "Ready")
  BY DEF Wakes
<1>4. \A q \in Procs : m_Threads'[q] = IF q = Owner[t] THEN m_Threads[q] \ {t} ELSE m_Threads[q]
  BY <1>1 DEF TypeInv
<1>5. ASSUME NEW r \in Procs
      PROVE  /\ OneNodeEach(m_ChildrenCondition'[r])
             /\ Linked(m_ChildrenCondition'[r]) = Linked(m_ChildrenCondition[r]) \ P
             /\ Linked(m_ChildrenCondition[r]) \subseteq Threads
             /\ \A u \in Linked(m_ChildrenCondition[r]) : Owner[u] = r /\ pc[u] = "asleep"
  <2>1. OneNodeEach(m_ChildrenCondition'[r]) /\ Linked(m_ChildrenCondition'[r]) = Linked(m_ChildrenCondition[r]) \ P
    BY DEF Unlinks
  <2>2. m_ChildrenCondition[r] \in Seq(Threads)
    BY <1>1 DEF TypeInv
  <2>3. Linked(m_ChildrenCondition[r]) \subseteq Threads
    BY <2>2, LinkedAt
  <2> QED BY <1>1, <2>1, <2>3 DEF QueueInv
<1>6. ASSUME NEW q \in Procs PROVE m_Threads'[q] = Members(q)'
  <2>1. Members(q)' = IF q = Owner[t] THEN Members(q) \ {t} ELSE Members(q)
    BY <1>2, <1>3 DEF Members
  <2>2. m_Threads[q] = Members(q)
    BY <1>1 DEF ThreadInv
  <2> QED BY <1>4, <2>1, <2>2
<1>7. ASSUME NEW u \in Threads
      PROVE  /\ tstate'[u] = "Unborn" => pc'[u] = "user"
             /\ tstate'[u] = "Stopped" => pc'[u] \in {"user", "dying"}
             /\ tstate'[u] \in {"Zombie", "Deleted"} => pc'[u] = "exited"
             /\ pc'[u] \in {"looked", "again", "found", "kexit"} => g_PIDMapMutex' = u
             /\ pc'[u] \in {"looked", "again", "found", "asleep"} => want'[u] \in Waits[Owner[u]]
  BY <1>1, <1>2, <1>3 DEF ThreadInv
<1>8. ASSUME NEW u \in Threads, tstate'[u] = "Waiting"
      PROVE  u \in Linked(m_ChildrenCondition'[Owner[u]])
  <2>1. tstate[u] = "Waiting" /\ u \notin P /\ Owner[u] \in Procs
    BY <1>3, <1>8 DEF User
  <2>2. u \in Linked(m_ChildrenCondition[Owner[u]])
    BY <1>1, <2>1 DEF ThreadInv
  <2> QED BY <1>5, <2>1, <2>2
<1>9. ThreadInv'
  BY <1>6, <1>7, <1>8 DEF ThreadInv
<1>10. QueueInv'
  <2>1. ASSUME NEW r \in Procs, NEW u \in Linked(m_ChildrenCondition'[r])
        PROVE  Owner[u] = r /\ pc'[u] = "asleep"
    <3>1. u \in Linked(m_ChildrenCondition[r])
      BY <1>5
    <3>2. u \in Threads /\ Owner[u] = r /\ pc[u] = "asleep"
      BY <1>5, <3>1
    <3> QED BY <1>2, <3>2
  <2> QED BY <1>5, <2>1 DEF QueueInv
<1>11. StopInv'
  <2>1. ASSUME NEW q \in Procs PROVE StoppedOf(q)' = StoppedOf(q)
    <3>1. m_Threads[q] \subseteq Threads
      BY <1>1 DEF TypeInv
    <3>2. \A u \in Threads : tstate'[u] = "Stopped" <=> tstate[u] = "Stopped"
      BY <1>3
    <3>3. m_Threads'[q] = m_Threads[q] \/ m_Threads'[q] = m_Threads[q] \ {t}
      BY <1>4
    <3> QED BY <3>1, <3>2, <3>3 DEF StoppedOf
  <2> QED BY <1>1, <2>1 DEF StopInv
<1> QED BY <1>9, <1>10, <1>11

\* A thread leaves that is not the last.
LEMMA RemoveThreadStep ==
    ASSUME IInv, NEW t \in Threads, RemoveThread(t), m_Threads[Owner[t]] # {t}
    PROVE  IInv'
<1>1. TypeInv /\ ThreadInv /\ ProcInv /\ TreeInv
  BY DEF IInv
<1>2. PICK p : p = Owner[t]
  OBVIOUS
<1>3. /\ g_PIDMapMutex = NULL /\ sender.code = "0"
      /\ tstate[t] = "Ready" /\ pc[t] = "exiting" /\ pc' = [pc EXCEPT ![t] = "exited"]
      /\ m_Threads' = [m_Threads EXCEPT ![p] = @ \ {t}]
      /\ UNCHANGED <<g_PIDMapMutex, pidNode, m_Parent, m_Children, m_StoppedThreadCount, m_State, si_code,
                     m_ChildrenCondition, tstate, pending, canceled, want, found, cur, sender, panicked,
                     init, sent>>
  BY <1>2 DEF RemoveThread, MutexFree, At, Goto, stopVars, readVars
<1>4. p \in User /\ p \in Procs /\ t \in m_Threads[p]
  BY <1>2, <1>3, ReadyIsMember
<1>5. /\ \A u \in Threads : pc'[u] = IF u = t THEN "exited" ELSE pc[u]
      /\ \A q \in Procs : m_Threads'[q] = IF q = p THEN m_Threads[q] \ {t} ELSE m_Threads[q]
  BY <1>1, <1>3 DEF TypeInv
<1>6. TypeInv'
  <2>1. m_Threads' \in [Procs -> SUBSET Threads]
    BY <1>1, <1>3, <1>4 DEF TypeInv
  <2>2. pc' \in [Threads -> Labels]
    BY <1>1, <1>3 DEF TypeInv, Labels
  <2> QED BY <1>1, <1>3, <2>1, <2>2 DEF TypeInv
<1>7. ThreadInv' /\ QueueInv' /\ StopInv'
  <2>1. Unlinks({})
    BY <1>3, KeepsNodes
  <2>2. Wakes(tstate)
    BY <1>1, <1>3 DEF Wakes, TypeInv, TStates
  <2>3. m_Threads' = [m_Threads EXCEPT ![Owner[t]] = @ \ {t}]
    BY <1>2, <1>3
  <2>4. \A u \in {} : tstate'[u] # "Waiting"
    OBVIOUS
  <2>5. UNCHANGED <<g_PIDMapMutex, m_StoppedThreadCount, want>>
    BY <1>3
  <2> QED BY <1>3, <2>1, <2>2, <2>3, <2>4, <2>5, LeaveKeeps
<1>8. \A q \in Procs : m_Threads'[q] = {} <=> m_Threads[q] = {}
  BY <1>2, <1>4, <1>5
<1>9. ProcInv'
  <2>1. User \subseteq Procs
    BY DEF User
  <2> QED BY <1>1, <1>3, <1>8, <2>1 DEF ProcInv
<1>10. TreeInv'
  <2>1. ASSUME NEW c \in User, c \in pidNode, m_Parent[c] # gk_KernelProcess
        PROVE  m_Threads'[m_Parent[c]] # {}
    <3>1. m_Parent[c] \in Procs /\ m_Threads[m_Parent[c]] # {}
      BY <1>1, <2>1 DEF TreeInv, TypeInv, User
    <3> QED BY <1>8, <3>1
  <2> QED BY <1>1, <1>3, <2>1 DEF TreeInv
<1>11. SenderInv' /\ DeadInv' /\ FoundInv'
  <2>1. \A q \in User : m_Threads'[q] = {} =>
            m_Threads[q] = {} /\ si_code'[q] = si_code[q] /\ m_State'[q] = m_State[q]
    BY <1>3, <1>8 DEF User
  <2>2. SenderInv' /\ DeadInv'
    BY <1>3, <2>1, DeadKept
  <2> QED BY <1>3, <1>5, <2>2, FoundFree
<1>12. ASSUME NEW q \in User, ExitWaits(q), Sleepers(q)' # {}
       PROVE  Cardinality(Zombies(q)') <= Cardinality(Looking(q)')
  <2>1. q \in Procs /\ m_Threads[q] \subseteq Threads
    BY <1>1 DEF User, TypeInv
  <2>2. Zombies(q)' \subseteq Zombies(q)
    BY <1>3 DEF Zombies
  <2>3. Looking(q) \subseteq Looking(q)'
    BY <1>3, <1>5, <2>1 DEF Looking
  <2>4. Sleepers(q)' \subseteq Sleepers(q)
    BY <1>3, <1>5 DEF Sleepers
  <2> QED BY <1>6, <1>12, <2>2, <2>3, <2>4, ExitKept
<1>13. ExitInv'
  BY <1>12 DEF ExitInv, ExitWaits
<1> QED BY <1>6, <1>7, <1>9, <1>10, <1>11, <1>13 DEF IInv

\* The last thread leaves, and its process ends.
LEMMA LastThreadStep ==
    ASSUME IInv, NEW t \in Threads, RemoveThread(t), m_Threads[Owner[t]] = {t}
    PROVE  IInv'
<1>1. TypeInv /\ ThreadInv /\ ProcInv /\ TreeInv
  BY DEF IInv
<1>2. PICK p, q : p = Owner[t] /\ q = m_Parent[p]
  OBVIOUS
<1>3. /\ tstate[t] = "Ready" /\ pc[t] = "exiting" /\ pc' = [pc EXCEPT ![t] = "exited"]
      /\ m_Threads' = [m_Threads EXCEPT ![p] = @ \ {t}] /\ m_Threads[p] = {t}
      /\ MutexFree /\ HandleExit(p)
      /\ UNCHANGED <<g_PIDMapMutex, pidNode, m_StoppedThreadCount, pending, canceled, want, found, cur, sender, panicked,
                     sent>>
  BY <1>2 DEF RemoveThread, At, Goto, stopVars, readVars
<1>4. /\ p \in User /\ p \in Procs /\ q \in Procs /\ p \in pidNode
      /\ m_State[p] \notin {"Unborn", "Zombie"}
  BY <1>2, <1>3, ReadyIsMember
<1>5. /\ si_code' = [si_code EXCEPT ![p] = IF @ = "0" THEN "KILLED" ELSE @]
      /\ m_State' = [m_State EXCEPT ![p] = "Zombie"] /\ Notify(q, tstate)
      /\ init' = init \/ init' = "collect"
  BY <1>2, <1>3 DEF HandleExit, WakeInit
<1>6. m_Threads' = [m_Threads EXCEPT ![p] = {}]
  BY <1>1, <1>3 DEF TypeInv
<1>7. /\ m_Children' \in [Procs -> Seq(User)] /\ m_Parent' \in [Procs -> Procs \cup {NULL}]
      /\ \A c \in User : m_Parent'[c] = IF m_Parent[c] = p THEN gk_KernelProcess ELSE m_Parent[c]
      /\ TreeInv'
  <2>1. UNCHANGED pidNode /\ HandleExit(p)
    BY <1>3
  <2> QED BY <1>4, <1>6, <2>1, OrphansInherited
<1>8. PICK P \in SUBSET Linked(m_ChildrenCondition[q]) :
              /\ m_ChildrenCondition[q] # <<>> => P # {}
              /\ Unlinks(P) /\ Wakes(tstate)
              /\ \A u \in P : tstate'[u] # "Waiting"
  <2>1. tstate \in [Threads -> TStates]
    BY <1>1 DEF TypeInv, TStates
  <2> QED BY <1>4, <1>5, <2>1, NotifyWakes
<1>9. /\ si_code' \in [Procs -> Codes]
      /\ si_code'[p] # "0" /\ \A r \in User \ {p} : si_code'[r] = si_code[r]
  <2>1. si_code \in [Procs -> Codes]
    BY <1>1 DEF TypeInv
  <2>2. \A r \in Procs : si_code'[r] = IF r = p /\ si_code[p] = "0" THEN "KILLED" ELSE si_code[r]
    BY <1>5, <2>1
  <2>3. si_code' \in [Procs -> Codes]
    BY <1>5, <2>1 DEF Codes, Death
  <2>4. \A r \in User : r \in Procs
    BY DEF User
  <2> QED BY <1>4, <2>2, <2>3, <2>4
<1>10. TypeInv'
  <2>1. m_Threads' \in [Procs -> SUBSET Threads]
    BY <1>1, <1>4, <1>6 DEF TypeInv
  <2>2. pc' \in [Threads -> Labels]
    BY <1>1, <1>3 DEF TypeInv, Labels
  <2>3. m_State' \in [Procs -> ProcStates]
    BY <1>1, <1>4, <1>5 DEF TypeInv, ProcStates
  <2>4. tstate' \in [Threads -> {"Unborn", "Ready", "Waiting", "Stopped", "Zombie", "Deleted"}]
    BY <1>8 DEF Wakes, TStates
  <2>5. m_ChildrenCondition' \in [Procs -> Seq(Threads)]
    BY <1>8 DEF Unlinks
  <2>6. init' \in {"Waiting", "collect", "reap", "reaped"}
    BY <1>1, <1>5 DEF TypeInv
  <2> QED BY <1>1, <1>3, <1>7, <1>9, <2>1, <2>2, <2>3, <2>4, <2>5, <2>6 DEF TypeInv
<1>11. ThreadInv' /\ QueueInv' /\ StopInv'
  <2>1. m_Threads' = [m_Threads EXCEPT ![Owner[t]] = @ \ {t}]
    BY <1>2, <1>3
  <2>2. UNCHANGED <<g_PIDMapMutex, m_StoppedThreadCount, want>>
    BY <1>3
  <2> QED BY <1>3, <1>8, <2>1, <2>2, LeaveKeeps
<1>12. /\ \A u \in Threads : tstate'[u] = "Unborn" <=> tstate[u] = "Unborn"
       /\ \A r \in Procs : m_Threads'[r] = IF r = p THEN {} ELSE m_Threads[r]
       /\ \A r \in Procs : m_State'[r] = IF r = p THEN "Zombie" ELSE m_State[r]
       /\ \A u \in Threads : pc'[u] = IF u = t THEN "exited" ELSE pc[u]
  <2>1. \A u \in Threads : tstate'[u] = tstate[u] \/ (tstate[u] = "Waiting" /\ tstate'[u] = "Ready")
    BY <1>8 DEF Wakes
  <2>2. \A u \in Threads : tstate'[u] = "Unborn" <=> tstate[u] = "Unborn"
    BY <2>1
  <2>3. \A r \in Procs : m_Threads'[r] = IF r = p THEN {} ELSE m_Threads[r]
    BY <1>1, <1>6 DEF TypeInv
  <2>4. \A r \in Procs : m_State'[r] = IF r = p THEN "Zombie" ELSE m_State[r]
    BY <1>1, <1>5 DEF TypeInv
  <2>5. \A u \in Threads : pc'[u] = IF u = t THEN "exited" ELSE pc[u]
    BY <1>1, <1>3 DEF TypeInv
  <2> QED BY <2>2, <2>3, <2>4, <2>5
<1>13. ProcInv'
  <2> SUFFICES ASSUME NEW r \in User
               PROVE  /\ m_State'[r] = "Unborn" => r \notin pidNode' /\ \A u \in Threads : Owner[u] = r => tstate'[u] = "Unborn"
                      /\ m_State'[r] # "Unborn" => tstate'[MainThread[r]] # "Unborn"
                      /\ m_State'[r] = "Zombie" => m_Threads'[r] = {}
                      /\ m_Threads'[r] # {} => r \in pidNode'
    BY DEF ProcInv
  <2>1. r \in Procs /\ MainThread[r] \in Threads
    BY DEF User
  <2>2. CASE r = p
    BY <1>1, <1>4, <1>12, <2>1, <2>2 DEF ProcInv
  <2>3. CASE r # p
    BY <1>1, <1>3, <1>12, <2>1, <2>3 DEF ProcInv
  <2> QED BY <2>2, <2>3
<1>14. SenderInv' /\ DeadInv' /\ FoundInv'
  <2>1. SenderInv /\ DeadInv /\ User \subseteq Procs /\ sender.code = "0" /\ g_PIDMapMutex = NULL
    BY <1>3 DEF IInv, User, MutexFree
  <2>2. DeadInv'
    BY <1>3, <1>9, <1>12, <2>1 DEF DeadInv
  <2>3. FoundInv'
    BY <1>12, <2>1, FoundFree
  <2> QED BY <1>3, <2>1, <2>2, <2>3 DEF SenderInv
<1>15. ExitInv'
  <2>1. \A c \in User \ {p} : m_State'[c] = m_State[c]
    BY <1>12 DEF User
  <2>2. /\ P \in SUBSET Linked(m_ChildrenCondition[m_Parent[p]]) /\ m_Parent[p] \in Procs
        /\ m_ChildrenCondition[m_Parent[p]] # <<>> => P # {}
    BY <1>2, <1>4, <1>8
  <2>3. UNCHANGED g_PIDMapMutex
    BY <1>3
  <2> QED BY <1>3, <1>4, <1>7, <1>8, <1>10, <2>1, <2>2, <2>3, ExitSeen
<1> QED BY <1>7, <1>10, <1>11, <1>13, <1>14, <1>15 DEF IInv

\* A thread becomes a zombie.
LEMMA ThreadGoneStep ==
    ASSUME IInv, NEW t \in Threads, ThreadGone(t)
    PROVE  IInv'
<1>1. TypeInv /\ ThreadInv /\ QueueInv /\ ProcInv /\ TreeInv /\ StopInv
  BY DEF IInv
<1>2. /\ tstate[t] = "Ready" /\ pc[t] = "exited" /\ tstate' = [tstate EXCEPT ![t] = "Zombie"]
      /\ pending' = [pending EXCEPT ![t] = {}] /\ canceled' = canceled \ {t}
      /\ init' = init \/ init' = "collect"
      /\ UNCHANGED <<g_PIDMapMutex, pidNode, m_Parent, m_Children, m_StoppedThreadCount, m_State, m_Threads,
                     si_code, m_ChildrenCondition, pc, want, found, cur, sender, panicked,
                     sent>>
  BY DEF ThreadGone, At, WakeInit, treeVars, stopVars, readVars
<1>3. \A u \in Threads : tstate'[u] = IF u = t THEN "Zombie" ELSE tstate[u]
  BY <1>1, <1>2 DEF TypeInv
<1>4. TypeInv'
  <2>1. tstate' \in [Threads -> {"Unborn", "Ready", "Waiting", "Stopped", "Zombie", "Deleted"}]
    BY <1>1, <1>2 DEF TypeInv
  <2>2. pending' \in [Threads -> SUBSET {"KILL", "STOP"}]
    BY <1>1, <1>2 DEF TypeInv
  <2>3. canceled' \subseteq Threads
    BY <1>1, <1>2 DEF TypeInv
  <2>4. init' \in {"Waiting", "collect", "reap", "reaped"}
    BY <1>1, <1>2 DEF TypeInv
  <2> QED BY <1>1, <1>2, <2>1, <2>2, <2>3, <2>4 DEF TypeInv
<1>5. ThreadInv'
  <2>1. \A p \in Procs : Members(p)' = Members(p)
    BY <1>2, <1>3 DEF Members
  <2>2. ASSUME NEW u \in Threads
        PROVE  /\ tstate'[u] = "Unborn" => pc'[u] = "user"
               /\ tstate'[u] = "Waiting" => u \in Linked(m_ChildrenCondition'[Owner[u]])
               /\ tstate'[u] = "Stopped" => pc'[u] \in {"user", "dying"}
               /\ tstate'[u] \in {"Zombie", "Deleted"} => pc'[u] = "exited"
               /\ pc'[u] \in {"looked", "again", "found", "kexit"} => g_PIDMapMutex' = u
               /\ pc'[u] \in {"looked", "again", "found", "asleep"} => want'[u] \in Waits[Owner[u]]
    BY <1>1, <1>2, <1>3 DEF ThreadInv
  <2>3. \A p \in Procs : m_Threads'[p] = Members(p)'
    BY <1>1, <1>2, <2>1 DEF ThreadInv
  <2> QED BY <2>2, <2>3 DEF ThreadInv
<1>6. QueueInv'
  BY <1>1, <1>2 DEF QueueInv
<1>7. ProcInv'
  <2>1. \A u \in Threads : tstate'[u] = "Unborn" <=> tstate[u] = "Unborn"
    BY <1>2, <1>3
  <2> QED BY <1>1, <1>2, <2>1 DEF ProcInv
<1>8. TreeInv'
  BY <1>1, <1>2 DEF TreeInv
<1>9. StopInv'
  <2>1. \A u \in Threads : tstate'[u] = "Stopped" <=> tstate[u] = "Stopped"
    BY <1>2, <1>3
  <2> QED BY <1>2, <2>1, StopKept
<1>10. SenderInv' /\ DeadInv' /\ FoundInv'
  BY <1>2, DeadKept, FoundKept
<1>11. ASSUME NEW q \in User, ExitWaits(q), Sleepers(q)' # {}
       PROVE  Cardinality(Zombies(q)') <= Cardinality(Looking(q)')
  <2>1. Zombies(q)' \subseteq Zombies(q) /\ Looking(q) \subseteq Looking(q)' /\ Sleepers(q)' \subseteq Sleepers(q)
    BY <1>2 DEF Zombies, Looking, Sleepers
  <2> QED BY <1>4, <1>11, <2>1, ExitKept
<1>12. ExitInv'
  BY <1>11 DEF ExitInv, ExitWaits
<1> QED BY <1>4, <1>5, <1>6, <1>7, <1>8, <1>9, <1>10, <1>12 DEF IInv

-----------------------------------------------------------------------------
(* waitid *)

\* What the call finds is a child, dead or alive, and dead if the call is for exits.
LEMMA LookFinds ==
    ASSUME IInv, NEW p \in User, NEW w \in Waits[p], HasChild(p, w), Reportable(p, w) # <<>>
    PROVE  /\ Head(Reportable(p, w)) \in User /\ m_Parent[Head(Reportable(p, w))] = p
           /\ m_State[Head(Reportable(p, w))] = "Zombie" \/ m_Threads[Head(Reportable(p, w))] # {}
           /\ ExitWaits(p) => m_State[Head(Reportable(p, w))] = "Zombie"
<1>1. TypeInv /\ TreeInv /\ p \in Procs
  BY DEF IInv, User
<1>4. \A c \in User : m_State[c] \in {"Stopped", "Continued"} => m_Threads[c] # {}
  BY DEF IInv, DeadInv
<1>2. CASE w.id = ANY
  <2>1. PICK those : those = {c \in User : ReadyGID(c, w.options)}
    OBVIOUS
  <2>2. PICK list, kids : kids = m_Children[p] /\ list = Those(kids, those)
    OBVIOUS
  <2>3. Reportable(p, w) = list
    BY <1>2, <2>1, <2>2 DEF Reportable
  <2>4. kids \in Seq(User) /\ OneNodeEach(kids) /\ Linked(kids) = {c \in User : m_Parent[c] = p}
    BY <1>1, <2>2 DEF TypeInv, TreeInv
  <2>5. list \in Seq(User) /\ OneNodeEach(list) /\ Linked(list) = Linked(kids) \cap those
    BY <2>2, <2>4, ThoseAre
  <2>6. PICK c : c = Head(list)
    OBVIOUS
  <2>7. c \in Linked(list)
    BY <2>3, <2>5, <2>6, TailLinked
  <2>8. c \in User /\ m_Parent[c] = p /\ ReadyGID(c, w.options)
    BY <2>1, <2>4, <2>5, <2>7
  <2>9. m_State[c] \in {"Zombie", "Stopped", "Continued"}
    BY <2>8 DEF ReadyGID
  <2>11. ExitWaits(p) => m_State[c] = "Zombie"
    <3>1. ExitWaits(p) => w.options \ {"NOHANG"} = {"EXITED"}
      BY DEF ExitWaits
    <3>2. ExitWaits(p) => "STOPPED" \notin w.options /\ "CONTINUED" \notin w.options
      BY <3>1
    <3> QED BY <2>8, <3>2 DEF ReadyGID
  <2> QED BY <1>4, <2>3, <2>6, <2>8, <2>9, <2>11
<1>3. CASE w.id # ANY
  <2>1. PICK c : c = w.id
    OBVIOUS
  <2>2. ReadyPID(c, w.options) /\ Reportable(p, w) = <<c>>
    BY <1>3, <2>1 DEF Reportable
  <2>3. Head(Reportable(p, w)) = c
    BY <2>2
  <2>4. m_Parent[c] = p /\ c \in User
    <3>1. c \in User
      BY <1>3, <2>1
    <3> QED BY <1>3, <2>1, <3>1 DEF HasChild
  <2>5. m_State[c] \in {"Zombie", "Stopped", "Continued"}
    BY <2>2 DEF ReadyPID
  <2>6. ~ExitWaits(p)
    BY <1>3 DEF ExitWaits
  <2> QED BY <1>4, <2>3, <2>4, <2>5, <2>6
<1> QED BY <1>2, <1>3

\* A call for exits that finds nothing is made by a process without dead children.
LEMMA LookMisses ==
    ASSUME IInv, NEW p \in User, NEW w \in Waits[p], ExitWaits(p),
           ~HasChild(p, w) \/ Reportable(p, w) = <<>>
    PROVE  Zombies(p) = {}
<1>1. TypeInv /\ TreeInv /\ p \in Procs
  BY DEF IInv, User
<1>2. w.id = ANY /\ w.options \ {"NOHANG"} = {"EXITED"}
  BY DEF ExitWaits
<1>3. "EXITED" \in w.options
  BY <1>2
<1>4. PICK those : those = {c \in User : ReadyGID(c, w.options)}
  OBVIOUS
<1>5. PICK list, kids : kids = m_Children[p] /\ list = Those(kids, those)
  OBVIOUS
<1>6. kids \in Seq(User) /\ OneNodeEach(kids) /\ Linked(kids) = {c \in User : m_Parent[c] = p}
  BY <1>1, <1>5 DEF TypeInv, TreeInv
<1>7. list \in Seq(User) /\ Linked(list) = Linked(kids) \cap those
  BY <1>5, <1>6, ThoseAre
<1>8. kids = <<>> \/ list = <<>>
  BY <1>2, <1>4, <1>5 DEF HasChild, Reportable
<1>9. Linked(kids) \cap those = {}
  BY <1>7, <1>8, EmptyLinked
<1>10. Zombies(p) \subseteq Linked(kids) \cap those
  BY <1>3, <1>4, <1>6 DEF Zombies, ReadyGID
<1> QED BY <1>9, <1>10

\* A child that is dead is reaped.
LEMMA ReapKeeps ==
    ASSUME IInv, NEW p \in Procs, NEW c \in User, m_Parent[c] = p, Reap(p, c), UNCHANGED m_Threads
    PROVE  /\ pidNode' = pidNode \ {c} /\ pidNode' \subseteq Procs
           /\ m_Parent' \in [Procs -> Procs \cup {NULL}]
           /\ \A x \in Procs : m_Parent'[x] = IF x = c THEN NULL ELSE m_Parent[x]
           /\ m_Children' \in [Procs -> Seq(User)]
           /\ TreeInv'
<1>1. TypeInv /\ TreeInv /\ c \in Procs /\ c # gk_KernelProcess
  BY DEF IInv, User
<1>2. PICK list : list = Detatch(m_Children[p], c)
  OBVIOUS
<1>3. /\ m_Children' = [m_Children EXCEPT ![p] = list] /\ m_Parent' = [m_Parent EXCEPT ![c] = NULL]
      /\ pidNode' = pidNode \ {c}
  BY <1>2 DEF Reap
<1>4. list \in Seq(User) /\ OneNodeEach(list) /\ Linked(list) = Linked(m_Children[p]) \ {c}
  <2>1. m_Children[p] \in Seq(User) /\ OneNodeEach(m_Children[p])
    BY <1>1 DEF TypeInv, TreeInv
  <2> QED BY <1>2, <2>1, DetatchLinked
<1>5. m_Children' \in [Procs -> Seq(User)] /\ m_Parent' \in [Procs -> Procs \cup {NULL}]
  BY <1>1, <1>3, <1>4 DEF TypeInv
<1>6. \A x \in Procs : m_Parent'[x] = IF x = c THEN NULL ELSE m_Parent[x]
  BY <1>1, <1>3 DEF TypeInv
<1>7. ASSUME NEW q \in Procs
      PROVE  OneNodeEach(m_Children'[q]) /\ Linked(m_Children'[q]) = {x \in User : m_Parent'[x] = q}
  <2>1. OneNodeEach(m_Children[q]) /\ Linked(m_Children[q]) = {x \in User : m_Parent[x] = q}
    BY <1>1 DEF TreeInv
  <2>2. User \subseteq Procs /\ q # NULL
    BY DEF User
  <2>3. CASE q = p
    <3>1. m_Children'[q] = list
      BY <1>1, <1>3, <2>3 DEF TypeInv
    <3>2. {x \in User : m_Parent'[x] = q} = {x \in User : m_Parent[x] = q} \ {c}
      BY <1>6, <2>2
    <3> QED BY <1>4, <2>1, <2>3, <3>1, <3>2
  <2>4. CASE q # p
    <3>1. m_Children'[q] = m_Children[q]
      BY <1>1, <1>3, <2>4 DEF TypeInv
    <3>2. {x \in User : m_Parent'[x] = q} = {x \in User : m_Parent[x] = q}
      BY <1>6, <2>2, <2>4
    <3> QED BY <2>1, <3>1, <3>2
  <2> QED BY <2>3, <2>4
<1>8. ASSUME NEW x \in User
      PROVE  /\ x \in pidNode' <=> m_Parent'[x] # NULL
             /\ x \in pidNode' => m_Parent'[x] = gk_KernelProcess \/ m_Threads'[m_Parent'[x]] # {}
  <2>1. x \in Procs
    BY DEF User
  <2>2. CASE x = c
    BY <1>3, <1>6, <2>1, <2>2
  <2>3. CASE x # c
    <3>1. m_Parent'[x] = m_Parent[x] /\ (x \in pidNode' <=> x \in pidNode)
      BY <1>3, <1>6, <2>1, <2>3
    <3> QED BY <1>1, <3>1 DEF TreeInv
  <2> QED BY <2>2, <2>3
<1>9. m_Parent'[gk_KernelProcess] = NULL
  BY <1>1, <1>6 DEF TreeInv
<1>10. TreeInv'
  BY <1>7, <1>8, <1>9 DEF TreeInv
<1>11. pidNode' \subseteq Procs
  BY <1>1, <1>3 DEF TypeInv
<1> QED BY <1>3, <1>5, <1>6, <1>10, <1>11

(***************************************************************************)
(* What the report of a child does to the processes: nothing, or the child *)
(* is reaped, or its stop or continuation is taken back.                   *)
(***************************************************************************)
Reported ==
    /\ pidNode' \subseteq Procs /\ m_State' \in [Procs -> ProcStates]
    /\ m_Parent' \in [Procs -> Procs \cup {NULL}] /\ m_Children' \in [Procs -> Seq(User)]
    /\ si_code' \in [Procs -> Codes]
    /\ TreeInv' /\ ProcInv'
    /\ \A q \in User : Zombies(q)' \subseteq Zombies(q)
    /\ \A q \in User : m_Threads[q] = {} => si_code'[q] = si_code[q] /\ m_State'[q] = m_State[q]

\* It does no more.
LEMMA GetChildInfoStep ==
    ASSUME IInv, NEW p \in User, NEW c \in User, m_Parent[c] = p, NEW options,
           m_State[c] = "Zombie" \/ m_Threads[c] # {},
           GetChildInfo(p, c, options), UNCHANGED <<m_Threads, tstate>>
    PROVE  Reported
<1>1. TypeInv /\ TreeInv /\ ProcInv /\ p \in Procs /\ c \in Procs /\ User \subseteq Procs
  BY DEF IInv, User
<1>2. CASE UNCHANGED <<pidNode, m_Parent, m_Children, m_State, si_code>>
  <2>1. TreeInv'
    BY <1>1, <1>2 DEF TreeInv
  <2>2. ProcInv'
    BY <1>1, <1>2 DEF ProcInv
  <2>3. \A q \in User : Zombies(q)' \subseteq Zombies(q)
    BY <1>2 DEF Zombies
  <2> QED BY <1>1, <1>2, <2>1, <2>2, <2>3 DEF Reported, TypeInv
<1>3. CASE m_State[c] = "Zombie" /\ Reap(p, c) /\ UNCHANGED <<m_State, si_code>>
  <2>1. /\ pidNode' = pidNode \ {c} /\ pidNode' \subseteq Procs
        /\ m_Parent' \in [Procs -> Procs \cup {NULL}]
        /\ \A x \in Procs : m_Parent'[x] = IF x = c THEN NULL ELSE m_Parent[x]
        /\ m_Children' \in [Procs -> Seq(User)]
        /\ TreeInv'
    BY <1>1, <1>3, ReapKeeps
  <2>2. ProcInv'
    BY <1>1, <1>3, <2>1 DEF ProcInv
  <2>3. \A q \in User : Zombies(q)' \subseteq Zombies(q)
    <3>1. \A q \in User : q # NULL
      BY DEF User
    <3> QED BY <1>1, <1>3, <2>1, <3>1 DEF Zombies
  <2> QED BY <1>1, <1>3, <2>1, <2>2, <2>3 DEF Reported, TypeInv
<1>4. CASE /\ m_State[c] # "Zombie" /\ si_code' = [si_code EXCEPT ![c] = "0"]
           /\ m_State' = [m_State EXCEPT ![c] = IF @ = "Continued" THEN "Running" ELSE @]
           /\ UNCHANGED <<pidNode, m_Parent, m_Children>>
  <2>1. \A q \in Procs : /\ m_State'[q] = "Unborn" <=> m_State[q] = "Unborn"
                         /\ m_State'[q] = "Zombie" <=> m_State[q] = "Zombie"
    BY <1>1, <1>4 DEF TypeInv
  <2>2. TreeInv'
    BY <1>1, <1>4 DEF TreeInv
  <2>3. ProcInv'
    BY <1>1, <1>4, <2>1 DEF ProcInv
  <2>4. \A q \in User : Zombies(q)' \subseteq Zombies(q)
    BY <1>1, <1>4, <2>1 DEF Zombies
  <2>5. m_State' \in [Procs -> ProcStates]
    BY <1>1, <1>4 DEF TypeInv, ProcStates
  <2>6. si_code' \in [Procs -> Codes]
    BY <1>1, <1>4 DEF TypeInv, Codes
  <2>7. \A q \in User : m_Threads[q] = {} => si_code'[q] = si_code[q] /\ m_State'[q] = m_State[q]
    BY <1>1, <1>4 DEF TypeInv
  <2> QED BY <1>1, <1>4, <2>2, <2>3, <2>4, <2>5, <2>6, <2>7 DEF Reported, TypeInv
<1> QED BY <1>2, <1>3, <1>4 DEF GetChildInfo, treeVars

\* One turn of the loop of waitid.
LEMMA LookStep ==
    ASSUME IInv, NEW t \in Threads, tstate[t] = "Ready", pc[t] \in {"user", "again"},
           g_PIDMapMutex \in {NULL, t}, sender.code = "0", NEW w \in Waits[Owner[t]], Look(t, w)
    PROVE  IInv'
<1>1. TypeInv /\ ThreadInv /\ QueueInv /\ ProcInv /\ TreeInv /\ StopInv
  BY DEF IInv
<1>2. PICK p, ready : p = Owner[t] /\ ready = Reportable(p, w)
  OBVIOUS
<1>3. p \in User /\ p \in Procs /\ t \in m_Threads[p] /\ w \in Waits[p]
  BY <1>2, ReadyIsMember
<1>4. UNCHANGED <<pidNode, m_Parent, m_Children, m_StoppedThreadCount, m_State, m_Threads, si_code,
                  m_ChildrenCondition, tstate, pending, canceled, cur, sender, init, sent, panicked>>
  BY DEF Look, treeVars, stopVars
<1>5. PICK label : /\ label \in {"looked", "user", "found"} /\ pc' = [pc EXCEPT ![t] = label]
                   /\ g_PIDMapMutex' = IF label = "user" THEN NULL ELSE t
                   /\ want' = [want EXCEPT ![t] = IF label = "user" THEN NULL ELSE w]
                   /\ found' = IF label = "found" THEN Head(ready) ELSE NULL
                   /\ label = "found" <=> HasChild(p, w) /\ ready # <<>>
  <2>1. PICK finds, sleeps : /\ finds = (HasChild(p, w) /\ ready # <<>>)
                             /\ sleeps = (HasChild(p, w) /\ ready = <<>> /\ "NOHANG" \notin w.options)
    OBVIOUS
  <2>2. PICK label : label = IF finds THEN "found" ELSE IF sleeps THEN "looked" ELSE "user"
    OBVIOUS
  <2>3. /\ pc' = [pc EXCEPT ![t] = label] /\ found' = IF finds THEN Head(ready) ELSE NULL
        /\ g_PIDMapMutex' = IF finds \/ sleeps THEN t ELSE NULL
        /\ want' = [want EXCEPT ![t] = IF finds \/ sleeps THEN w ELSE NULL]
    BY <1>2, <2>1, <2>2 DEF Look, Goto
  <2>4. CASE finds
    BY <2>1, <2>2, <2>3, <2>4
  <2>5. CASE ~finds /\ sleeps
    BY <2>1, <2>2, <2>3, <2>5
  <2>6. CASE ~finds /\ ~sleeps
    BY <2>1, <2>2, <2>3, <2>6
  <2> QED BY <2>4, <2>5, <2>6
<1>6. label = "found" =>
         /\ Head(ready) \in User /\ m_Parent[Head(ready)] = p
         /\ m_State[Head(ready)] = "Zombie" \/ m_Threads[Head(ready)] # {}
         /\ ExitWaits(p) => m_State[Head(ready)] = "Zombie"
  <2> SUFFICES ASSUME label = "found"
               PROVE  /\ Head(ready) \in User /\ m_Parent[Head(ready)] = p
                      /\ m_State[Head(ready)] = "Zombie" \/ m_Threads[Head(ready)] # {}
                      /\ ExitWaits(p) => m_State[Head(ready)] = "Zombie"
    OBVIOUS
  <2>1. HasChild(p, w) /\ Reportable(p, w) # <<>>
    BY <1>2, <1>5
  <2>2. /\ Head(Reportable(p, w)) \in User /\ m_Parent[Head(Reportable(p, w))] = p
        /\ m_State[Head(Reportable(p, w))] = "Zombie" \/ m_Threads[Head(Reportable(p, w))] # {}
        /\ ExitWaits(p) => m_State[Head(Reportable(p, w))] = "Zombie"
    BY <1>3, <2>1, LookFinds
  <2> QED BY <1>2, <2>2
<1>9. /\ \A u \in Threads : pc'[u] = IF u = t THEN label ELSE pc[u]
      /\ \A u \in Threads \ {t} : want'[u] = want[u]
      /\ label # "user" => want'[t] = w
  BY <1>1, <1>5 DEF TypeInv
<1>10. TypeInv'
  <2>1. g_PIDMapMutex' \in Threads \cup {NULL}
    BY <1>5
  <2>2. pc' \in [Threads -> Labels]
    BY <1>1, <1>5 DEF TypeInv, Labels
  <2>3. DOMAIN want' = Threads
    BY <1>1, <1>5 DEF TypeInv
  <2>4. found' \in User \cup {NULL}
    BY <1>5, <1>6
  <2> QED BY <1>1, <1>4, <2>1, <2>2, <2>3, <2>4 DEF TypeInv
<1>11. \A u \in Threads \ {t} : pc[u] \notin {"looked", "again", "found", "kexit"}
  BY <1>1 DEF ThreadInv
<1>12. ThreadInv'
  <2>1. \A q \in Procs : m_Threads'[q] = Members(q)'
    <3>1. \A q \in Procs : Members(q)' = Members(q)
      BY <1>4, <1>5, <1>9 DEF Members
    <3> QED BY <1>1, <1>4, <3>1 DEF ThreadInv
  <2>2. ASSUME NEW u \in Threads
        PROVE  /\ tstate'[u] = "Unborn" => pc'[u] = "user"
               /\ tstate'[u] = "Waiting" => u \in Linked(m_ChildrenCondition'[Owner[u]])
               /\ tstate'[u] = "Stopped" => pc'[u] \in {"user", "dying"}
               /\ tstate'[u] \in {"Zombie", "Deleted"} => pc'[u] = "exited"
    BY <1>1, <1>4, <1>9 DEF ThreadInv
  <2>3. ASSUME NEW u \in Threads
        PROVE  /\ pc'[u] \in {"looked", "again", "found", "kexit"} => g_PIDMapMutex' = u
               /\ pc'[u] \in {"looked", "again", "found", "asleep"} => want'[u] \in Waits[Owner[u]]
    <3>1. CASE u = t
      BY <1>5, <1>9, <3>1
    <3>2. CASE u # t
      BY <1>1, <1>9, <1>11, <3>2 DEF ThreadInv
    <3> QED BY <3>1, <3>2
  <2> QED BY <2>1, <2>2, <2>3 DEF ThreadInv
<1>13. QueueInv'
  <2>1. ASSUME NEW q \in Procs, NEW u \in Linked(m_ChildrenCondition[q])
        PROVE  Owner[u] = q /\ pc'[u] = "asleep"
    <3>1. m_ChildrenCondition[q] \in Seq(Threads)
      BY <1>1 DEF TypeInv
    <3>2. u \in Threads
      BY <3>1, LinkedAt
    <3>3. Owner[u] = q /\ pc[u] = "asleep"
      BY <1>1 DEF QueueInv
    <3> QED BY <1>9, <3>2, <3>3
  <2> QED BY <1>1, <1>4, <2>1 DEF QueueInv
<1>14. ProcInv' /\ TreeInv'
  BY <1>1, <1>4 DEF ProcInv, TreeInv
<1>15. StopInv'
  BY <1>4, StopKept
<1>16. SenderInv' /\ DeadInv'
  BY <1>4, DeadKept
<1>17. FoundInv'
  <2> SUFFICES ASSUME NEW u \in Threads, pc'[u] = "found"
               PROVE  /\ found' \in User /\ m_Parent'[found'] = Owner[u]
                      /\ m_State'[found'] = "Zombie" \/ m_Threads'[found'] # {}
                      /\ ExitWaits(Owner[u]) => m_State'[found'] = "Zombie"
    BY DEF FoundInv, ExitWaits
  <2>1. u = t /\ label = "found"
    BY <1>9, <1>11
  <2> QED BY <1>2, <1>4, <1>5, <1>6, <2>1
<1>18. ASSUME NEW q \in User, ExitWaits(q), Sleepers(q)' # {}
       PROVE  Cardinality(Zombies(q)') <= Cardinality(Looking(q)')
  <2>1. q \in Procs /\ m_Threads[q] \subseteq Threads
    BY <1>1 DEF TypeInv, User
  <2>2. Zombies(q)' = Zombies(q)
    BY <1>4 DEF Zombies
  <2>3. CASE q # p
    <3>1. t \notin m_Threads[q]
      BY <1>1, <1>2, <2>1, <2>3 DEF ThreadInv, Members
    <3>2. Looking(q) \subseteq Looking(q)'
      BY <1>4, <1>9, <2>1, <3>1 DEF Looking
    <3>3. Sleepers(q)' \subseteq Sleepers(q)
      BY <1>2, <1>4, <1>9, <2>3 DEF Sleepers
    <3> QED BY <1>10, <1>18, <2>2, <3>2, <3>3, ExitKept
  <2>4. CASE q = p /\ label # "found"
    <3>1. Zombies(q) = {}
      BY <1>2, <1>3, <1>5, <1>18, <2>4, LookMisses
    <3> QED BY <1>10, <2>1, <2>2, <3>1, FS_EmptySet, SizesPrime
  <2>5. CASE q = p /\ label = "found"
    <3>1. Looking(q) \subseteq Looking(q)'
      BY <1>4, <1>9, <2>1, <2>5 DEF Looking
    <3>2. Sleepers(q)' \subseteq Sleepers(q)
      BY <1>4, <1>9, <2>5 DEF Sleepers
    <3> QED BY <1>10, <1>18, <2>2, <3>1, <3>2, ExitKept
  <2> QED BY <2>3, <2>4, <2>5
<1>19. ExitInv'
  BY <1>18 DEF ExitInv, ExitWaits
<1> QED BY <1>10, <1>12, <1>13, <1>14, <1>15, <1>16, <1>17, <1>19 DEF IInv

\* A call of waitid begins.
LEMMA WaitStep ==
    ASSUME IInv, NEW t \in Threads, NEW w \in Waits[Owner[t]], Wait(t, w)
    PROVE  IInv'
<1>1. /\ tstate[t] = "Ready" /\ pc[t] \in {"user", "again"} /\ g_PIDMapMutex \in {NULL, t}
      /\ sender.code = "0" /\ Look(t, w)
  BY DEF Wait, At, MutexFree
<1> QED BY <1>1, LookStep

\* A thread looks again.
LEMMA LookAgainStep ==
    ASSUME IInv, NEW t \in Threads, LookAgain(t)
    PROVE  IInv'
<1>1. PICK w : w = want[t]
  OBVIOUS
<1>2. tstate[t] = "Ready" /\ pc[t] = "again" /\ Look(t, w)
  BY <1>1 DEF LookAgain, At
<1>3. g_PIDMapMutex = t /\ w \in Waits[Owner[t]]
  BY <1>1, <1>2 DEF IInv, ThreadInv
<1>4. pc[t] \in {"user", "again"} /\ g_PIDMapMutex \in {NULL, t} /\ sender.code = "0"
  BY <1>2, <1>3 DEF IInv, SenderInv
<1> QED BY <1>2, <1>3, <1>4, LookStep

\* The child is reported.
LEMMA ReportStep ==
    ASSUME IInv, NEW t \in Threads, Report(t)
    PROVE  IInv'
<1>1. TypeInv /\ ThreadInv /\ QueueInv /\ ProcInv /\ TreeInv /\ StopInv /\ FoundInv
  BY DEF IInv
<1>2. PICK p, c, options : p = Owner[t] /\ c = found /\ options = want[t].options
  OBVIOUS
<1>3. /\ tstate[t] = "Ready" /\ pc[t] = "found" /\ GetChildInfo(p, c, options)
      /\ pc' = [pc EXCEPT ![t] = "user"] /\ g_PIDMapMutex' = NULL /\ found' = NULL
      /\ want' = [want EXCEPT ![t] = NULL]
      /\ UNCHANGED <<m_StoppedThreadCount, m_Threads, m_ChildrenCondition, tstate, pending, canceled, cur,
                     sender, init, sent, panicked>>
  BY <1>2 DEF Report, At, Goto, stopVars
<1>4. p \in User /\ p \in Procs /\ t \in m_Threads[p] /\ want[t] \in Waits[p]
  BY <1>1, <1>2, <1>3, ReadyIsMember DEF ThreadInv
<1>5. /\ c \in User /\ c \in Procs /\ m_Parent[c] = p /\ (m_State[c] = "Zombie" \/ m_Threads[c] # {})
      /\ ExitWaits(p) => m_State[c] = "Zombie"
  BY <1>1, <1>2, <1>3 DEF FoundInv, User
<1>6. g_PIDMapMutex = t /\ sender.code = "0"
  BY <1>1, <1>3 DEF ThreadInv, IInv, SenderInv
<1>7. \A u \in Threads \ {t} : pc[u] \notin {"looked", "again", "found", "kexit"}
  BY <1>1, <1>6 DEF ThreadInv
<1>8. Reported
  BY <1>3, <1>4, <1>5, GetChildInfoStep
<1>9. /\ \A u \in Threads : pc'[u] = IF u = t THEN "user" ELSE pc[u]
      /\ \A u \in Threads \ {t} : want'[u] = want[u]
  BY <1>1, <1>3 DEF TypeInv
<1>10. TypeInv'
  <2>1. pc' \in [Threads -> Labels]
    BY <1>1, <1>3 DEF TypeInv, Labels
  <2>2. DOMAIN want' = Threads
    BY <1>1, <1>3 DEF TypeInv
  <2> QED BY <1>1, <1>3, <1>8, <2>1, <2>2 DEF TypeInv, Reported
<1>11. ThreadInv'
  <2>1. \A q \in Procs : m_Threads'[q] = Members(q)'
    <3>1. \A q \in Procs : Members(q)' = Members(q)
      BY <1>3, <1>9 DEF Members
    <3> QED BY <1>1, <1>3, <3>1 DEF ThreadInv
  <2>2. ASSUME NEW u \in Threads
        PROVE  /\ tstate'[u] = "Unborn" => pc'[u] = "user"
               /\ tstate'[u] = "Waiting" => u \in Linked(m_ChildrenCondition'[Owner[u]])
               /\ tstate'[u] = "Stopped" => pc'[u] \in {"user", "dying"}
               /\ tstate'[u] \in {"Zombie", "Deleted"} => pc'[u] = "exited"
               /\ pc'[u] \in {"looked", "again", "found", "kexit"} => g_PIDMapMutex' = u
               /\ pc'[u] \in {"looked", "again", "found", "asleep"} => want'[u] \in Waits[Owner[u]]
    BY <1>1, <1>3, <1>7, <1>9 DEF ThreadInv
  <2> QED BY <2>1, <2>2 DEF ThreadInv
<1>12. QueueInv'
  <2>1. ASSUME NEW q \in Procs, NEW u \in Linked(m_ChildrenCondition[q])
        PROVE  Owner[u] = q /\ pc'[u] = "asleep"
    <3>1. m_ChildrenCondition[q] \in Seq(Threads)
      BY <1>1 DEF TypeInv
    <3>2. u \in Threads
      BY <3>1, LinkedAt
    <3>3. Owner[u] = q /\ pc[u] = "asleep"
      BY <1>1 DEF QueueInv
    <3> QED BY <1>3, <1>9, <3>2, <3>3
  <2> QED BY <1>1, <1>3, <2>1 DEF QueueInv
<1>13. StopInv'
  BY <1>3, StopKept
<1>14. SenderInv' /\ DeadInv'
  BY <1>3, <1>6, <1>8, DeadKept DEF Reported
<1>15. FoundInv'
  BY <1>7, <1>9 DEF FoundInv
<1>16. ASSUME NEW q \in User, ExitWaits(q), Sleepers(q)' # {}
       PROVE  Cardinality(Zombies(q)') <= Cardinality(Looking(q)')
  <2>1. q \in Procs /\ m_Threads[q] \subseteq Threads
    BY <1>1 DEF TypeInv, User
  <2>2. Zombies(q)' \subseteq Zombies(q)
    BY <1>8 DEF Reported
  <2>3. Sleepers(q)' \subseteq Sleepers(q)
    BY <1>3, <1>9 DEF Sleepers
  <2>4. CASE q # p
    <3>1. t \notin m_Threads[q]
      BY <1>1, <1>2, <2>1, <2>4 DEF ThreadInv, Members
    <3>2. Looking(q) \subseteq Looking(q)'
      BY <1>3, <1>9, <2>1, <3>1 DEF Looking
    <3> QED BY <1>10, <1>16, <2>2, <2>3, <3>2, ExitKept
  <2>5. CASE q = p
    <3>1. m_State[c] = "Zombie" /\ "NOWAIT" \notin options
      <4>1. options \ {"NOHANG"} = {"EXITED"}
        BY <1>2, <1>4, <1>16, <2>5 DEF ExitWaits
      <4> QED BY <1>5, <1>16, <2>5, <4>1
    <3>2. Reap(p, c) /\ m_State' = m_State
      BY <1>3, <3>1 DEF GetChildInfo
    <3>3. c \notin Zombies(q)' /\ c \in Zombies(q)
      <4>1. m_Parent'[c] = NULL /\ NULL # q
        BY <1>1, <1>5, <2>1, <3>2 DEF Reap, TypeInv
      <4> QED BY <1>5, <2>5, <3>1, <4>1 DEF Zombies
    <3>4. Sleepers(q) # {}
      BY <1>16, <2>3
    <3>5. Looking(q) \ {t} \subseteq Looking(q)'
      BY <1>3, <1>9, <2>1 DEF Looking
    <3>6. Cardinality(Zombies(q)) <= Cardinality(Looking(q))
      BY <1>16, <3>4 DEF IInv, ExitInv
    <3>7. /\ IsFiniteSet(Zombies(q)) /\ Cardinality(Zombies(q)) \in Nat
          /\ IsFiniteSet(Looking(q)) /\ Cardinality(Looking(q)) \in Nat
          /\ IsFiniteSet(Looking(q)') /\ Cardinality(Looking(q)') \in Nat
          /\ IsFiniteSet(Zombies(q)') /\ Cardinality(Zombies(q)') \in Nat
      BY <1>1, <1>10, <2>1, Sizes, SizesPrime
    <3>8. Cardinality(Zombies(q)') <= Cardinality(Zombies(q)) - 1
      <4>1. Zombies(q)' \subseteq Zombies(q) \ {c}
        BY <2>2, <3>3
      <4>2. /\ IsFiniteSet(Zombies(q) \ {c})
            /\ Cardinality(Zombies(q) \ {c}) = Cardinality(Zombies(q)) - 1
        BY <3>3, <3>7, OneLess
      <4> QED BY <4>1, <4>2, FS_Subset
    <3>9. Cardinality(Looking(q)) - 1 <= Cardinality(Looking(q)')
      <4>1. Cardinality(Looking(q) \ {t}) <= Cardinality(Looking(q)')
        BY <3>5, <3>7, FS_Subset
      <4>2. Cardinality(Looking(q) \ {t}) >= Cardinality(Looking(q)) - 1
        BY <3>7, OneLess
      <4>3. Cardinality(Looking(q) \ {t}) \in Nat
        BY <3>7, OneLess
      <4> QED BY <3>7, <4>1, <4>2, <4>3
    <3> QED BY <3>6, <3>7, <3>8, <3>9
  <2> QED BY <2>4, <2>5
<1>17. ExitInv'
  BY <1>16 DEF ExitInv, ExitWaits
<1> QED BY <1>8, <1>10, <1>11, <1>12, <1>13, <1>14, <1>15, <1>17 DEF IInv, Reported

\* The thread queues itself, or goes to look again because it has been cancelled.
LEMMA SleepStep ==
    ASSUME IInv, NEW t \in Threads, Sleep(t)
    PROVE  IInv'
<1>1. TypeInv /\ ThreadInv /\ QueueInv /\ ProcInv /\ TreeInv /\ StopInv
  BY DEF IInv
<1>2. PICK p : p = Owner[t]
  OBVIOUS
<1>3. /\ tstate[t] = "Ready" /\ pc[t] = "looked"
      /\ UNCHANGED <<pidNode, m_Parent, m_Children, m_StoppedThreadCount, m_State, m_Threads, si_code, pending,
                     canceled, want, found, cur, sender, panicked,
                     init, sent>>
  BY DEF Sleep, At, treeVars, stopVars, readVars
<1>4. p \in User /\ p \in Procs /\ t \in m_Threads[p] /\ g_PIDMapMutex = t
  BY <1>1, <1>2, <1>3, ReadyIsMember DEF ThreadInv
<1>5. PICK label, queue : /\ label \in {"again", "asleep"} /\ pc' = [pc EXCEPT ![t] = label]
                          /\ queue = IF label = "asleep" THEN Append(m_ChildrenCondition[p], t)
                                     ELSE m_ChildrenCondition[p]
                          /\ g_PIDMapMutex' = IF label = "asleep" THEN NULL ELSE t
                          /\ m_ChildrenCondition' = [m_ChildrenCondition EXCEPT ![p] = queue]
                          /\ tstate' = [tstate EXCEPT ![t] = IF label = "asleep" THEN "Waiting" ELSE "Ready"]
  <2>1. m_ChildrenCondition \in [Procs -> Seq(Threads)] /\ tstate = [tstate EXCEPT ![t] = "Ready"]
    BY <1>1, <1>3 DEF TypeInv
  <2>2. CASE t \in canceled
    <3>1. /\ pc' = [pc EXCEPT ![t] = "again"] /\ m_ChildrenCondition' = m_ChildrenCondition
          /\ tstate' = tstate /\ g_PIDMapMutex' = g_PIDMapMutex
      BY <2>2 DEF Sleep, Goto
    <3>2. m_ChildrenCondition' = [m_ChildrenCondition EXCEPT ![p] = m_ChildrenCondition[p]]
      BY <2>1, <3>1
    <3>3. PICK label : label = "again"
      OBVIOUS
    <3>4. /\ label \in {"again", "asleep"} /\ pc' = [pc EXCEPT ![t] = label] /\ label # "asleep"
          /\ g_PIDMapMutex' = t /\ tstate' = [tstate EXCEPT ![t] = "Ready"]
      BY <1>4, <2>1, <3>1, <3>3
    <3> QED BY <3>2, <3>4
  <2>3. CASE t \notin canceled
    <3>1. /\ pc' = [pc EXCEPT ![t] = "asleep"]
          /\ m_ChildrenCondition' = [m_ChildrenCondition EXCEPT ![p] = Append(m_ChildrenCondition[p], t)]
          /\ tstate' = [tstate EXCEPT ![t] = "Waiting"] /\ g_PIDMapMutex' = NULL
      BY <1>2, <2>3 DEF Sleep, Goto
    <3> QED BY <3>1
  <2> QED BY <2>2, <2>3
<1>6. t \notin Linked(m_ChildrenCondition[p])
  BY <1>1, <1>3, <1>4 DEF QueueInv
<1>7. /\ queue \in Seq(Threads) /\ OneNodeEach(queue)
      /\ Linked(queue) = Linked(m_ChildrenCondition[p]) \cup (IF label = "asleep" THEN {t} ELSE {})
  <2>1. m_ChildrenCondition[p] \in Seq(Threads) /\ OneNodeEach(m_ChildrenCondition[p])
    BY <1>1, <1>4 DEF TypeInv, QueueInv
  <2>2. CASE label = "asleep"
    <3>1. queue = Append(m_ChildrenCondition[p], t)
      BY <1>5, <2>2
    <3>2. /\ queue \in Seq(Threads) /\ OneNodeEach(queue)
          /\ Linked(queue) = Linked(m_ChildrenCondition[p]) \cup {t}
      BY <1>6, <2>1, <3>1, AppendLinked
    <3> QED BY <2>2, <3>2
  <2>3. CASE label # "asleep"
    <3>1. queue = m_ChildrenCondition[p]
      BY <1>5, <2>3
    <3> QED BY <2>1, <2>3, <3>1
  <2> QED BY <2>2, <2>3
<1>8. /\ \A u \in Threads : pc'[u] = IF u = t THEN label ELSE pc[u]
      /\ \A u \in Threads : tstate'[u] = IF u = t THEN (IF label = "asleep" THEN "Waiting" ELSE "Ready")
                                         ELSE tstate[u]
      /\ \A q \in Procs : m_ChildrenCondition'[q] = IF q = p THEN queue ELSE m_ChildrenCondition[q]
  BY <1>1, <1>5 DEF TypeInv
<1>9. TypeInv'
  <2>1. g_PIDMapMutex' \in Threads \cup {NULL}
    BY <1>5
  <2>2. pc' \in [Threads -> Labels]
    BY <1>1, <1>5 DEF TypeInv, Labels
  <2>3. m_ChildrenCondition' \in [Procs -> Seq(Threads)]
    BY <1>1, <1>5, <1>7 DEF TypeInv
  <2>4. tstate' \in [Threads -> {"Unborn", "Ready", "Waiting", "Stopped", "Zombie", "Deleted"}]
    BY <1>1, <1>5 DEF TypeInv
  <2> QED BY <1>1, <1>3, <2>1, <2>2, <2>3, <2>4 DEF TypeInv
<1>10. \A u \in Threads \ {t} : pc[u] \notin {"looked", "again", "found", "kexit"}
  BY <1>1, <1>4 DEF ThreadInv
<1>11. \A q \in Procs : Linked(m_ChildrenCondition[q]) \subseteq Linked(m_ChildrenCondition'[q])
  BY <1>7, <1>8
<1>12. ThreadInv'
  <2>1. \A q \in Procs : m_Threads'[q] = Members(q)'
    <3>1. \A q \in Procs : Members(q)' = Members(q)
      BY <1>3, <1>5, <1>8 DEF Members
    <3> QED BY <1>1, <1>3, <3>1 DEF ThreadInv
  <2>2. ASSUME NEW u \in Threads
        PROVE  /\ tstate'[u] = "Unborn" => pc'[u] = "user"
               /\ tstate'[u] = "Stopped" => pc'[u] \in {"user", "dying"}
               /\ tstate'[u] \in {"Zombie", "Deleted"} => pc'[u] = "exited"
    BY <1>1, <1>8 DEF ThreadInv
  <2>3. ASSUME NEW u \in Threads
        PROVE  /\ pc'[u] \in {"looked", "again", "found", "kexit"} => g_PIDMapMutex' = u
               /\ pc'[u] \in {"looked", "again", "found", "asleep"} => want'[u] \in Waits[Owner[u]]
    <3>1. CASE u = t
      BY <1>1, <1>3, <1>5, <1>8, <3>1 DEF ThreadInv
    <3>2. CASE u # t
      BY <1>1, <1>3, <1>8, <1>10, <3>2 DEF ThreadInv
    <3> QED BY <3>1, <3>2
  <2>4. ASSUME NEW u \in Threads, tstate'[u] = "Waiting"
        PROVE  u \in Linked(m_ChildrenCondition'[Owner[u]])
    <3>1. CASE u = t
      BY <1>2, <1>4, <1>7, <1>8, <2>4, <3>1
    <3>2. CASE u # t
      <4>1. tstate[u] = "Waiting" /\ Owner[u] \in Procs
        BY <1>8, <2>4, <3>2 DEF User
      <4>2. u \in Linked(m_ChildrenCondition[Owner[u]])
        BY <1>1, <4>1 DEF ThreadInv
      <4> QED BY <1>11, <4>1, <4>2
    <3> QED BY <3>1, <3>2
  <2> QED BY <2>1, <2>2, <2>3, <2>4 DEF ThreadInv
<1>13. QueueInv'
  <2>1. ASSUME NEW q \in Procs
        PROVE  /\ OneNodeEach(m_ChildrenCondition'[q])
               /\ \A u \in Linked(m_ChildrenCondition'[q]) : Owner[u] = q /\ pc'[u] = "asleep"
    <3>1. m_ChildrenCondition[q] \in Seq(Threads)
      BY <1>1 DEF TypeInv
    <3>2. Linked(m_ChildrenCondition[q]) \subseteq Threads
      BY <3>1, LinkedAt
    <3>3. \A u \in Linked(m_ChildrenCondition[q]) : Owner[u] = q /\ pc[u] = "asleep"
      BY <1>1 DEF QueueInv
    <3>4. \A u \in Linked(m_ChildrenCondition[q]) : Owner[u] = q /\ pc'[u] = "asleep"
      BY <1>3, <1>8, <3>2, <3>3
    <3>5. CASE q = p
      BY <1>2, <1>7, <1>8, <3>4, <3>5
    <3>6. CASE q # p
      BY <1>1, <1>8, <3>4, <3>6 DEF QueueInv
    <3> QED BY <3>5, <3>6
  <2> QED BY <2>1 DEF QueueInv
<1>14. ProcInv'
  <2>1. \A u \in Threads : tstate'[u] = "Unborn" <=> tstate[u] = "Unborn"
    BY <1>3, <1>8
  <2> QED BY <1>1, <1>3, <2>1 DEF ProcInv
<1>15. TreeInv'
  BY <1>1, <1>3 DEF TreeInv
<1>16. StopInv'
  <2>1. \A u \in Threads : tstate'[u] = "Stopped" <=> tstate[u] = "Stopped"
    BY <1>3, <1>8
  <2> QED BY <1>3, <2>1, StopKept
<1>17. SenderInv' /\ DeadInv' /\ FoundInv'
  <2>1. sender.code = "0"
    BY <1>4 DEF IInv, SenderInv
  <2>2. SenderInv' /\ DeadInv'
    BY <1>3, <2>1, DeadKept
  <2>3. \A u \in Threads : pc'[u] # "found"
    BY <1>3, <1>5, <1>8, <1>10
  <2> QED BY <2>2, <2>3 DEF FoundInv
<1>18. ASSUME NEW q \in User, ExitWaits(q), Sleepers(q)' # {}
       PROVE  Cardinality(Zombies(q)') <= Cardinality(Looking(q)')
  <2>1. q \in Procs /\ m_Threads[q] \subseteq Threads
    BY <1>1 DEF User, TypeInv
  <2>2. Zombies(q)' \subseteq Zombies(q)
    BY <1>3 DEF Zombies
  <2>3. Looking(q) \subseteq Looking(q)' /\ Sleepers(q)' \subseteq Sleepers(q)
    <3>1. CASE q = p
      <4>1. m_ChildrenCondition'[q] = queue
        BY <1>8, <2>1, <3>1
      <4>2. Looking(q) \subseteq Looking(q)'
        BY <1>3, <1>7, <1>8, <2>1, <3>1, <4>1 DEF Looking
      <4>3. Sleepers(q)' \subseteq Sleepers(q)
        BY <1>2, <1>3, <1>7, <1>8, <2>1, <3>1, <4>1 DEF Sleepers
      <4> QED BY <4>2, <4>3
    <3>2. CASE q # p
      <4>1. m_ChildrenCondition'[q] = m_ChildrenCondition[q]
        BY <1>8, <2>1, <3>2
      <4>2. t \notin m_Threads[q]
        BY <1>1, <1>2, <2>1, <3>2 DEF ThreadInv, Members
      <4>3. Looking(q) \subseteq Looking(q)'
        BY <1>3, <1>8, <2>1, <4>1, <4>2 DEF Looking
      <4>4. Sleepers(q)' \subseteq Sleepers(q)
        BY <1>2, <1>8, <3>2, <4>1 DEF Sleepers
      <4> QED BY <4>3, <4>4
    <3> QED BY <3>1, <3>2
  <2> QED BY <1>9, <1>18, <2>2, <2>3, ExitKept
<1>19. ExitInv'
  BY <1>18 DEF ExitInv, ExitWaits
<1> QED BY <1>9, <1>12, <1>13, <1>14, <1>15, <1>16, <1>17, <1>19 DEF IInv

\* The thread is awake, and unlinks its node if nobody has.
LEMMA AwakeStep ==
    ASSUME IInv, NEW t \in Threads, Awake(t)
    PROVE  IInv'
<1>1. TypeInv /\ ThreadInv /\ QueueInv /\ ProcInv /\ TreeInv /\ StopInv
  BY DEF IInv
<1>2. PICK p, queue : p = Owner[t] /\ queue = Detatch(m_ChildrenCondition[p], t)
  OBVIOUS
<1>3. /\ tstate[t] = "Ready" /\ pc[t] = "asleep" /\ MutexFree /\ g_PIDMapMutex' = t
      /\ m_ChildrenCondition' = [m_ChildrenCondition EXCEPT ![p] = queue]
      /\ UNCHANGED <<pidNode, m_Parent, m_Children, m_StoppedThreadCount, m_State, m_Threads, si_code, tstate,
                     pending, canceled, want, found, cur, sender, panicked,
                     init, sent>>
  BY <1>2 DEF Awake, At, treeVars, stopVars, readVars
<1>4. PICK label : /\ label \in {"looked", "again"} /\ pc' = [pc EXCEPT ![t] = label]
                   /\ label = "looked" <=> t \in Linked(m_ChildrenCondition[p])
  <2>1. PICK label : label = IF t \in Linked(m_ChildrenCondition[p]) THEN "looked" ELSE "again"
    OBVIOUS
  <2>2. pc' = [pc EXCEPT ![t] = label]
    BY <1>2, <2>1 DEF Awake, Goto
  <2>3. label \in {"looked", "again"} /\ (label = "looked" <=> t \in Linked(m_ChildrenCondition[p]))
    BY <2>1
  <2> QED BY <2>2, <2>3
<1>5. p \in User /\ p \in Procs /\ t \in m_Threads[p]
  BY <1>2, <1>3, ReadyIsMember
<1>6. queue \in Seq(Threads) /\ OneNodeEach(queue) /\ Linked(queue) = Linked(m_ChildrenCondition[p]) \ {t}
  <2>1. m_ChildrenCondition[p] \in Seq(Threads) /\ OneNodeEach(m_ChildrenCondition[p])
    BY <1>1, <1>5 DEF TypeInv, QueueInv
  <2> QED BY <1>2, <2>1, DetatchLinked
<1>7. /\ \A u \in Threads : pc'[u] = IF u = t THEN label ELSE pc[u]
      /\ \A q \in Procs : m_ChildrenCondition'[q] = IF q = p THEN queue ELSE m_ChildrenCondition[q]
  BY <1>1, <1>3, <1>4 DEF TypeInv
<1>8. TypeInv'
  <2>1. pc' \in [Threads -> Labels]
    BY <1>1, <1>4 DEF TypeInv, Labels
  <2>2. m_ChildrenCondition' \in [Procs -> Seq(Threads)]
    BY <1>1, <1>3, <1>6 DEF TypeInv
  <2> QED BY <1>1, <1>3, <2>1, <2>2 DEF TypeInv
<1>9. \A u \in Threads : pc[u] \notin {"looked", "again", "found", "kexit"}
  BY <1>1, <1>3 DEF ThreadInv, MutexFree
<1>10. ThreadInv'
  <2>1. \A q \in Procs : m_Threads'[q] = Members(q)'
    <3>1. \A q \in Procs : Members(q)' = Members(q)
      BY <1>3, <1>4, <1>7 DEF Members
    <3> QED BY <1>1, <1>3, <3>1 DEF ThreadInv
  <2>2. ASSUME NEW u \in Threads
        PROVE  /\ tstate'[u] = "Unborn" => pc'[u] = "user"
               /\ tstate'[u] = "Stopped" => pc'[u] \in {"user", "dying"}
               /\ tstate'[u] \in {"Zombie", "Deleted"} => pc'[u] = "exited"
    BY <1>1, <1>3, <1>7 DEF ThreadInv
  <2>3. ASSUME NEW u \in Threads
        PROVE  /\ pc'[u] \in {"looked", "again", "found", "kexit"} => g_PIDMapMutex' = u
               /\ pc'[u] \in {"looked", "again", "found", "asleep"} => want'[u] \in Waits[Owner[u]]
    BY <1>1, <1>3, <1>7, <1>9 DEF ThreadInv
  <2>4. ASSUME NEW u \in Threads, tstate'[u] = "Waiting"
        PROVE  u \in Linked(m_ChildrenCondition'[Owner[u]])
    <3>1. tstate[u] = "Waiting" /\ Owner[u] \in Procs /\ u # t
      BY <1>3, <2>4 DEF User
    <3>2. u \in Linked(m_ChildrenCondition[Owner[u]])
      BY <1>1, <3>1 DEF ThreadInv
    <3> QED BY <1>6, <1>7, <3>1, <3>2
  <2> QED BY <2>1, <2>2, <2>3, <2>4 DEF ThreadInv
<1>11. QueueInv'
  <2>1. ASSUME NEW q \in Procs
        PROVE  /\ OneNodeEach(m_ChildrenCondition'[q])
               /\ \A u \in Linked(m_ChildrenCondition'[q]) : Owner[u] = q /\ pc'[u] = "asleep"
    <3>1. m_ChildrenCondition[q] \in Seq(Threads)
      BY <1>1 DEF TypeInv
    <3>2. Linked(m_ChildrenCondition[q]) \subseteq Threads
      BY <3>1, LinkedAt
    <3>3. \A u \in Linked(m_ChildrenCondition[q]) : Owner[u] = q /\ pc[u] = "asleep"
      BY <1>1 DEF QueueInv
    <3>4. \A u \in Linked(m_ChildrenCondition[q]) \ {t} : Owner[u] = q /\ pc'[u] = "asleep"
      BY <1>7, <3>2, <3>3
    <3>5. CASE q = p
      BY <1>6, <1>7, <3>4, <3>5
    <3>6. CASE q # p
      <4>1. m_ChildrenCondition'[q] = m_ChildrenCondition[q] /\ OneNodeEach(m_ChildrenCondition[q])
        BY <1>1, <1>7, <3>6 DEF QueueInv
      <4>2. t \notin Linked(m_ChildrenCondition[q])
        BY <1>2, <3>3, <3>6
      <4> QED BY <3>4, <4>1, <4>2
    <3> QED BY <3>5, <3>6
  <2> QED BY <2>1 DEF QueueInv
<1>12. ProcInv'
  BY <1>1, <1>3 DEF ProcInv
<1>13. TreeInv'
  BY <1>1, <1>3 DEF TreeInv
<1>14. StopInv'
  BY <1>3, StopKept
<1>15. SenderInv' /\ DeadInv' /\ FoundInv'
  <2>1. sender.code = "0"
    BY <1>3 DEF MutexFree
  <2>2. SenderInv' /\ DeadInv'
    BY <1>3, <2>1, DeadKept
  <2>3. \A u \in Threads : pc'[u] # "found"
    BY <1>4, <1>7, <1>9
  <2> QED BY <2>2, <2>3 DEF FoundInv
<1>16. ASSUME NEW q \in User, ExitWaits(q), Sleepers(q)' # {}
       PROVE  Cardinality(Zombies(q)') <= Cardinality(Looking(q)')
  <2>1. q \in Procs /\ m_Threads[q] \subseteq Threads
    BY <1>1 DEF User, TypeInv
  <2>2. Zombies(q)' \subseteq Zombies(q)
    BY <1>3 DEF Zombies
  <2>3. Looking(q) \subseteq Looking(q)' /\ Sleepers(q)' \subseteq Sleepers(q)
    <3>1. CASE q = p
      <4>1. m_ChildrenCondition'[q] = queue
        BY <1>7, <2>1, <3>1
      <4>2. Looking(q) \subseteq Looking(q)'
        <5> SUFFICES ASSUME NEW u \in Looking(q) PROVE u \in Looking(q)'
          OBVIOUS
        <5>1. /\ u \in m_Threads[q] /\ u \in Threads /\ pc[u] \in {"asleep", "again", "found"}
              /\ u \notin Linked(m_ChildrenCondition[q])
          BY <2>1 DEF Looking
        <5>2. pc'[u] \in {"asleep", "again", "found"}
          BY <1>4, <1>7, <3>1, <5>1
        <5>3. u \in m_Threads'[q] /\ u \notin Linked(m_ChildrenCondition'[q])
          BY <1>3, <1>6, <3>1, <4>1, <5>1
        <5> QED BY <5>2, <5>3 DEF Looking
      <4>3. Sleepers(q)' \subseteq Sleepers(q)
        BY <1>4, <1>6, <1>7, <2>1, <3>1, <4>1 DEF Sleepers
      <4> QED BY <4>2, <4>3
    <3>2. CASE q # p
      <4>1. m_ChildrenCondition'[q] = m_ChildrenCondition[q]
        BY <1>7, <2>1, <3>2
      <4>2. t \notin m_Threads[q]
        BY <1>1, <1>2, <2>1, <3>2 DEF ThreadInv, Members
      <4>3. Looking(q) \subseteq Looking(q)'
        BY <1>3, <1>7, <2>1, <4>1, <4>2 DEF Looking
      <4>4. Sleepers(q)' \subseteq Sleepers(q)
        BY <1>2, <1>7, <3>2, <4>1 DEF Sleepers
      <4> QED BY <4>3, <4>4
    <3> QED BY <3>1, <3>2
  <2> QED BY <1>8, <1>16, <2>2, <2>3, ExitKept
<1>17. ExitInv'
  BY <1>16 DEF ExitInv, ExitWaits
<1> QED BY <1>8, <1>10, <1>11, <1>12, <1>13, <1>14, <1>15, <1>17 DEF IInv

-----------------------------------------------------------------------------
(* The init thread *)

\* It deletes zombie threads and reaps a child of the kernel process.
LEMMA InitReapStep ==
    ASSUME IInv, InitReap
    PROVE  IInv'
<1>1. TypeInv /\ ThreadInv /\ QueueInv /\ ProcInv /\ TreeInv /\ StopInv
  BY DEF IInv
<1>2. PICK k, dead, zombies : /\ k = gk_KernelProcess /\ dead = {c \in User : m_State[c] = "Zombie"}
                              /\ zombies = Those(m_Children[k], dead)
  OBVIOUS
<1>3. /\ g_PIDMapMutex = NULL /\ sender.code = "0"
      /\ UNCHANGED <<g_PIDMapMutex, m_StoppedThreadCount, m_State, m_Threads, si_code, m_ChildrenCondition, pc,
                     pending, canceled, want, found, cur, sender, panicked,
                     sent>>
      /\ \/ zombies # <<>> /\ Reap(k, Head(zombies)) /\ init' = "reap"
         \/ init' = "reaped" /\ UNCHANGED <<pidNode, m_Parent, m_Children>>
  BY <1>2 DEF InitReap, MutexFree, treeVars, stopVars, readVars
<1>4. /\ tstate' \in [Threads -> TStates]
      /\ \A u \in Threads : tstate'[u] = tstate[u] \/ (tstate[u] = "Zombie" /\ tstate'[u] = "Deleted")
  BY <1>1 DEF InitReap, ZombieThreads, TypeInv, TStates
<1>5. zombies # <<>> => Head(zombies) \in User /\ m_Parent[Head(zombies)] = k /\ m_State[Head(zombies)] = "Zombie"
  <2>1. m_Children[k] \in Seq(User) /\ OneNodeEach(m_Children[k]) /\ Linked(m_Children[k]) = {c \in User : m_Parent[c] = k}
    BY <1>1, <1>2 DEF TypeInv, TreeInv
  <2>2. zombies \in Seq(User) /\ OneNodeEach(zombies) /\ Linked(zombies) = Linked(m_Children[k]) \cap dead
    BY <1>2, <2>1, ThoseAre
  <2>3. zombies # <<>> => Head(zombies) \in Linked(zombies)
    BY <2>2, TailLinked
  <2> QED BY <1>2, <2>1, <2>2, <2>3
<1>6. /\ pidNode' \subseteq Procs /\ m_Parent' \in [Procs -> Procs \cup {NULL}]
      /\ m_Children' \in [Procs -> Seq(User)] /\ TreeInv'
      /\ \A c \in User : m_Threads[c] # {} /\ c \in pidNode => c \in pidNode'
      /\ \A c \in User : c \in pidNode' => c \in pidNode
      /\ \A c \in User : m_Parent'[c] = m_Parent[c] \/ m_Parent'[c] = NULL
  <2>1. CASE zombies # <<>> /\ Reap(k, Head(zombies))
    <3>1. PICK c : c = Head(zombies)
      OBVIOUS
    <3>2. c \in User /\ m_Parent[c] = k /\ m_State[c] = "Zombie" /\ Reap(k, c) /\ k \in Procs /\ User \subseteq Procs
      BY <1>2, <1>5, <2>1, <3>1 DEF User
    <3>3. /\ pidNode' = pidNode \ {c} /\ pidNode' \subseteq Procs
          /\ m_Parent' \in [Procs -> Procs \cup {NULL}]
          /\ \A x \in Procs : m_Parent'[x] = IF x = c THEN NULL ELSE m_Parent[x]
          /\ m_Children' \in [Procs -> Seq(User)]
          /\ TreeInv'
      BY <1>3, <3>2, ReapKeeps
    <3>4. m_Threads[c] = {}
      BY <1>1, <3>2 DEF ProcInv
    <3> QED BY <3>2, <3>3, <3>4
  <2>2. CASE UNCHANGED <<pidNode, m_Parent, m_Children>>
    <3>1. TreeInv'
      BY <1>1, <1>3, <2>2 DEF TreeInv
    <3> QED BY <1>1, <2>2, <3>1 DEF TypeInv
  <2> QED BY <1>3, <2>1, <2>2
<1>7. TypeInv'
  <2>1. init' \in {"Waiting", "collect", "reap", "reaped"}
    BY <1>3
  <2>2. tstate' \in [Threads -> {"Unborn", "Ready", "Waiting", "Stopped", "Zombie", "Deleted"}]
    BY <1>4 DEF TStates
  <2> QED BY <1>1, <1>3, <1>6, <2>1, <2>2 DEF TypeInv
<1>8. ThreadInv'
  <2>1. \A q \in Procs : m_Threads'[q] = Members(q)'
    <3>1. \A q \in Procs : Members(q)' = Members(q)
      BY <1>3, <1>4 DEF Members
    <3> QED BY <1>1, <1>3, <3>1 DEF ThreadInv
  <2>2. ASSUME NEW u \in Threads
        PROVE  /\ tstate'[u] = "Unborn" => pc'[u] = "user"
               /\ tstate'[u] = "Waiting" => u \in Linked(m_ChildrenCondition'[Owner[u]])
               /\ tstate'[u] = "Stopped" => pc'[u] \in {"user", "dying"}
               /\ tstate'[u] \in {"Zombie", "Deleted"} => pc'[u] = "exited"
               /\ pc'[u] \in {"looked", "again", "found", "kexit"} => g_PIDMapMutex' = u
               /\ pc'[u] \in {"looked", "again", "found", "asleep"} => want'[u] \in Waits[Owner[u]]
    BY <1>1, <1>3, <1>4 DEF ThreadInv
  <2> QED BY <2>1, <2>2 DEF ThreadInv
<1>9. QueueInv'
  BY <1>1, <1>3 DEF QueueInv
<1>10. ProcInv'
  <2> SUFFICES ASSUME NEW q \in User
               PROVE  /\ m_State'[q] = "Unborn" => q \notin pidNode' /\ \A u \in Threads : Owner[u] = q => tstate'[u] = "Unborn"
                      /\ m_State'[q] # "Unborn" => tstate'[MainThread[q]] # "Unborn"
                      /\ m_State'[q] = "Zombie" => m_Threads'[q] = {}
                      /\ m_Threads'[q] # {} => q \in pidNode'
    BY DEF ProcInv
  <2>1. \A u \in Threads : tstate'[u] = "Unborn" <=> tstate[u] = "Unborn"
    BY <1>4
  <2> QED BY <1>1, <1>3, <1>6, <2>1 DEF ProcInv
<1>11. StopInv'
  <2>1. \A u \in Threads : tstate'[u] = "Stopped" <=> tstate[u] = "Stopped"
    BY <1>4
  <2> QED BY <1>3, <2>1, StopKept
<1>12. SenderInv' /\ DeadInv' /\ FoundInv'
  <2>1. SenderInv' /\ DeadInv'
    BY <1>3, DeadKept
  <2> QED BY <1>3, <2>1, FoundFree
<1>13. ASSUME NEW q \in User, ExitWaits(q), Sleepers(q)' # {}
       PROVE  Cardinality(Zombies(q)') <= Cardinality(Looking(q)')
  <2>1. q # NULL
    BY DEF User
  <2>2. Zombies(q)' \subseteq Zombies(q)
    BY <1>3, <1>6, <2>1 DEF Zombies
  <2>3. Looking(q) \subseteq Looking(q)' /\ Sleepers(q)' \subseteq Sleepers(q)
    BY <1>3 DEF Looking, Sleepers
  <2> QED BY <1>7, <1>13, <2>2, <2>3, ExitKept
<1>14. ExitInv'
  BY <1>13 DEF ExitInv, ExitWaits
<1> QED BY <1>6, <1>7, <1>8, <1>9, <1>10, <1>11, <1>12, <1>14 DEF IInv

\* A step that leaves everything but the init thread alone.
LEMMA InitSleepStep ==
    ASSUME IInv, InitSleep \/ UNCHANGED vars
    PROVE  IInv'
<1>1. TypeInv /\ ThreadInv /\ QueueInv /\ ProcInv /\ TreeInv /\ StopInv
  BY DEF IInv
<1>2. /\ init' \in {"Waiting", "collect", "reap", "reaped"}
      /\ UNCHANGED <<g_PIDMapMutex, pidNode, m_Parent, m_Children, m_StoppedThreadCount, m_State, m_Threads,
                     si_code, m_ChildrenCondition, tstate, pc, pending, canceled, want, found, cur, sender, panicked,
                     sent>>
  BY <1>1 DEF InitSleep, vars, treeVars, stopVars, readVars, TypeInv
<1>3. TypeInv'
  BY <1>1, <1>2 DEF TypeInv
<1>4. Quiet
  <2>1. Unlinks({})
    BY <1>2, KeepsNodes
  <2>2. \E P : Unlinks(P) /\ \A t \in P : tstate'[t] # "Waiting"
    BY <2>1
  <2> QED BY <1>2, <2>2 DEF Quiet
<1>5. StopInv'
  BY <1>2, StopKept
<1>6. SenderInv' /\ DeadInv'
  BY <1>2, DeadKept
<1> QED BY <1>3, <1>4, <1>5, <1>6, QuietStep DEF IInv

-----------------------------------------------------------------------------
(* The theorems *)

\* The lists of children, as far as counting goes.
Lists == \A p \in Procs : /\ m_Children[p] \in Seq(User) /\ OneNodeEach(m_Children[p])
                          /\ Linked(m_Children[p]) = {c \in User : m_Parent[c] = p}

\* A child is in the list of its parent once, and in no other.
ListedOnce ==
    \A c \in User, p \in Procs :
        Cardinality({i \in DOMAIN m_Children[p] : m_Children[p][i] = c}) = IF m_Parent[c] = p THEN 1 ELSE 0

\* The dead in a list are the dead children.
DeadListed ==
    \A p \in Procs :
        Cardinality({i \in DOMAIN m_Children[p] : m_State[m_Children[p][i]] = "Zombie"}) = Cardinality(Zombies(p))

\* That is so because each is listed once.
LEMMA ChildrenCounted == Lists => ListedOnce
<1> SUFFICES ASSUME Lists, NEW c \in User, NEW p \in Procs
             PROVE  Cardinality({i \in DOMAIN m_Children[p] : m_Children[p][i] = c}) =
                        IF m_Parent[c] = p THEN 1 ELSE 0
  BY DEF ListedOnce
<1>1. PICK s : s = m_Children[p]
  OBVIOUS
<1>2. s \in Seq(User) /\ OneNodeEach(s) /\ Linked(s) = {x \in User : m_Parent[x] = p}
  BY <1>1 DEF Lists
<1>3. IsFiniteSet(User)
  BY FS_Difference DEF User
<1>4. Cardinality({i \in DOMAIN s : s[i] \in {c}}) = Cardinality(Linked(s) \cap {c})
  BY <1>2, <1>3, Positions
<1>5. {i \in DOMAIN s : s[i] \in {c}} = {i \in DOMAIN m_Children[p] : m_Children[p][i] = c}
  BY <1>1
<1>6. PICK n, both : both = Linked(s) \cap {c} /\ n = Cardinality(both)
  OBVIOUS
<1>7. n = IF m_Parent[c] = p THEN 1 ELSE 0
  <2>1. both = IF m_Parent[c] = p THEN {c} ELSE {}
    BY <1>2, <1>6
  <2>2. Cardinality({c}) = 1 /\ Cardinality({}) = 0
    BY FS_Singleton, FS_EmptySet
  <2> QED BY <1>6, <2>1, <2>2
<1> QED BY <1>4, <1>5, <1>6, <1>7

\* And so are the dead ones.
LEMMA DeadCounted == Lists => DeadListed
<1> SUFFICES ASSUME Lists, NEW p \in Procs
             PROVE  Cardinality({i \in DOMAIN m_Children[p] : m_State[m_Children[p][i]] = "Zombie"}) =
                        Cardinality(Zombies(p))
  BY DEF DeadListed
<1>1. PICK s, dead : s = m_Children[p] /\ dead = {c \in User : m_State[c] = "Zombie"}
  OBVIOUS
<1>2. s \in Seq(User) /\ OneNodeEach(s) /\ Linked(s) = {x \in User : m_Parent[x] = p}
  BY <1>1 DEF Lists
<1>3. IsFiniteSet(User)
  BY FS_Difference DEF User
<1>4. Cardinality({i \in DOMAIN s : s[i] \in dead}) = Cardinality(Linked(s) \cap dead)
  BY <1>2, <1>3, Positions
<1>5. Linked(s) \cap dead = Zombies(p)
  BY <1>1, <1>2 DEF Zombies
<1>6. {i \in DOMAIN s : s[i] \in dead} = {i \in DOMAIN s : m_State[s[i]] = "Zombie"}
  <2>1. \A i \in DOMAIN s : s[i] \in User
    BY <1>2, ElementOfSeq, LenProperties
  <2> QED BY <1>1, <2>1
<1>7. PICK at, those : /\ at = {i \in DOMAIN s : s[i] \in dead} /\ those = Linked(s) \cap dead
                       /\ Cardinality(at) = Cardinality(those)
  BY <1>4
<1>8. at = {i \in DOMAIN s : m_State[s[i]] = "Zombie"} /\ those = Zombies(p)
  BY <1>5, <1>6, <1>7
<1> QED BY <1>1, <1>7, <1>8

\* What the theorems say of a state.
Promised == /\ FamilyTree /\ WaiterSeesExit
            /\ \A p \in User : Dead(p) => si_code[p] # "0"

\* The kernel has stopped because a process could not be started.
Panicked == panicked = TRUE /\ Promised

\* While the kernel runs the invariant says it all.
LEMMA RunningPromised == IInv => Promised
<1> SUFFICES ASSUME IInv PROVE Promised
  OBVIOUS
<1>1. TypeInv /\ TreeInv /\ StopInv /\ ThreadInv
  BY DEF IInv
<1>2. Lists
  BY <1>1 DEF Lists, TypeInv, TreeInv
<1>3. FamilyTree
  <2>1. TypeOK
    BY <1>1 DEF TypeOK, TypeInv, StopInv, StoppedOf, Labels
  <2>2. \A c \in User : m_State[c] # "Destroyed"
    BY <1>1 DEF TypeInv, User, ProcStates
  <2>3. panicked = FALSE
    BY <1>1 DEF TypeInv
  <2>4. \A c \in User, p \in Procs :
           Cardinality({i \in DOMAIN m_Children[p] : m_Children[p][i] = c}) = IF m_Parent[c] = p THEN 1 ELSE 0
    BY <1>2, ChildrenCounted DEF ListedOnce
  <2>5. \A c \in User : /\ c \in pidNode <=> m_Parent[c] # NULL
                        /\ c \in pidNode => m_Parent[c] = gk_KernelProcess \/ m_Threads[m_Parent[c]] # {}
    BY <1>1 DEF TreeInv
  <2> QED BY <2>1, <2>2, <2>3, <2>4, <2>5 DEF FamilyTree
<1>4. WaiterSeesExit
  <2> SUFFICES ASSUME NEW t \in Threads, tstate[t] = "Waiting",
                      \A w \in Waits[Owner[t]] : w.id = ANY /\ w.options \ {"NOHANG"} = {"EXITED"}
               PROVE  Cardinality({i \in DOMAIN m_Children[Owner[t]] : m_State[m_Children[Owner[t]][i]] = "Zombie"})
                         <= Cardinality(Looking(Owner[t]))
    BY DEF WaiterSeesExit
  <2>1. PICK p : p = Owner[t]
    OBVIOUS
  <2>2. p \in User /\ p \in Procs /\ ExitWaits(p)
    BY <2>1 DEF User, ExitWaits
  <2>3. Sleepers(p) # {}
    BY <1>1, <2>1 DEF ThreadInv, Sleepers
  <2>4. Cardinality(Zombies(p)) <= Cardinality(Looking(p))
    BY <2>2, <2>3 DEF IInv, ExitInv
  <2>5. PICK n : /\ n = Cardinality({i \in DOMAIN m_Children[p] : m_State[m_Children[p][i]] = "Zombie"})
                 /\ n = Cardinality(Zombies(p))
    BY <1>2, <2>2, DeadCounted DEF DeadListed
  <2> QED BY <2>1, <2>4, <2>5
<1>5. \A p \in User : Dead(p) => si_code[p] # "0"
  BY DEF IInv, DeadInv, Dead
<1> QED BY <1>3, <1>4, <1>5 DEF Promised

\* A process that is destroyed at birth is in the list of its parent; the rest is as it was.
LEMMA SpawnFailsStep ==
    ASSUME IInv, NEW t \in Threads, NEW c \in User, SpawnFails(t, c)
    PROVE  Panicked'
<1>1. TypeInv /\ ThreadInv /\ ProcInv /\ TreeInv /\ StopInv /\ DeadInv /\ c \in Procs /\ User \subseteq Procs
  BY DEF IInv, User
<1>2. PICK p : p = Owner[t]
  OBVIOUS
<1>3. /\ tstate[t] = "Ready" /\ pc[t] = "user" /\ m_State[c] = "Unborn"
      /\ m_State' = [m_State EXCEPT ![c] = "Destroyed"]
      /\ m_Parent' = [m_Parent EXCEPT ![c] = p]
      /\ m_Children' = [m_Children EXCEPT ![p] = Append(@, c)]
      /\ panicked' = TRUE
      /\ UNCHANGED <<g_PIDMapMutex, pidNode, m_StoppedThreadCount, m_Threads, si_code, m_ChildrenCondition,
                     tstate, pc, pending, canceled, want, found, cur, sender, init, sent>>
  BY <1>2 DEF SpawnFails, At, stopVars
<1>4. p \in User /\ p \in Procs /\ p # NULL
  BY <1>2, <1>3, ReadyIsMember DEF User
<1>5. c \notin pidNode /\ m_Parent[c] = NULL
  BY <1>1, <1>3 DEF ProcInv, TreeInv
<1>6. /\ \A q \in Procs : m_State'[q] = IF q = c THEN "Destroyed" ELSE m_State[q]
      /\ \A q \in Procs : m_Parent'[q] = IF q = c THEN p ELSE m_Parent[q]
      /\ \A q \in Procs : m_State[q] # "Destroyed"
  BY <1>1, <1>3 DEF TypeInv, ProcStates
<1>7. /\ Append(m_Children[p], c) \in Seq(User) /\ OneNodeEach(Append(m_Children[p], c))
      /\ Linked(Append(m_Children[p], c)) = Linked(m_Children[p]) \cup {c}
  <2>1. c \notin Linked(m_Children[p]) /\ m_Children[p] \in Seq(User) /\ OneNodeEach(m_Children[p])
    BY <1>1, <1>4, <1>5 DEF TreeInv, TypeInv
  <2> QED BY <2>1, AppendLinked
<1>8. m_Children' \in [Procs -> Seq(User)]
  BY <1>1, <1>3, <1>4, <1>7 DEF TypeInv
<1>9. Lists'
  <2> SUFFICES ASSUME NEW q \in Procs
               PROVE  /\ m_Children'[q] \in Seq(User) /\ OneNodeEach(m_Children'[q])
                      /\ Linked(m_Children'[q]) = {x \in User : m_Parent'[x] = q}
    BY DEF Lists
  <2>1. Linked(m_Children[q]) = {x \in User : m_Parent[x] = q} /\ OneNodeEach(m_Children[q])
    BY <1>1 DEF TreeInv
  <2>2. \A x \in User : m_Parent'[x] = IF x = c THEN p ELSE m_Parent[x]
    BY <1>1, <1>6
  <2>3. CASE q = p
    <3>1. m_Children'[q] = Append(m_Children[p], c)
      BY <1>1, <1>3, <2>3 DEF TypeInv
    <3>2. {x \in User : m_Parent'[x] = q} = Linked(m_Children[p]) \cup {c}
      BY <1>5, <2>1, <2>2, <2>3
    <3> QED BY <1>7, <3>1, <3>2
  <2>4. CASE q # p
    <3>1. m_Children'[q] = m_Children[q]
      BY <1>1, <1>3, <2>4 DEF TypeInv
    <3>2. {x \in User : m_Parent'[x] = q} = {x \in User : m_Parent[x] = q}
      BY <1>5, <2>2, <2>4
    <3> QED BY <1>8, <2>1, <3>1, <3>2
  <2> QED BY <2>3, <2>4
<1>10. FamilyTree'
  <2>1. TypeOK'
    <3>1. m_State' \in [Procs -> ProcStates \cup {"Destroyed"}] /\ m_Parent' \in [Procs -> Procs \cup {NULL}]
      BY <1>1, <1>3, <1>4 DEF TypeInv
    <3>2. StopInv'
      BY <1>3, StopKept
    <3>3. /\ g_PIDMapMutex' \in Threads \cup {NULL} /\ pidNode' \subseteq Procs
          /\ m_Threads' \in [Procs -> SUBSET Threads] /\ si_code' \in [Procs -> Codes]
          /\ m_ChildrenCondition' \in [Procs -> Seq(Threads)]
          /\ tstate' \in [Threads -> {"Unborn", "Ready", "Waiting", "Stopped", "Zombie", "Deleted"}]
      BY <1>1, <1>3 DEF TypeInv
    <3>4. /\ pc' \in [Threads -> Labels] /\ pending' \in [Threads -> SUBSET {"KILL", "STOP"}]
          /\ canceled' \subseteq Threads /\ found' \in User \cup {NULL} /\ cur' \in [Threads -> Codes]
          /\ sender' \in [proc : Procs, code : {"0", "STOPPED", "CONTINUED"}, cur : Codes]
          /\ init' \in {"Waiting", "collect", "reap", "reaped"} /\ sent' \in 0..MaxSignals
          /\ panicked' \in BOOLEAN
      BY <1>1, <1>3 DEF TypeInv
    <3>5. \A q \in Procs : m_StoppedThreadCount'[q] = Cardinality({u \in m_Threads'[q] : tstate'[u] = "Stopped"})
      BY <3>2 DEF StopInv, StoppedOf
    <3> QED BY <1>8, <3>1, <3>3, <3>4, <3>5 DEF TypeOK, Labels
  <2>2. \A x \in User, q \in Procs :
           Cardinality({i \in DOMAIN m_Children'[q] : m_Children'[q][i] = x}) = IF m_Parent'[x] = q THEN 1 ELSE 0
    <3>1. Lists' => ListedOnce'
      BY ChildrenCounted, PTL
    <3> QED BY <1>9, <3>1 DEF ListedOnce
  <2>3. ASSUME NEW x \in User
        PROVE  /\ x \in pidNode' <=> m_Parent'[x] # NULL /\ m_State'[x] # "Destroyed"
               /\ x \in pidNode' => m_Parent'[x] = gk_KernelProcess \/ m_Threads'[m_Parent'[x]] # {}
    <3>1. CASE x = c
      BY <1>1, <1>3, <1>5, <1>6, <3>1
    <3>2. CASE x # c
      <4>1. m_Parent'[x] = m_Parent[x] /\ m_State'[x] # "Destroyed"
        BY <1>1, <1>6, <3>2
      <4> QED BY <1>1, <1>3, <4>1 DEF TreeInv
    <3> QED BY <3>1, <3>2
  <2>4. panicked' <=> \E x \in User : m_State'[x] = "Destroyed"
    BY <1>1, <1>3, <1>6
  <2> QED BY <2>1, <2>2, <2>3, <2>4 DEF FamilyTree
<1>11. WaiterSeesExit'
  <2> SUFFICES ASSUME NEW u \in Threads, tstate'[u] = "Waiting",
                      \A w \in Waits[Owner[u]] : w.id = ANY /\ w.options \ {"NOHANG"} = {"EXITED"}
               PROVE  Cardinality({i \in DOMAIN m_Children'[Owner[u]] : m_State'[m_Children'[Owner[u]][i]] = "Zombie"})
                         <= Cardinality(Looking(Owner[u])')
    BY DEF WaiterSeesExit
  <2>1. PICK q : q = Owner[u]
    OBVIOUS
  <2>2. q \in User /\ q \in Procs /\ ExitWaits(q)
    BY <2>1 DEF User, ExitWaits
  <2>3. Sleepers(q) # {}
    BY <1>1, <1>3, <2>1 DEF ThreadInv, Sleepers
  <2>4. Cardinality(Zombies(q)) <= Cardinality(Looking(q))
    BY <2>2, <2>3 DEF IInv, ExitInv
  <2>5. Looking(q)' = Looking(q)
    BY <1>3 DEF Looking
  <2>6. Zombies(q)' \subseteq Zombies(q)
    BY <1>1, <1>6 DEF Zombies
  <2>7. IsFiniteSet(Zombies(q)) /\ Cardinality(Zombies(q)) \in Nat /\ Cardinality(Looking(q)) \in Nat
    BY <1>1, <2>2, Sizes
  <2>8. Cardinality(Zombies(q)') <= Cardinality(Zombies(q)) /\ Cardinality(Zombies(q)') \in Nat
    BY <2>6, <2>7, FS_Subset, FS_CardinalityType
  <2>9. PICK n : /\ n = Cardinality({i \in DOMAIN m_Children'[q] : m_State'[m_Children'[q][i]] = "Zombie"})
                 /\ n = Cardinality(Zombies(q)')
    <3>1. Lists' => DeadListed'
      BY DeadCounted, PTL
    <3> QED BY <1>9, <2>2, <3>1 DEF DeadListed
  <2>10. Cardinality(Zombies(q)') <= Cardinality(Looking(q)')
    BY <2>4, <2>5, <2>7, <2>8
  <2> QED BY <2>1, <2>9, <2>10
<1>12. ASSUME NEW q \in User, Dead(q)' PROVE si_code'[q] # "0"
  <2>1. m_Threads[q] = {} /\ q # c /\ m_State[q] # "Unborn"
    BY <1>1, <1>3, <1>6, <1>12 DEF Dead
  <2> QED BY <1>1, <1>3, <2>1 DEF DeadInv
<1> QED BY <1>3, <1>10, <1>11, <1>12 DEF Panicked, Promised

\* Every step keeps the invariant, or is the end.
LEMMA NextIInv == IInv /\ [Next]_vars => IInv' \/ Panicked'
<1> SUFFICES ASSUME IInv, [Next]_vars PROVE IInv' \/ Panicked'
  OBVIOUS
<1>1. ASSUME NEW t \in Threads, Step(t) PROVE IInv' \/ Panicked'
  <2>1. Owner[t] \in User /\ Spawns[Owner[t]] \subseteq User
    OBVIOUS
  <2>2. ASSUME NEW c \in Spawns[Owner[t]], SpawnProcess(t, c) \/ SpawnFails(t, c) PROVE IInv' \/ Panicked'
    BY <2>1, <2>2, SpawnProcessStep, SpawnFailsStep
  <2>3. ASSUME NEW u \in Threads, AddThread(t, u) PROVE IInv'
    BY <2>3, AddThreadStep
  <2>4. CASE TakeKill(t) \/ TakeStop(t)
    BY <2>4, TakeKillStep, TakeStopStep
  <2>5. CASE Exit(t) \/ CancelThreads(t) \/ Finish(t)
    BY <2>5, ExitStep, CancelThreadsStep, FinishStep
  <2>6. CASE ThreadExit(t) \/ MainThreadExit(t)
    BY <2>6, ThreadExitStep, MainThreadExitStep
  <2>7. CASE RemoveThread(t)
    BY <2>7, RemoveThreadStep, LastThreadStep
  <2>8. CASE ThreadGone(t)
    BY <2>8, ThreadGoneStep
  <2>9. ASSUME NEW w \in Waits[Owner[t]], Wait(t, w) PROVE IInv'
    BY <2>9, WaitStep
  <2>10. CASE LookAgain(t) \/ Report(t)
    BY <2>10, LookAgainStep, ReportStep
  <2>11. CASE Sleep(t) \/ Awake(t)
    BY <2>11, SleepStep, AwakeStep
  <2> QED BY <1>1, <2>2, <2>3, <2>4, <2>5, <2>6, <2>7, <2>8, <2>9, <2>10, <2>11 DEF Step
<1>2. ASSUME NEW p \in Signalled, StopProcess(p) \/ ContinueProcess(p) \/ Kill(p) PROVE IInv'
  <2>1. p \in User /\ {"STOPPED", "CONTINUED"} \subseteq {"STOPPED", "CONTINUED"}
    OBVIOUS
  <2> QED BY <1>2, <2>1, SendStep, KillStep DEF StopProcess, ContinueProcess
<1>3. CASE StopThreads \/ ContinueThreads
  BY <1>3, StopThreadsStep, ContinueThreadsStep
<1>4. CASE InitReap
  BY <1>4, InitReapStep
<1>5. CASE InitSleep \/ UNCHANGED vars
  BY <1>5, InitSleepStep
<1> QED BY <1>1, <1>2, <1>3, <1>4, <1>5 DEF Next

\* Nothing happens after the panic.
LEMMA PanickedStays == Panicked /\ [Next]_vars => Panicked' /\ UNCHANGED vars
<1> SUFFICES ASSUME Panicked, [Next]_vars PROVE Panicked' /\ UNCHANGED vars
  OBVIOUS
<1>1. UNCHANGED vars
  BY DEF Next, Panicked
<1>2. FamilyTree'
  <2>1. TypeOK'
    <3>1. /\ TypeOK /\ UNCHANGED <<g_PIDMapMutex, pidNode, m_State, m_Parent, m_Children, m_Threads, si_code,
                                  m_StoppedThreadCount, m_ChildrenCondition, tstate, pc, pending, canceled,
                                  found, cur, sender, init, sent, panicked>>
      BY <1>1 DEF Panicked, Promised, FamilyTree, vars, treeVars, stopVars, readVars
    <3>2. \A p \in Procs : StoppedOf(p)' = StoppedOf(p)
      BY <3>1 DEF StoppedOf
    <3>3. \A p \in Procs : m_StoppedThreadCount[p] = Cardinality(StoppedOf(p))
      BY <3>1 DEF TypeOK, StoppedOf
    <3>4. \A p \in Procs : m_StoppedThreadCount'[p] = Cardinality(StoppedOf(p)')
      BY <3>1, <3>2, <3>3
    <3>5. \A p \in Procs : m_StoppedThreadCount'[p] = Cardinality({t \in m_Threads'[p] : tstate'[t] = "Stopped"})
      BY <3>4 DEF StoppedOf
    <3> QED BY <3>1, <3>5 DEF TypeOK
  <2> QED BY <1>1, <2>1 DEF Panicked, Promised, FamilyTree, vars, treeVars, readVars
<1>3. WaiterSeesExit' /\ \A p \in User : Dead(p)' => si_code'[p] # "0"
  BY <1>1 DEF Panicked, Promised, WaiterSeesExit, Looking, Dead, vars, treeVars, stopVars, readVars
<1> QED BY <1>1, <1>2, <1>3 DEF Panicked, Promised, vars, readVars

\* The invariant always holds, or the kernel has panicked at a birth.
LEMMA Inductive == Spec => [](IInv \/ Panicked)
  BY InitIInv, NextIInv, PanickedStays, PTL DEF Spec

\* A process the PID map leads to is in the list of its parent, once, and in no other; the
\* parent is in the map too and is alive, whatever exits, orphans and reaping have done.  A
\* child outside the map is one whose thread could not be created, and the kernel panicked.
THEOREM FamilyTreeHolds == Spec => []FamilyTree
  BY Inductive, RunningPromised, PTL DEF Panicked, Promised

\* Where all calls of a program wait for the exit of any child, a thread sleeps in waitid
\* beside dead children only while as many others of its process are on their way to look.
THEOREM WaiterSeesExitHolds == Spec => []WaiterSeesExit
  BY Inductive, RunningPromised, PTL DEF Panicked, Promised

\* The write of kill() is for a process that lives, or says what it has seen.
LEMMA SenderIsLate ==
    ASSUME IInv, sender.code # "0", SetExitStatus(sender.proc, sender.cur, sender.code),
           NEW q \in User, Dead(q), si_code[q] \in Death
    PROVE  si_code'[q] = si_code[q]
<1>1. TypeInv /\ DeadInv /\ q \in Procs
  BY DEF IInv, User
<1>2. PICK p, read, code : p = sender.proc /\ read = sender.cur /\ code = sender.code
  OBVIOUS
<1>3. si_code' = [si_code EXCEPT ![p] = IF read \in Death THEN @ ELSE code]
  BY <1>2 DEF SetExitStatus
<1>4. CASE q = p
  <2>1. read = si_code[q]
    BY <1>1, <1>2, <1>4 DEF DeadInv, Dead
  <2> QED BY <1>1, <1>3, <2>1 DEF TypeInv
<1>5. CASE q # p
  BY <1>1, <1>3, <1>5 DEF TypeInv
<1> QED BY <1>4, <1>5

\* The write of a thread is for its own process, which lives.
LEMMA WriterLives ==
    ASSUME IInv, NEW t \in Threads, tstate[t] = "Ready", pc[t] # "exited",
           NEW status, si_code' = [si_code EXCEPT ![Owner[t]] = status],
           NEW q \in User, Dead(q)
    PROVE  si_code'[q] = si_code[q]
<1>1. q # Owner[t] /\ q \in Procs
  BY ReadyIsMember DEF Dead, User
<1>2. si_code \in [Procs -> Codes]
  BY DEF IInv, TypeInv
<1> QED BY <1>1, <1>2

\* No step changes how a dead process has ended.
LEMMA NextFinal ==
    ASSUME IInv, [Next]_vars, NEW q \in User, Dead(q), si_code[q] \in Death
    PROVE  si_code'[q] = si_code[q]
<1>1. ASSUME NEW t \in Threads, Step(t) PROVE si_code'[q] = si_code[q]
  <2>1. CASE \E c \in Spawns[Owner[t]] : SpawnProcess(t, c) \/ SpawnFails(t, c)
    BY <2>1 DEF SpawnProcess, SpawnFails
  <2>2. CASE \E u \in Threads : AddThread(t, u)
    BY <2>2 DEF AddThread
  <2>3. CASE TakeKill(t)
    <3>1. PICK read : read = si_code[Owner[t]]
      OBVIOUS
    <3>2. /\ tstate[t] = "Ready" /\ pc[t] \in {"user", "dying"}
          /\ si_code' = [si_code EXCEPT ![Owner[t]] = IF read \in Death THEN @ ELSE "KILLED"]
      BY <2>3, <3>1 DEF TakeKill, At, SetExitStatus
    <3>3. PICK status : si_code' = [si_code EXCEPT ![Owner[t]] = status]
      BY <3>2
    <3> QED BY <3>2, <3>3, WriterLives
  <2>4. CASE CancelThreads(t) \/ MainThreadExit(t)
    <3>1. /\ tstate[t] = "Ready" /\ pc[t] \in {"kexit", "status"}
          /\ si_code' = [si_code EXCEPT ![Owner[t]] = IF cur[t] \in Death THEN @ ELSE "EXITED"]
      BY <2>4 DEF CancelThreads, MainThreadExit, At, SetExitStatus
    <3>2. PICK status : si_code' = [si_code EXCEPT ![Owner[t]] = status]
      BY <3>1
    <3> QED BY <3>1, <3>2, WriterLives
  <2>5. CASE RemoveThread(t)
    <3>1. /\ tstate[t] = "Ready" /\ pc[t] = "exiting"
          /\ \/ si_code' = si_code
             \/ si_code' = [si_code EXCEPT ![Owner[t]] = IF @ = "0" THEN "KILLED" ELSE @]
      BY <2>5 DEF RemoveThread, HandleExit, At
    <3>2. CASE si_code' = [si_code EXCEPT ![Owner[t]] = IF @ = "0" THEN "KILLED" ELSE @]
      <4>1. PICK status : si_code' = [si_code EXCEPT ![Owner[t]] = status]
        BY <3>2
      <4> QED BY <3>1, <4>1, WriterLives
    <3> QED BY <3>1, <3>2
  <2>6. CASE Report(t)
    <3>1. PICK p, c, options : p = Owner[t] /\ c = found /\ options = want[t].options
      OBVIOUS
    <3>2. /\ pc[t] = "found" /\ GetChildInfo(p, c, options) /\ UNCHANGED <<m_Threads, tstate>>
      BY <2>6, <3>1 DEF Report, At
    <3>3. c \in User /\ m_Parent[c] = p /\ (m_State[c] = "Zombie" \/ m_Threads[c] # {}) /\ p \in User
      BY <3>1, <3>2 DEF IInv, FoundInv
    <3>4. Reported
      BY <3>2, <3>3, GetChildInfoStep
    <3> QED BY <3>4 DEF Reported, Dead
  <2>7. CASE \/ TakeStop(t) \/ Exit(t) \/ Finish(t) \/ ThreadExit(t) \/ ThreadGone(t)
             \/ \E w \in Waits[Owner[t]] : Wait(t, w)
             \/ LookAgain(t) \/ Sleep(t) \/ Awake(t)
    BY <2>7 DEF TakeStop, Exit, Finish, ThreadExit, ThreadGone, Wait, LookAgain, Look, Sleep, Awake
  <2> QED BY <1>1, <2>1, <2>2, <2>3, <2>4, <2>5, <2>6, <2>7 DEF Step
<1>2. ASSUME NEW p \in Signalled, StopProcess(p) \/ ContinueProcess(p) \/ Kill(p) PROVE si_code'[q] = si_code[q]
  BY <1>2 DEF StopProcess, ContinueProcess, Send, Kill
<1>3. CASE StopThreads \/ ContinueThreads
  <2>1. sender.code # "0" /\ SetExitStatus(sender.proc, sender.cur, sender.code)
    BY <1>3 DEF StopThreads, ContinueThreads
  <2> QED BY <2>1, SenderIsLate
<1>4. CASE InitReap \/ InitSleep \/ UNCHANGED vars
  BY <1>4 DEF InitReap, InitSleep, vars
<1> QED BY <1>1, <1>2, <1>3, <1>4 DEF Next

\* A dead process has a status, and if it says how the process ended, no signal that was
\* under way, no wait that had found the process, and no exit changes it any more.
THEOREM DeathIsFinal == Spec => DeadKeepsStatus
<1>1. IInv /\ [Next]_vars => [\A p \in User : Dead(p) =>
           /\ si_code[p] # "0"
           /\ si_code[p] \in Death => si_code'[p] = si_code[p]]_vars
  <2> SUFFICES ASSUME IInv, [Next]_vars, NEW p \in User, Dead(p)
               PROVE  /\ si_code[p] # "0"
                      /\ si_code[p] \in Death => si_code'[p] = si_code[p]
    OBVIOUS
  <2>1. si_code[p] # "0"
    BY RunningPromised DEF Promised
  <2> QED BY <2>1, NextFinal
<1>2. Panicked /\ [Next]_vars => [\A p \in User : Dead(p) =>
           /\ si_code[p] # "0"
           /\ si_code[p] \in Death => si_code'[p] = si_code[p]]_vars
  BY PanickedStays
<1> QED BY Inductive, <1>1, <1>2, PTL DEF Spec, DeadKeepsStatus
=============================================================================
