-------------------------- MODULE Scheduler_proofs --------------------------
(***************************************************************************)
(* Theorems about the scheduler and the life of a thread, for every number *)
(* of threads and levels: exact ready lists and sleep list, no death that  *)
(* the init thread or a joiner sleeps through, and memory that is given    *)
(* back once, after the last step of its thread.                           *)
(***************************************************************************)
EXTENDS Scheduler, WaitQueue_proofs

InitLabels == {"boot", "collect", "delete", "erase", "idle"}
JoinLabels == {"join", "joinWoken", "joined", "joinErase"}
Labels == InitLabels \cup JoinLabels \cup {"user", "snoozing", "snoozed"}

\* The ready lists: nobody is in one twice, or in two of them.
AllLevels == 0..Levels - 1
Lists(ready) == /\ ready \in [AllLevels -> Seq(Threads)]
                /\ \A l \in AllLevels : OneNodeEach(ready[l])
                /\ \A l, m \in AllLevels : l # m => Linked(ready[l]) \cap Linked(ready[m]) = {}
InLists(ready) == {t \in Threads : \E l \in AllLevels : t \in Linked(ready[l])}

TypeInv ==
    /\ gk_CurrentThread \in Threads
    /\ pendSV \in BOOLEAN
    /\ tstate \in [Threads -> States]
    /\ level \in [Threads -> AllLevels]
    /\ now \in 0..MaxTime
    /\ resume \in [Threads -> 0..MaxTime]
    /\ detached \in [Threads -> BOOLEAN]
    /\ joining \in [Threads -> Threads \cup {NoThread}]
    /\ listed \subseteq Threads
    /\ cleanups \in [Threads -> 0..1]
    /\ pc \in [Threads -> Labels]

ReadyInv == /\ Lists(gk_ReadyThreadLists)
            /\ InLists(gk_ReadyThreadLists) = {t \in Threads : tstate[t] = "Ready"}

(***************************************************************************)
(* Who runs: the idle thread always can, so that a switch finds somebody.  *)
(* The labels of the loop of init are init's alone, and Main is not born   *)
(* before init has started it.                                             *)
(***************************************************************************)
RunInv ==
    /\ \A t \in Threads : tstate[t] = "Running" => t = gk_CurrentThread
    /\ tstate[gk_CurrentThread] # "Running" => pendSV \/ pc[gk_CurrentThread] = "snoozing"
    /\ tstate[gk_IdleThread] \in {"Ready", "Running"} /\ pc[gk_IdleThread] = "user"
    /\ \A t \in Threads : pc[t] \in InitLabels <=> t = gk_InitThread
    /\ tstate[gk_InitThread] \in {"Ready", "Running", "Waiting"}
    /\ pc[gk_InitThread] = "boot" => tstate[Main] = "Unborn"

InOrder(list, time) ==
    \A i, j \in 1..Len(list) : i < j => time[list[i]] <= time[list[j]]

SleepInv ==
    /\ gk_SleepingThreads \in Seq(Threads)
    /\ OneNodeEach(gk_SleepingThreads)
    /\ InOrder(gk_SleepingThreads, resume)
    /\ \A t \in Threads : tstate[t] = "Sleeping" =>
           t \in Linked(gk_SleepingThreads) /\ now < resume[t]
    /\ \A t \in Linked(gk_SleepingThreads) : pc[t] \in {"snoozing", "snoozed"}

\* A thread that is being joined exists, is joinable and has one joiner.
TargetInv ==
    \A t \in Threads :
        /\ joining[t] # NoThread <=> pc[t] \in JoinLabels
        /\ joining[t] # NoThread =>
               /\ joining[t] # t /\ ~detached[joining[t]]
               /\ tstate[joining[t]] \notin {"Unborn", "Deleted"}
               /\ \A j \in Threads : joining[j] = joining[t] => j = t
        /\ pc[t] \in {"join", "joined", "joinErase"} => tstate[t] \in {"Ready", "Running"}
        /\ pc[t] \in {"joined", "joinErase"} =>
               tstate[joining[t]] = "Zombie" /\ joining[t] # gk_CurrentThread
        /\ pc[t] \in JoinLabels => cleanups[joining[t]] = IF pc[t] = "joinErase" THEN 1 ELSE 0

\* Where a joiner waits, and that it does not sleep beside the dead.
JoinInv ==
    /\ joiners \in [Threads -> Seq(Threads)]
    /\ \A u \in Threads : /\ OneNodeEach(joiners[u])
                          /\ \A t \in Linked(joiners[u]) : pc[t] = "joinWoken" /\ joining[t] = u
    /\ \A t \in Threads : pc[t] = "joinWoken" /\ tstate[t] = "Waiting" =>
           /\ t \in Linked(joiners[joining[t]])
           /\ tstate[joining[t]] = "Zombie" => joining[t] = gk_CurrentThread /\ pendSV

ReapInv ==
    /\ \A t \in Threads :
           /\ cleanups[t] > 0 => tstate[t] \in {"Zombie", "Deleted"} /\ t # gk_CurrentThread
           /\ tstate[t] # "Unborn" /\ cleanups[t] = 0 => t \in listed
           /\ t \in listed => tstate[t] # "Unborn"
           /\ tstate[t] = "Deleted" => detached[t] /\ cleanups[t] > 0
           /\ ~detached[t] /\ t \in listed /\ cleanups[t] > 0 => \E j \in Threads : joining[j] = t

Queued == Linked(gk_ZombieThreadLists) \cup Linked(threadsToDelete)

ZombieInv ==
    /\ gk_ZombieThreadLists \in Seq(Threads) /\ threadsToDelete \in Seq(Threads)
    /\ OneNodeEach(gk_ZombieThreadLists) /\ OneNodeEach(threadsToDelete)
    /\ Linked(gk_ZombieThreadLists) \cap Linked(threadsToDelete) = {}
    /\ \A t \in Queued : /\ tstate[t] = "Zombie" /\ detached[t] /\ cleanups[t] = 0
                         /\ t # gk_CurrentThread
    /\ InitSeesZombies

IInv == TypeInv /\ ReadyInv /\ RunInv /\ SleepInv /\ TargetInv /\ JoinInv /\ ReapInv /\ ZombieInv

-----------------------------------------------------------------------------
(* The operators on lists *)

\* add_thread_to_ready_list for threads that are in no ready list.
LEMMA EnqueueLists ==
    ASSUME TypeInv, NEW ready, Lists(ready), NEW s \in Seq(Threads), OneNodeEach(s),
           InLists(ready) \cap Linked(s) = {}
    PROVE  /\ Lists(Enqueue(ready, s))
           /\ InLists(Enqueue(ready, s)) = InLists(ready) \cup Linked(s)
<1> DEFINE On(l) == {t \in Threads : level[t] = l}
           new == Enqueue(ready, s)
<1>1. Linked(s) \subseteq Threads
  BY LinkedAt
<1>2. ASSUME NEW l \in AllLevels
      PROVE  /\ new[l] \in Seq(Threads) /\ OneNodeEach(new[l])
             /\ Linked(new[l]) = Linked(ready[l]) \cup (Linked(s) \cap On(l))
             /\ Linked(ready[l]) \subseteq InLists(ready)
  <2> DEFINE r == ready[l]
             q == Those(s, On(l))
  <2>1. r \in Seq(Threads) /\ OneNodeEach(r)
    BY DEF Lists
  <2>2. q \in Seq(Threads) /\ OneNodeEach(q) /\ Linked(q) = Linked(s) \cap On(l)
    BY ThoseAre
  <2>3. Linked(r) \subseteq Threads
    BY <2>1, LinkedAt
  <2>4. Linked(r) \subseteq InLists(ready)
    BY <2>3 DEF InLists
  <2>5. new[l] = r \o q
    BY DEF Enqueue, AllLevels
  <2> HIDE DEF r, q, new, On
  <2>6. Linked(r) \cap Linked(q) = {}
    BY <2>2, <2>4
  <2>7. r \o q \in Seq(Threads) /\ OneNodeEach(r \o q) /\ Linked(r \o q) = Linked(r) \cup Linked(q)
    BY <2>1, <2>2, <2>6, ConcatLinked
  <2> QED BY <2>2, <2>4, <2>5, <2>7 DEF r
<1>3. new = [l \in AllLevels |-> new[l]]
  BY DEF Enqueue, AllLevels
<1> HIDE DEF new
<1>4. new \in [AllLevels -> Seq(Threads)]
  BY <1>2, <1>3
<1>5. ASSUME NEW l \in AllLevels, NEW m \in AllLevels, l # m
      PROVE  Linked(new[l]) \cap Linked(new[m]) = {}
  <2>1. Linked(ready[l]) \cap Linked(ready[m]) = {}
    BY <1>5 DEF Lists
  <2>2. On(l) \cap On(m) = {}
    BY <1>5
  <2> HIDE DEF On
  <2> QED BY <1>2, <2>1, <2>2
<1>6. Lists(new)
  BY <1>2, <1>4, <1>5 DEF Lists
<1>7. ASSUME NEW t \in InLists(new) PROVE t \in InLists(ready) \cup Linked(s)
  BY <1>2 DEF InLists
<1>8. ASSUME NEW t \in InLists(ready) PROVE t \in InLists(new)
  BY <1>2 DEF InLists
<1>9. ASSUME NEW t \in Linked(s) PROVE t \in InLists(new)
  <2>1. t \in Threads /\ level[t] \in AllLevels
    BY <1>1 DEF TypeInv
  <2> QED BY <1>2, <2>1 DEF InLists
<1> QED BY <1>6, <1>7, <1>8, <1>9 DEF new

\* The first thread of a ready list leaves it.
LEMMA DequeueLists ==
    ASSUME NEW ready, Lists(ready), NEW l \in AllLevels, ready[l] # <<>>
    PROVE  /\ Head(ready[l]) \in InLists(ready)
           /\ Lists([ready EXCEPT ![l] = Tail(@)])
           /\ InLists([ready EXCEPT ![l] = Tail(@)]) = InLists(ready) \ {Head(ready[l])}
<1> DEFINE r == ready[l]
           new == [ready EXCEPT ![l] = Tail(@)]
<1>1. r \in Seq(Threads) /\ OneNodeEach(r) /\ r # <<>>
  BY DEF Lists
<1>2. new \in [AllLevels -> Seq(Threads)] /\ new[l] = Tail(r)
      /\ \A m \in AllLevels : m # l => new[m] = ready[m]
  BY <1>1 DEF Lists
<1> HIDE DEF r, new
<1>3. /\ Head(r) \in Linked(r) /\ OneNodeEach(Tail(r)) /\ Linked(Tail(r)) = Linked(r) \ {Head(r)}
  BY <1>1, TailLinked
<1>4. Linked(r) \subseteq Threads
  BY <1>1, LinkedAt
<1>5. Head(r) \in InLists(ready)
  BY <1>3, <1>4 DEF InLists, r
<1>6. \A m \in AllLevels : m # l => Head(r) \notin Linked(ready[m])
  BY <1>3 DEF Lists, r
<1>7. \A m \in AllLevels : Linked(new[m]) = Linked(ready[m]) \ {Head(r)}
  BY <1>2, <1>3, <1>6 DEF r
<1>8. Lists(new)
  <2>1. \A m \in AllLevels : OneNodeEach(new[m])
    BY <1>2, <1>3 DEF Lists
  <2>2. ASSUME NEW m \in AllLevels, NEW k \in AllLevels, m # k
        PROVE  Linked(new[m]) \cap Linked(new[k]) = {}
    <3>1. Linked(ready[m]) \cap Linked(ready[k]) = {}
      BY <2>2 DEF Lists
    <3> QED BY <1>7, <3>1
  <2> QED BY <1>2, <2>1, <2>2 DEF Lists
<1>9. InLists(new) = InLists(ready) \ {Head(r)}
  BY <1>7 DEF InLists
<1> QED BY <1>5, <1>8, <1>9 DEF new, r

\* The ready lists and the states after some threads that were not ready became so.
LEMMA MadeReadyStep ==
    ASSUME TypeInv, NEW ready, NEW state \in [Threads -> States], Lists(ready),
           InLists(ready) = {t \in Threads : state[t] = "Ready"},
           NEW s \in Seq(Threads), OneNodeEach(s), \A t \in Linked(s) : state[t] # "Ready"
    PROVE  /\ Lists(Enqueue(ready, s))
           /\ InLists(Enqueue(ready, s)) = {t \in Threads : MadeReady(state, s)[t] = "Ready"}
           /\ MadeReady(state, s) \in [Threads -> States]
           /\ \A t \in Threads :
                  MadeReady(state, s)[t] = IF t \in Linked(s) THEN "Ready" ELSE state[t]
<1>1. Linked(s) \subseteq Threads
  BY LinkedAt
<1>2. InLists(ready) \cap Linked(s) = {}
  BY <1>1
<1>3. /\ Lists(Enqueue(ready, s))
      /\ InLists(Enqueue(ready, s)) = InLists(ready) \cup Linked(s)
  BY <1>2, EnqueueLists
<1>4. \A t \in Threads : MadeReady(state, s)[t] = IF t \in Linked(s) THEN "Ready" ELSE state[t]
  BY DEF MadeReady
<1>5. MadeReady(state, s) \in [Threads -> States]
  BY DEF MadeReady, States
<1>6. InLists(ready) \cup Linked(s) = {t \in Threads : MadeReady(state, s)[t] = "Ready"}
  BY <1>1, <1>4
<1> QED BY <1>3, <1>4, <1>5, <1>6

\* What the tick finds due is the front of the list.
LEMMA DueFacts ==
    ASSUME TypeInv, SleepInv
    PROVE  LET list == gk_SleepingThreads
           IN  /\ Time \in 0..MaxTime /\ now <= Time
               /\ DueCount \in 0..Len(list)
               /\ \A i \in 1..Len(list) : i <= DueCount <=> resume[list[i]] <= Time
<1> DEFINE list == gk_SleepingThreads
           time == Time
           Ends(n) == n < Len(list) => resume[list[n + 1]] > time
           T == {n \in 0..Len(list) : Ends(n)}
           Due(n) == (\A i \in 1..n : resume[list[i]] <= time) /\ Ends(n)
<1>1. time \in 0..MaxTime /\ now <= time
  BY TimeAssumption DEF TypeInv, Time
<1>2. Len(list) \in Nat /\ \A i \in 1..Len(list) : list[i] \in Threads /\ resume[list[i]] \in 0..MaxTime
  BY LenProperties, ElementOfSeq DEF SleepInv, TypeInv
<1>3. \A i, j \in 1..Len(list) : i < j => resume[list[i]] <= resume[list[j]]
  BY DEF SleepInv, InOrder
<1>4. DueCount = CHOOSE n \in 0..Len(list) : Due(n)
  BY DEF DueCount
<1> HIDE DEF list, time
<1>5. Len(list) \in T /\ T \subseteq Nat
  BY <1>2
<1> HIDE DEF T
<1>6. PICK x \in T : \A y \in T : ~(y < x)
  BY <1>5, LeastNumber
<1>7. x \in 0..Len(list) /\ Due(x)
  <2>1. x \in 0..Len(list) /\ Ends(x)
    BY <1>6 DEF T
  <2>2. ASSUME NEW i \in 1..x PROVE resume[list[i]] <= time
    <3>1. i - 1 \in 0..Len(list) /\ i - 1 < x /\ i \in 1..Len(list) /\ (i - 1) + 1 = i
      BY <1>2, <2>1
    <3>2. ~Ends(i - 1)
      BY <1>6, <3>1 DEF T
    <3> QED BY <1>1, <1>2, <3>1, <3>2
  <2> QED BY <2>1, <2>2
<1>8. DueCount \in 0..Len(list) /\ Due(DueCount)
  <2> HIDE DEF Due
  <2> QED BY <1>4, <1>7
<1> DEFINE n == DueCount
<1>9. n \in 0..Len(list) /\ (\A i \in 1..n : resume[list[i]] <= time)
      /\ (n < Len(list) => resume[list[n + 1]] > time)
  BY <1>8
<1> HIDE DEF n
<1>10. ASSUME NEW i \in 1..Len(list), ~(i <= n) PROVE ~(resume[list[i]] <= time)
  <2>1. n + 1 \in 1..Len(list) /\ resume[list[n + 1]] > time
    BY <1>2, <1>9, <1>10
  <2>2. resume[list[n + 1]] <= resume[list[i]]
    BY <1>2, <1>3, <1>9, <1>10, <2>1
  <2> QED BY <1>1, <1>2, <2>1, <2>2
<1>11. \A i \in 1..Len(list) : i <= n => resume[list[i]] <= time
  BY <1>2, <1>9
<1> QED BY <1>1, <1>9, <1>10, <1>11 DEF list, time, n

\* The tick takes the due part off the list; everybody left sleeps until later.
LEMMA TickLists ==
    ASSUME TypeInv, SleepInv
    PROVE  LET list == gk_SleepingThreads
               due == SubSeq(list, 1, DueCount)
               rest == SubSeq(list, DueCount + 1, Len(list))
           IN  /\ due \in Seq(Threads) /\ OneNodeEach(due)
               /\ rest \in Seq(Threads) /\ OneNodeEach(rest) /\ InOrder(rest, resume)
               /\ Linked(list) = Linked(due) \cup Linked(rest)
               /\ \A t \in Linked(rest) : Time < resume[t]
<1> DEFINE list == gk_SleepingThreads
           n == DueCount
           due == SubSeq(list, 1, n)
           rest == SubSeq(list, n + 1, Len(list))
           time == Time
<1>1. /\ time \in 0..MaxTime /\ n \in 0..Len(list) /\ Len(list) \in Nat
      /\ \A i \in 1..Len(list) : i <= n <=> resume[list[i]] <= time
  BY DueFacts, LenProperties DEF SleepInv
<1>2. /\ list \in Seq(Threads) /\ OneNodeEach(list) /\ InOrder(list, resume)
      /\ \A i \in 1..Len(list) : list[i] \in Threads /\ resume[list[i]] \in 0..MaxTime
  BY ElementOfSeq DEF SleepInv, TypeInv
<1> HIDE DEF list, n, time
<1>3. /\ due \in Seq(Threads) /\ Len(due) = n
      /\ \A i \in 1..n : due[i] = list[i]
  BY <1>1, <1>2, SubSeqProperties
<1>4. /\ rest \in Seq(Threads) /\ Len(rest) = Len(list) - n
      /\ \A i \in 1..Len(list) - n : rest[i] = list[n + i]
  <2>1. n + 1 \in 1..Len(list) + 1
    BY <1>1
  <2>2. /\ rest \in Seq(Threads)
        /\ Len(rest) = IF n + 1 <= Len(list) THEN Len(list) - (n + 1) + 1 ELSE 0
        /\ \A i \in 1..Len(list) - (n + 1) + 1 : rest[i] = list[n + 1 + i - 1]
    BY <1>1, <1>2, <2>1, SubSeqProperties
  <2> HIDE DEF rest
  <2>3. ASSUME NEW i \in 1..Len(list) - n PROVE rest[i] = list[n + i]
    <3>1. i \in 1..Len(list) - (n + 1) + 1 /\ n + 1 + i - 1 = n + i
      BY <1>1
    <3> QED BY <2>2, <3>1
  <2>4. Len(rest) = Len(list) - n
    BY <1>1, <2>2
  <2> QED BY <2>2, <2>3, <2>4
<1> HIDE DEF due, rest
<1>5. \A i \in 1..Len(rest) : n + i \in 1..Len(list) /\ ~(n + i <= n)
  BY <1>1, <1>4
<1>6. OneNodeEach(due)
  BY <1>1, <1>2, <1>3 DEF OneNodeEach
<1>7. OneNodeEach(rest)
  <2>1. ASSUME NEW i \in 1..Len(rest), NEW j \in 1..Len(rest), rest[i] = rest[j] PROVE n + i = n + j
    BY <1>2, <1>4, <1>5, <2>1 DEF OneNodeEach
  <2> QED BY <1>1, <1>4, <2>1 DEF OneNodeEach
<1>8. InOrder(rest, resume)
  <2>1. ASSUME NEW i \in 1..Len(rest), NEW j \in 1..Len(rest), i < j
        PROVE  resume[rest[i]] <= resume[rest[j]]
    <3>1. n + i < n + j
      BY <1>1, <1>4, <2>1
    <3> QED BY <1>2, <1>4, <1>5, <3>1 DEF InOrder
  <2> QED BY <2>1 DEF InOrder
<1>9. \A t : t \in Linked(list) <=> \E i \in 1..Len(list) : list[i] = t
  BY <1>2, LinkedAt
<1>10. \A t : t \in Linked(due) <=> \E i \in 1..Len(due) : due[i] = t
  BY <1>3, LinkedAt
<1>11. \A t : t \in Linked(rest) <=> \E i \in 1..Len(rest) : rest[i] = t
  BY <1>4, LinkedAt
<1>12. ASSUME NEW t \in Linked(list) PROVE t \in Linked(due) \cup Linked(rest)
  <2>1. PICK i \in 1..Len(list) : list[i] = t
    BY <1>9
  <2>2. CASE i <= n
    BY <1>1, <1>3, <1>10, <2>1, <2>2
  <2>3. CASE ~(i <= n)
    <3>1. i - n \in 1..Len(rest) /\ n + (i - n) = i
      BY <1>1, <1>4, <2>3
    <3> QED BY <1>4, <1>11, <2>1, <3>1
  <2> QED BY <2>2, <2>3
<1>13. Linked(due) \subseteq Linked(list)
  BY <1>1, <1>3, <1>9, <1>10
<1>14. Linked(rest) \subseteq Linked(list)
  BY <1>4, <1>5, <1>9, <1>11
<1>15. ASSUME NEW t \in Linked(rest) PROVE time < resume[t]
  <2>1. PICK i \in 1..Len(rest) : rest[i] = t
    BY <1>11
  <2>2. n + i \in 1..Len(list) /\ list[n + i] = t /\ ~(resume[list[n + i]] <= time)
    BY <1>1, <1>4, <1>5, <2>1
  <2> QED BY <1>1, <1>2, <2>2
<1>16. Linked(list) = Linked(due) \cup Linked(rest)
  BY <1>12, <1>13, <1>14
<1> QED BY <1>3, <1>4, <1>6, <1>7, <1>8, <1>15, <1>16 DEF list, n, due, rest, time

\* The place of a new sleep node: behind those due earlier, before the others.
LEMMA SleepIndexFacts ==
    ASSUME TypeInv, SleepInv, NEW t, NEW time \in 0..MaxTime
    PROVE  LET list == gk_SleepingThreads
           IN  /\ SleepIndex(t, time) \in 1..Len(list) + 1
               /\ \A i \in 1..Len(list) : i < SleepIndex(t, time) <=> resume[list[i]] < time
<1> DEFINE list == gk_SleepingThreads
           later == {i \in DOMAIN list : time <= resume[list[i]]}
           n == SleepIndex(t, time)
<1>1. /\ Len(list) \in Nat /\ DOMAIN list = 1..Len(list)
      /\ \A i \in 1..Len(list) : list[i] \in Threads /\ resume[list[i]] \in 0..MaxTime
  BY LenProperties, ElementOfSeq DEF SleepInv, TypeInv
<1>2. \A i, j \in 1..Len(list) : i < j => resume[list[i]] <= resume[list[j]]
  BY DEF SleepInv, InOrder
<1>3. n = IF later = {} THEN Len(list) + 1 ELSE CHOOSE i \in later : \A j \in later : i <= j
  BY DEF SleepIndex
<1> HIDE DEF list, n
<1>4. CASE later = {}
  <2>1. \A i \in 1..Len(list) : resume[list[i]] < time
    BY <1>1, <1>4
  <2> QED BY <1>1, <1>3, <1>4, <2>1 DEF n, list
<1>5. CASE later # {}
  <2>1. later \subseteq Nat
    BY <1>1
  <2>2. \A i : i \in later <=> i \in 1..Len(list) /\ time <= resume[list[i]]
    BY <1>1
  <2> HIDE DEF later
  <2>3. PICK x \in later : \A y \in later : ~(y < x)
    BY <1>5, <2>1, LeastNumber
  <2>4. \A y \in later : x <= y
    BY <2>1, <2>3
  <2>5. n \in later /\ \A j \in later : n <= j
    BY <1>3, <1>5, <2>3, <2>4
  <2>6. ASSUME NEW i \in 1..Len(list) PROVE i < n <=> resume[list[i]] < time
    <3>1. n \in 1..Len(list) /\ time <= resume[list[n]]
      BY <2>2, <2>5
    <3>2. CASE i < n
      <4>1. i \notin later
        BY <1>1, <2>1, <2>5, <3>1, <3>2
      <4> QED BY <1>1, <2>2, <3>2, <4>1
    <3>3. CASE ~(i < n)
      <4>1. resume[list[n]] <= resume[list[i]]
        BY <1>1, <1>2, <3>1, <3>3
      <4> QED BY <1>1, <3>1, <3>3, <4>1
    <3> QED BY <3>2, <3>3
  <2>7. n \in 1..Len(list) + 1
    BY <1>1, <2>2, <2>5
  <2> QED BY <2>6, <2>7 DEF n, list
<1> QED BY <1>4, <1>5

\* A list with an element put in at a place.
LEMMA InsertIs ==
    ASSUME NEW S, NEW s \in Seq(S), NEW n \in 1..Len(s) + 1, NEW e \in S
    PROVE  /\ InsertAt(s, n, e) \in Seq(S) /\ Len(InsertAt(s, n, e)) = Len(s) + 1
           /\ \A i \in 1..Len(s) + 1 :
                 InsertAt(s, n, e)[i] = IF i < n THEN s[i] ELSE IF i = n THEN e ELSE s[i - 1]
<1> DEFINE before == SubSeq(s, 1, n - 1)
           behind == SubSeq(s, n, Len(s))
           head == before \o <<e>>
           new == head \o behind
<1>1. Len(s) \in Nat /\ n \in Nat /\ \A i \in 1..Len(s) : s[i] \in S
  BY LenProperties, ElementOfSeq
<1>2. before \in Seq(S) /\ Len(before) = n - 1 /\ \A i \in 1..n - 1 : before[i] = s[i]
  BY <1>1, SubSeqProperties
<1>3. /\ behind \in Seq(S) /\ Len(behind) = Len(s) - n + 1
      /\ \A i \in 1..Len(s) - n + 1 : behind[i] = s[n + i - 1]
  BY <1>1, SubSeqProperties
<1>4. <<e>> \in Seq(S) /\ Len(<<e>>) = 1 /\ <<e>>[1] = e
  OBVIOUS
<1>5. InsertAt(s, n, e) = new
  BY DEF InsertAt
<1> HIDE DEF before, behind
<1>6. /\ head \in Seq(S) /\ Len(head) = n
      /\ \A i \in 1..n : head[i] = IF i < n THEN s[i] ELSE e
  <2>1. /\ head \in Seq(S) /\ Len(head) = Len(before) + Len(<<e>>)
        /\ \A i \in 1..Len(before) + Len(<<e>>) :
              head[i] = IF i <= Len(before) THEN before[i] ELSE <<e>>[i - Len(before)]
    BY <1>2, <1>4, ConcatProperties
  <2> HIDE DEF head
  <2>2. Len(head) = n
    BY <1>1, <1>2, <1>4, <2>1
  <2>3. ASSUME NEW i \in 1..n PROVE head[i] = IF i < n THEN s[i] ELSE e
    <3>1. CASE i < n
      BY <1>1, <1>2, <1>4, <2>1, <3>1
    <3>2. CASE ~(i < n)
      <4>1. i = n /\ i - Len(before) = 1 /\ ~(i <= Len(before)) /\ i \in 1..Len(before) + Len(<<e>>)
        BY <1>1, <1>2, <1>4, <3>2
      <4> QED BY <1>4, <2>1, <4>1
    <3> QED BY <3>1, <3>2
  <2> QED BY <2>1, <2>2, <2>3
<1> HIDE DEF head
<1>7. /\ new \in Seq(S) /\ Len(new) = Len(head) + Len(behind)
      /\ \A i \in 1..Len(head) + Len(behind) :
            new[i] = IF i <= Len(head) THEN head[i] ELSE behind[i - Len(head)]
  BY <1>3, <1>6, ConcatProperties
<1> HIDE DEF new
<1>8. Len(new) = Len(s) + 1
  BY <1>1, <1>3, <1>6, <1>7
<1>9. ASSUME NEW i \in 1..Len(s) + 1
      PROVE  new[i] = IF i < n THEN s[i] ELSE IF i = n THEN e ELSE s[i - 1]
  <2>1. i \in 1..Len(head) + Len(behind)
    BY <1>1, <1>3, <1>6
  <2>2. CASE i <= n
    BY <1>1, <1>6, <1>7, <2>1, <2>2
  <2>3. CASE ~(i <= n)
    <3>1. i - n \in 1..Len(s) - n + 1 /\ n + (i - n) - 1 = i - 1
      BY <1>1, <2>3
    <3>2. new[i] = behind[i - n]
      BY <1>6, <1>7, <2>1, <2>3
    <3>3. behind[i - n] = s[n + (i - n) - 1]
      BY <1>3, <3>1
    <3> QED BY <1>1, <2>3, <3>1, <3>2, <3>3
  <2> QED BY <2>2, <2>3
<1> QED BY <1>5, <1>7, <1>8, <1>9

\* The sleep list with a node added at the place the code looks for.
LEMMA InsertSorted ==
    ASSUME TypeInv, SleepInv, NEW t \in Threads, t \notin Linked(gk_SleepingThreads),
           NEW time \in 0..MaxTime, NEW times, times = [resume EXCEPT ![t] = time]
    PROVE  LET new == InsertAt(gk_SleepingThreads, SleepIndex(t, time), t)
           IN  /\ new \in Seq(Threads) /\ OneNodeEach(new) /\ InOrder(new, times)
               /\ Linked(new) = Linked(gk_SleepingThreads) \cup {t}
<1> DEFINE list == gk_SleepingThreads
           n == SleepIndex(t, time)
           new == InsertAt(list, n, t)
<1>1. /\ list \in Seq(Threads) /\ Len(list) \in Nat /\ OneNodeEach(list)
      /\ \A i \in 1..Len(list) : list[i] \in Threads /\ resume[list[i]] \in 0..MaxTime
  BY LenProperties, ElementOfSeq DEF SleepInv, TypeInv
<1>2. \A i, j \in 1..Len(list) : i < j => resume[list[i]] <= resume[list[j]]
  BY DEF SleepInv, InOrder
<1>3. n \in 1..Len(list) + 1 /\ \A i \in 1..Len(list) : i < n <=> resume[list[i]] < time
  BY SleepIndexFacts
<1> HIDE DEF list, n
<1>4. /\ new \in Seq(Threads) /\ Len(new) = Len(list) + 1
      /\ \A i \in 1..Len(list) + 1 : new[i] = IF i < n THEN list[i] ELSE IF i = n THEN t ELSE list[i - 1]
  BY <1>1, <1>3, InsertIs
<1> HIDE DEF new
<1>5. \A x : x \in Linked(list) <=> \E i \in 1..Len(list) : list[i] = x
  BY <1>1, LinkedAt
<1>6. \A x : x \in Linked(new) <=> \E i \in 1..Len(new) : new[i] = x
  BY <1>4, LinkedAt
<1>7. \A i \in 1..Len(list) : list[i] # t
  BY <1>5 DEF list
\* Where an element of the new list was before.
<1> DEFINE old(i) == IF i < n THEN i ELSE i - 1
<1>8. \A i \in 1..Len(new) : i # n => old(i) \in 1..Len(list) /\ new[i] = list[old(i)]
  BY <1>1, <1>3, <1>4
<1>9. new[n] = t /\ n \in 1..Len(new) /\ n \in Nat
  BY <1>1, <1>3, <1>4
<1>10. OneNodeEach(new)
  <2>1. ASSUME NEW i \in 1..Len(new), NEW j \in 1..Len(new), new[i] = new[j], i # n, j # n
        PROVE  i = j
    <3>1. old(i) = old(j)
      <4> HIDE DEF old
      <4> QED BY <1>1, <1>8, <2>1 DEF OneNodeEach
    <3> QED BY <1>1, <1>4, <1>9, <2>1, <3>1
  <2>2. \A i \in 1..Len(new) : i # n => new[i] # t
    <3> HIDE DEF old
    <3> QED BY <1>7, <1>8
  <2> QED BY <1>9, <2>1, <2>2 DEF OneNodeEach
<1>11. \A i \in 1..Len(new) : i # n => times[new[i]] = resume[list[old(i)]]
  <2>1. \A x \in Threads : x # t => times[x] = resume[x]
    BY DEF TypeInv
  <2> HIDE DEF old
  <2> QED BY <1>1, <1>7, <1>8, <2>1
<1>12. times[t] = time
  BY DEF TypeInv
<1>13. InOrder(new, times)
  <2>1. ASSUME NEW i \in 1..Len(new), NEW j \in 1..Len(new), i < j
        PROVE  times[new[i]] <= times[new[j]]
    <3>1. CASE i # n /\ j # n
      <4>1. old(i) < old(j) /\ old(i) \in 1..Len(list) /\ old(j) \in 1..Len(list)
        BY <1>1, <1>4, <1>8, <1>9, <2>1, <3>1
      <4> HIDE DEF old
      <4> QED BY <1>2, <1>11, <3>1, <4>1
    <3>2. CASE i = n
      <4>1. j # n /\ old(j) \in 1..Len(list) /\ ~(old(j) < n)
        BY <1>1, <1>4, <1>8, <1>9, <2>1, <3>2
      <4> HIDE DEF old
      <4>2. times[new[j]] = resume[list[old(j)]] /\ times[new[i]] = time
        BY <1>9, <1>11, <1>12, <3>2, <4>1
      <4> QED BY <1>1, <1>3, <4>1, <4>2
    <3>3. CASE j = n
      <4>1. i # n /\ old(i) \in 1..Len(list) /\ old(i) < n
        BY <1>1, <1>4, <1>8, <1>9, <2>1, <3>3
      <4> HIDE DEF old
      <4>2. times[new[i]] = resume[list[old(i)]] /\ times[new[j]] = time
        BY <1>9, <1>11, <1>12, <3>3, <4>1
      <4> QED BY <1>1, <1>3, <4>1, <4>2
    <3> QED BY <3>1, <3>2, <3>3
  <2> QED BY <2>1 DEF InOrder
<1>14. ASSUME NEW x, x \in Linked(new) PROVE x \in Linked(list) \cup {t}
  <2> HIDE DEF old
  <2> QED BY <1>5, <1>6, <1>8, <1>9, <1>14
<1>15. ASSUME NEW x, x \in Linked(list) PROVE x \in Linked(new)
  <2>1. PICK i \in 1..Len(list) : list[i] = x
    BY <1>5, <1>15
  <2>2. CASE i < n
    BY <1>1, <1>4, <1>6, <2>1, <2>2
  <2>3. CASE ~(i < n)
    <3>1. i + 1 \in 1..Len(list) + 1 /\ ~(i + 1 < n) /\ i + 1 # n /\ (i + 1) - 1 = i
      BY <1>1, <1>9, <2>3
    <3> QED BY <1>4, <1>6, <2>1, <3>1
  <2> QED BY <2>2, <2>3
<1>16. t \in Linked(new)
  BY <1>6, <1>9
<1>17. Linked(new) = Linked(list) \cup {t}
  BY <1>14, <1>15, <1>16
<1> QED BY <1>4, <1>10, <1>13, <1>17 DEF new, n, list

\* The sleep list without a node.
LEMMA DetatchSorted ==
    ASSUME NEW list \in Seq(Threads), NEW times, InOrder(list, times), NEW t
    PROVE  InOrder(Detatch(list, t), times)
<1>1. CASE t \notin Linked(list)
  BY <1>1 DEF Detatch
<1>2. CASE t \in Linked(list)
  <2> DEFINE n == CHOOSE n \in DOMAIN list : list[n] = t
             new == [i \in 1..(Len(list) - 1) |-> IF i < n THEN list[i] ELSE list[i + 1]]
  <2>1. Len(list) \in Nat /\ DOMAIN list = 1..Len(list)
    BY LenProperties
  <2>2. n \in 1..Len(list)
    BY <1>2, <2>1 DEF Linked
  <2>3. Detatch(list, t) = new
    BY <1>2 DEF Detatch
  <2> HIDE DEF n
  <2>4. Len(new) = Len(list) - 1 /\ \A i \in 1..Len(list) - 1 : new[i] = IF i < n THEN list[i] ELSE list[i + 1]
    BY <2>1, <2>2
  <2> HIDE DEF new
  <2>5. ASSUME NEW i \in 1..Len(new), NEW j \in 1..Len(new), i < j
        PROVE  times[new[i]] <= times[new[j]]
    <3> DEFINE at(k) == IF k < n THEN k ELSE k + 1
    <3>1. at(i) \in 1..Len(list) /\ at(j) \in 1..Len(list) /\ at(i) < at(j)
      BY <2>1, <2>2, <2>4, <2>5
    <3>2. new[i] = list[at(i)] /\ new[j] = list[at(j)]
      BY <2>1, <2>4
    <3> HIDE DEF at
    <3> QED BY <3>1, <3>2 DEF InOrder
  <2> QED BY <2>3, <2>5 DEF InOrder
<1> QED BY <1>1, <1>2

-----------------------------------------------------------------------------
(* The inductive invariant *)

\* The special threads are three different ones.
LEMMA Special ==
    /\ gk_IdleThread \in Threads /\ gk_InitThread \in Threads /\ Main \in Threads
    /\ gk_IdleThread # gk_InitThread /\ gk_IdleThread # Main /\ gk_InitThread # Main
    /\ NoThread \notin Threads
<1>1. ASSUME NEW a, NEW b PROVE Cardinality({a, b}) <= 2
  <2>1. IsFiniteSet({b}) /\ Cardinality({b}) = 1
    BY FS_Singleton
  <2>2. Cardinality({b} \cup {a}) = IF a \in {b} THEN Cardinality({b}) ELSE Cardinality({b}) + 1
    BY <2>1, FS_AddElement
  <2>3. {b} \cup {a} = {a, b}
    OBVIOUS
  <2> QED BY <2>1, <2>2, <2>3
<1>2. ASSUME NEW a, NEW b PROVE Cardinality({a, b}) # 3
  <2>1. {a, b} = {b} \cup {a} /\ IsFiniteSet({b})
    BY FS_Singleton
  <2>2. Cardinality({a, b}) \in Nat
    BY <2>1, FS_AddElement, FS_CardinalityType
  <2> DEFINE c == Cardinality({a, b})
  <2>3. c \in Nat /\ c <= 2
    BY <1>1, <2>2
  <2> HIDE DEF c
  <2>4. c # 3
    BY <2>3
  <2> QED BY <2>4 DEF c
<1> DEFINE three == {gk_IdleThread, gk_InitThread, Main}
<1>3. Cardinality(three) = 3 /\ three \subseteq Threads /\ NoThread \notin Threads
  BY ThreadsAssumption
<1>4. gk_IdleThread # gk_InitThread
  <2>1. gk_IdleThread = gk_InitThread => three = {gk_InitThread, Main}
    OBVIOUS
  <2> HIDE DEF three
  <2> QED BY <1>2, <1>3, <2>1
<1>5. gk_IdleThread # Main
  <2>1. gk_IdleThread = Main => three = {gk_InitThread, Main}
    OBVIOUS
  <2> HIDE DEF three
  <2> QED BY <1>2, <1>3, <2>1
<1>6. gk_InitThread # Main
  <2>1. gk_InitThread = Main => three = {gk_IdleThread, Main}
    OBVIOUS
  <2> HIDE DEF three
  <2> QED BY <1>2, <1>3, <2>1
<1> QED BY <1>3, <1>4, <1>5, <1>6

\* start_scheduler establishes it.
LEMMA InitIInv == Init => IInv
<1> SUFFICES ASSUME Init PROVE IInv
  OBVIOUS
<1>1. <<>> \in Seq(Threads) /\ Len(<<>>) = 0 /\ Linked(<<>>) = {} /\ OneNodeEach(<<>>)
  BY EmptyLinked
<1>2. \A t \in Threads : tstate[t] = IF t = gk_IdleThread THEN "Running"
                                     ELSE IF t = gk_InitThread THEN "Ready" ELSE "Unborn"
  BY Special DEF Init
<1>3. tstate \in [Threads -> States]
  BY DEF Init, States
<1>4. TypeInv
  BY <1>3, Special, LevelsAssumption, TimeAssumption
     DEF Init, TypeInv, AllLevels, Labels, InitLabels, JoinLabels
<1>5. ReadyInv
  <2> DEFINE first == Level0[gk_InitThread]
  <2>1. first \in AllLevels
    BY Special, LevelsAssumption DEF AllLevels
  <2>2. \A l \in AllLevels :
           gk_ReadyThreadLists[l] = IF l = first THEN <<gk_InitThread>> ELSE <<>>
    BY DEF Init, AllLevels
  <2>3. /\ <<gk_InitThread>> \in Seq(Threads) /\ OneNodeEach(<<gk_InitThread>>)
        /\ Linked(<<gk_InitThread>>) = {gk_InitThread}
    BY Special, SingleLinked
  <2>4. gk_ReadyThreadLists \in [AllLevels -> Seq(Threads)]
    BY <1>1, <2>3 DEF Init, AllLevels
  <2> HIDE DEF first
  <2>5. Lists(gk_ReadyThreadLists)
    BY <1>1, <2>2, <2>3, <2>4 DEF Lists
  <2>6. InLists(gk_ReadyThreadLists) = {gk_InitThread}
    BY <1>1, <2>1, <2>2, <2>3, Special DEF InLists
  <2>7. {t \in Threads : tstate[t] = "Ready"} = {gk_InitThread}
    BY <1>2, Special
  <2> QED BY <2>5, <2>6, <2>7 DEF ReadyInv
<1>6. RunInv
  BY <1>2, Special DEF Init, RunInv, InitLabels
<1>7. SleepInv
  BY <1>1, <1>2 DEF Init, SleepInv, InOrder
<1>8. TargetInv
  BY <1>2, Special DEF Init, TargetInv, JoinLabels
<1>9. JoinInv
  BY <1>1, Special DEF Init, JoinInv
<1>10. ReapInv
  BY <1>2, Special DEF Init, ReapInv
<1>11. ZombieInv
  BY <1>1 DEF Init, ZombieInv, InitSeesZombies, Queued
<1> QED BY <1>4, <1>5, <1>6, <1>7, <1>8, <1>9, <1>10, <1>11 DEF IInv

\* Whoever is in a list is a thread.
LEMMA Members ==
    ASSUME IInv
    PROVE  /\ Queued \subseteq Threads /\ Linked(gk_SleepingThreads) \subseteq Threads
           /\ \A u \in Threads : Linked(joiners[u]) \subseteq Threads
<1>1. \A list \in Seq(Threads) : Linked(list) \subseteq Threads
  BY LinkedAt
<1> QED BY <1>1 DEF IInv, ZombieInv, Queued, SleepInv, JoinInv

\* The running thread asks for a switch.
LEMMA YieldStep ==
    ASSUME IInv, NEW t \in Threads, Yield(t)
    PROVE  IInv'
<1> TypeInv /\ ReadyInv /\ RunInv /\ SleepInv /\ TargetInv /\ JoinInv /\ ReapInv /\ ZombieInv
  BY DEF IInv
<1> USE DEF Yield, Running, lists, sleep, reap, join
<1>1. TypeInv'
  BY DEF TypeInv, Labels, InitLabels, JoinLabels
<1>2. ReadyInv'
  BY DEF ReadyInv
<1>3. RunInv'
  BY Special DEF RunInv, TypeInv, InitLabels
<1>4. SleepInv'
  BY DEF SleepInv, TypeInv
<1>5. TargetInv'
  BY Special DEF TargetInv, TypeInv, ReapInv, JoinLabels
<1>6. JoinInv'
  BY DEF JoinInv, TypeInv
<1>7. ReapInv'
  BY Special DEF ReapInv, TypeInv, TargetInv, JoinLabels
<1>8. ZombieInv'
  BY DEF ZombieInv, InitSeesZombies, Queued, TypeInv
<1> QED BY <1>1, <1>2, <1>3, <1>4, <1>5, <1>6, <1>7, <1>8 DEF IInv

\* A thread begins to join another one, which exists and has no other joiner.
LEMMA JoinStep ==
    ASSUME IInv, NEW t \in Threads, NEW u \in Threads, t # gk_IdleThread, Join(t, u)
    PROVE  IInv'
<1> TypeInv /\ ReadyInv /\ RunInv /\ SleepInv /\ TargetInv /\ JoinInv /\ ReapInv /\ ZombieInv
  BY DEF IInv
<1> USE DEF Join, Running, lists, sleep, reap, join
<1>1. TypeInv'
  BY DEF TypeInv, Labels, InitLabels, JoinLabels
<1>2. ReadyInv'
  BY DEF ReadyInv
<1>3. RunInv'
  BY Special DEF RunInv, TypeInv, InitLabels
<1>4. SleepInv'
  BY DEF SleepInv, TypeInv
<1>5. TargetInv'
  BY Special DEF TargetInv, TypeInv, ReapInv, JoinLabels
<1>6. JoinInv'
  BY DEF JoinInv, TypeInv
<1>7. ReapInv'
  BY Special DEF ReapInv, TypeInv, TargetInv, JoinLabels
<1>8. ZombieInv'
  BY DEF ZombieInv, InitSeesZombies, Queued, TypeInv
<1> QED BY <1>1, <1>2, <1>3, <1>4, <1>5, <1>6, <1>7, <1>8 DEF IInv

\* ksnooze_until_ns asks for the switch.
LEMMA SnoozeSwitchStep ==
    ASSUME IInv, NEW t \in Threads, SnoozeSwitch(t)
    PROVE  IInv'
<1> TypeInv /\ ReadyInv /\ RunInv /\ SleepInv /\ TargetInv /\ JoinInv /\ ReapInv /\ ZombieInv
  BY DEF IInv
<1> USE DEF SnoozeSwitch, lists, sleep, reap, join
<1>1. TypeInv'
  BY DEF TypeInv, Labels, InitLabels, JoinLabels
<1>2. ReadyInv'
  BY DEF ReadyInv
<1>3. RunInv'
  BY Special DEF RunInv, TypeInv, InitLabels
<1>4. SleepInv'
  BY DEF SleepInv, TypeInv
<1>5. TargetInv'
  BY Special DEF TargetInv, TypeInv, ReapInv, JoinLabels
<1>6. JoinInv'
  BY DEF JoinInv, TypeInv
<1>7. ReapInv'
  BY Special DEF ReapInv, TypeInv, TargetInv, JoinLabels
<1>8. ZombieInv'
  BY DEF ZombieInv, InitSeesZombies, Queued, TypeInv
<1> QED BY <1>1, <1>2, <1>3, <1>4, <1>5, <1>6, <1>7, <1>8 DEF IInv

\* A ready thread stays in the list it is in.
LEMMA SetPriorityStep ==
    ASSUME IInv, NEW t \in Threads, NEW u \in Threads, NEW l \in AllLevels, SetPriority(t, u, l)
    PROVE  IInv'
<1> TypeInv /\ ReadyInv /\ RunInv /\ SleepInv /\ TargetInv /\ JoinInv /\ ReapInv /\ ZombieInv
  BY DEF IInv
<1> USE DEF SetPriority, Running, lists, sleep, reap, join
<1>1. TypeInv'
  BY DEF TypeInv, Labels, InitLabels, JoinLabels
<1>2. ReadyInv'
  BY DEF ReadyInv
<1>3. RunInv'
  BY Special DEF RunInv, TypeInv, InitLabels
<1>4. SleepInv'
  BY DEF SleepInv, TypeInv
<1>5. TargetInv'
  BY Special DEF TargetInv, TypeInv, ReapInv, JoinLabels
<1>6. JoinInv'
  BY DEF JoinInv, TypeInv
<1>7. ReapInv'
  BY Special DEF ReapInv, TypeInv, TargetInv, JoinLabels
<1>8. ZombieInv'
  BY DEF ZombieInv, InitSeesZombies, Queued, TypeInv
<1> QED BY <1>1, <1>2, <1>3, <1>4, <1>5, <1>6, <1>7, <1>8 DEF IInv

\* The joiner gives the memory of the dead thread back.
LEMMA JoinReapStep ==
    ASSUME IInv, NEW t \in Threads, JoinReap(t)
    PROVE  IInv'
<1> TypeInv /\ ReadyInv /\ RunInv /\ SleepInv /\ TargetInv /\ JoinInv /\ ReapInv /\ ZombieInv
  BY DEF IInv
<1> USE DEF JoinReap, Running, lists, sleep, reap, join
<1>1. TypeInv'
  BY DEF TypeInv, Labels, InitLabels, JoinLabels, TargetInv
<1>2. ReadyInv'
  BY DEF ReadyInv
<1>3. RunInv'
  BY Special DEF RunInv, TypeInv, InitLabels
<1>4. SleepInv'
  BY DEF SleepInv, TypeInv
<1>5. TargetInv'
  BY Special DEF TargetInv, TypeInv, ReapInv, JoinLabels
<1>6. JoinInv'
  BY DEF JoinInv, TypeInv
<1>7. ReapInv'
  BY Special DEF ReapInv, TypeInv, TargetInv, JoinLabels
<1>8. ZombieInv'
  BY DEF ZombieInv, InitSeesZombies, Queued, TypeInv, TargetInv, JoinLabels
<1> QED BY <1>1, <1>2, <1>3, <1>4, <1>5, <1>6, <1>7, <1>8 DEF IInv

\* The joined thread leaves the PID map.
LEMMA JoinEraseStep ==
    ASSUME IInv, NEW t \in Threads, JoinErase(t)
    PROVE  IInv'
<1> TypeInv /\ ReadyInv /\ RunInv /\ SleepInv /\ TargetInv /\ JoinInv /\ ReapInv /\ ZombieInv
  BY DEF IInv
<1> USE DEF JoinErase, Running, lists, sleep, reap, join
<1>1. TypeInv'
  BY DEF TypeInv, Labels, InitLabels, JoinLabels
<1>2. ReadyInv'
  BY DEF ReadyInv
<1>3. RunInv'
  BY Special DEF RunInv, TypeInv, InitLabels
<1>4. SleepInv'
  BY DEF SleepInv, TypeInv
<1>5. TargetInv'
  BY Special DEF TargetInv, TypeInv, ReapInv, JoinLabels
<1>6. JoinInv'
  BY DEF JoinInv, TypeInv
<1>7. ReapInv'
  BY Special DEF ReapInv, TypeInv, TargetInv, JoinLabels
<1>8. ZombieInv'
  BY DEF ZombieInv, InitSeesZombies, Queued, TypeInv
<1> QED BY <1>1, <1>2, <1>3, <1>4, <1>5, <1>6, <1>7, <1>8 DEF IInv

\* A thread blocks in a wait queue or stops itself.
LEMMA BlockStep ==
    ASSUME IInv, NEW t \in Threads, NEW s \in {"Waiting", "Stopped"}, t # gk_IdleThread,
           Block(t, s)
    PROVE  IInv'
<1> TypeInv /\ ReadyInv /\ RunInv /\ SleepInv /\ TargetInv /\ JoinInv /\ ReapInv /\ ZombieInv
  BY DEF IInv
<1> USE DEF Block, Running, lists, sleep, reap, join
<1>1. TypeInv'
  BY DEF TypeInv, Labels, InitLabels, JoinLabels, States
<1>2. ReadyInv'
  BY DEF ReadyInv, TypeInv
<1>3. RunInv'
  BY Special DEF RunInv, TypeInv, InitLabels
<1>4. SleepInv'
  BY DEF SleepInv, TypeInv
<1>5. TargetInv'
  BY Special DEF TargetInv, TypeInv, ReapInv, JoinLabels
<1>6. JoinInv'
  BY DEF JoinInv, TypeInv
<1>7. ReapInv'
  BY Special DEF ReapInv, TypeInv, TargetInv, JoinLabels
<1>8. ZombieInv'
  BY Special DEF ZombieInv, InitSeesZombies, Queued, TypeInv, RunInv, InitLabels
<1> QED BY <1>1, <1>2, <1>3, <1>4, <1>5, <1>6, <1>7, <1>8 DEF IInv

\* A thread becomes a zombie; the switch that buries it is due.
LEMMA ExitStep ==
    ASSUME IInv, NEW t \in Threads, t # gk_IdleThread, Exit(t)
    PROVE  IInv'
<1> TypeInv /\ ReadyInv /\ RunInv /\ SleepInv /\ TargetInv /\ JoinInv /\ ReapInv /\ ZombieInv
  BY DEF IInv
<1> USE DEF Exit, Running, lists, sleep, reap, join
<1>1. TypeInv'
  BY DEF TypeInv, Labels, InitLabels, JoinLabels, States
<1>2. ReadyInv'
  BY DEF ReadyInv, TypeInv
<1>3. RunInv'
  BY Special DEF RunInv, TypeInv, InitLabels
<1>4. SleepInv'
  BY DEF SleepInv, TypeInv
<1>5. TargetInv'
  BY Special DEF TargetInv, TypeInv, ReapInv, JoinLabels
<1>6. JoinInv'
  BY DEF JoinInv, TypeInv
<1>7. ReapInv'
  BY Special DEF ReapInv, TypeInv, TargetInv, JoinLabels
<1>8. ZombieInv'
  BY DEF ZombieInv, InitSeesZombies, Queued, TypeInv
<1> QED BY <1>1, <1>2, <1>3, <1>4, <1>5, <1>6, <1>7, <1>8 DEF IInv

\* The deleted threads leave the PID map.
LEMMA InitEraseStep ==
    ASSUME IInv, InitErase
    PROVE  IInv'
<1> TypeInv /\ ReadyInv /\ RunInv /\ SleepInv /\ TargetInv /\ JoinInv /\ ReapInv /\ ZombieInv
  BY DEF IInv
<1> USE DEF InitErase, Running, lists, sleep, reap, join
<1>1. TypeInv'
  BY DEF TypeInv, Labels, InitLabels, JoinLabels
<1>2. ReadyInv'
  BY DEF ReadyInv
<1>3. RunInv'
  BY Special DEF RunInv, TypeInv, InitLabels
<1>4. SleepInv'
  BY DEF SleepInv, TypeInv
<1>5. TargetInv'
  BY Special DEF TargetInv, TypeInv, ReapInv, JoinLabels
<1>6. JoinInv'
  BY DEF JoinInv, TypeInv
<1>7. ReapInv'
  BY Special DEF ReapInv, TypeInv, TargetInv, JoinLabels
<1>8. ZombieInv'
  BY DEF ZombieInv, InitSeesZombies, Queued, TypeInv
<1> QED BY <1>1, <1>2, <1>3, <1>4, <1>5, <1>6, <1>7, <1>8 DEF IInv

\* Init has deleted what it took over.
LEMMA InitDeletedStep ==
    ASSUME IInv, InitDeleted
    PROVE  IInv'
<1> TypeInv /\ ReadyInv /\ RunInv /\ SleepInv /\ TargetInv /\ JoinInv /\ ReapInv /\ ZombieInv
  BY DEF IInv
<1> USE DEF InitDeleted, Running, lists, sleep, reap, join
<1>1. TypeInv'
  BY DEF TypeInv, Labels, InitLabels, JoinLabels
<1>2. ReadyInv'
  BY DEF ReadyInv
<1>3. RunInv'
  BY Special DEF RunInv, TypeInv, InitLabels
<1>4. SleepInv'
  BY DEF SleepInv, TypeInv
<1>5. TargetInv'
  BY Special DEF TargetInv, TypeInv, ReapInv, JoinLabels
<1>6. JoinInv'
  BY DEF JoinInv, TypeInv
<1>7. ReapInv'
  BY Special DEF ReapInv, TypeInv, TargetInv, JoinLabels
<1>8. ZombieInv'
  BY DEF ZombieInv, InitSeesZombies, Queued, TypeInv
<1> QED BY <1>1, <1>2, <1>3, <1>4, <1>5, <1>6, <1>7, <1>8 DEF IInv

\* Init waits for the mutex of the PID map.
LEMMA InitLockWaitStep ==
    ASSUME IInv, InitLockWait
    PROVE  IInv'
<1> TypeInv /\ ReadyInv /\ RunInv /\ SleepInv /\ TargetInv /\ JoinInv /\ ReapInv /\ ZombieInv
  BY DEF IInv
<1> USE DEF InitLockWait, Running, lists, sleep, reap, join
<1>1. TypeInv'
  BY Special DEF TypeInv, Labels, InitLabels, JoinLabels, States
<1>2. ReadyInv'
  BY DEF ReadyInv, TypeInv
<1>3. RunInv'
  BY Special DEF RunInv, TypeInv, InitLabels
<1>4. SleepInv'
  BY DEF SleepInv, TypeInv
<1>5. TargetInv'
  BY Special DEF TargetInv, TypeInv, ReapInv, JoinLabels
<1>6. JoinInv'
  BY DEF JoinInv, TypeInv
<1>7. ReapInv'
  BY Special DEF ReapInv, TypeInv, TargetInv, JoinLabels
<1>8. ZombieInv'
  BY DEF ZombieInv, InitSeesZombies, Queued, TypeInv
<1> QED BY <1>1, <1>2, <1>3, <1>4, <1>5, <1>6, <1>7, <1>8 DEF IInv

\* Init sleeps unless a zombie has arrived.
LEMMA InitSleepStep ==
    ASSUME IInv, InitSleep
    PROVE  IInv'
<1> TypeInv /\ ReadyInv /\ RunInv /\ SleepInv /\ TargetInv /\ JoinInv /\ ReapInv /\ ZombieInv
  BY DEF IInv
<1> USE DEF Running, lists, sleep, reap, join
<1>1. /\ gk_InitThread = gk_CurrentThread /\ tstate[gk_InitThread] = "Running" /\ ~pendSV
      /\ pc[gk_InitThread] = "idle" /\ pc' = [pc EXCEPT ![gk_InitThread] = "collect"]
      /\ UNCHANGED <<gk_ReadyThreadLists, gk_CurrentThread, level, sleep, reap, join>>
  BY DEF InitSleep
<1>2. \/ UNCHANGED <<tstate, pendSV>> /\ gk_ZombieThreadLists # <<>>
      \/ /\ tstate' = [tstate EXCEPT ![gk_InitThread] = "Waiting"] /\ pendSV' = TRUE
         /\ gk_ZombieThreadLists = <<>>
  BY DEF InitSleep, MaySleep
<1>3. TypeInv'
  BY Special, <1>1, <1>2 DEF TypeInv, Labels, InitLabels, JoinLabels, States
<1>4. ReadyInv'
  BY <1>1, <1>2 DEF ReadyInv, TypeInv
<1>5. RunInv'
  BY Special, <1>1, <1>2 DEF RunInv, TypeInv, InitLabels
<1>6. SleepInv'
  BY <1>1, <1>2 DEF SleepInv, TypeInv
<1>7. TargetInv'
  BY Special, <1>1, <1>2 DEF TargetInv, TypeInv, ReapInv, JoinLabels
<1>8. JoinInv'
  BY Special, Members, <1>1, <1>2 DEF JoinInv, TypeInv, TargetInv, JoinLabels
<1>9. ReapInv'
  BY Special, <1>1, <1>2 DEF ReapInv, TypeInv, TargetInv, JoinLabels
<1>10. ZombieInv'
  BY Special, Members, <1>1, <1>2 DEF ZombieInv, InitSeesZombies, Queued, TypeInv
<1> QED BY <1>3, <1>4, <1>5, <1>6, <1>7, <1>8, <1>9, <1>10 DEF IInv

\* A joiner looks at its thread and waits unless that is dead already.
LEMMA JoinWaitStep ==
    ASSUME IInv, NEW t \in Threads, JoinWait(t)
    PROVE  IInv'
<1> TypeInv /\ ReadyInv /\ RunInv /\ SleepInv /\ TargetInv /\ JoinInv /\ ReapInv /\ ZombieInv
  BY DEF IInv
<1> USE DEF lists, sleep, reap, join
<1>1. PICK u \in Threads : u = joining[t] /\ u # t
  BY DEF JoinWait, Running, TargetInv, JoinLabels, TypeInv
<1>2. /\ t = gk_CurrentThread /\ ~pendSV /\ tstate[t] = "Running" /\ pc[t] = "join"
      /\ pc' = [pc EXCEPT ![t] = "joinWoken"]
      /\ UNCHANGED <<gk_ReadyThreadLists, gk_CurrentThread, level, sleep, reap, joining>>
  BY DEF JoinWait, Running
<1>3. \/ tstate[u] = "Zombie" /\ UNCHANGED <<tstate, joiners, pendSV>>
      \/ /\ tstate[u] # "Zombie" /\ tstate' = [tstate EXCEPT ![t] = "Waiting"] /\ pendSV' = TRUE
         /\ joiners' = [joiners EXCEPT ![u] = Append(joiners[u], t)]
  BY <1>1 DEF JoinWait
<1>4. /\ joiners' \in [Threads -> Seq(Threads)]
      /\ \A x \in Threads :
            /\ OneNodeEach(joiners'[x]) /\ Linked(joiners[x]) \subseteq Linked(joiners'[x])
            /\ \A j \in Linked(joiners'[x]) : j \in Linked(joiners[x]) \/ (j = t /\ x = u)
      /\ tstate'[t] = "Waiting" => t \in Linked(joiners'[u])
  <2>1. joiners[u] \in Seq(Threads) /\ OneNodeEach(joiners[u]) /\ t \notin Linked(joiners[u])
    BY <1>2 DEF JoinInv
  <2> DEFINE q == joiners[u]
             new == Append(q, t)
  <2> HIDE DEF q
  <2>2. new \in Seq(Threads) /\ OneNodeEach(new) /\ Linked(new) = Linked(q) \cup {t}
    BY <2>1, AppendLinked DEF q
  <2> HIDE DEF new
  <2>3. CASE UNCHANGED <<tstate, joiners, pendSV>>
    BY <1>2, <2>3 DEF JoinInv
  <2>4. CASE joiners' = [joiners EXCEPT ![u] = Append(joiners[u], t)]
    <3>1. joiners' = [joiners EXCEPT ![u] = new]
      BY <2>4 DEF new, q
    <3> QED BY <2>2, <3>1 DEF JoinInv, q
  <2> QED BY <1>3, <2>3, <2>4
<1>5. TypeInv'
  BY <1>1, <1>2, <1>3, <1>4 DEF TypeInv, Labels, InitLabels, JoinLabels, States
<1>6. ReadyInv'
  BY <1>1, <1>2, <1>3, <1>4 DEF ReadyInv, TypeInv
<1>7. RunInv'
  BY Special, <1>1, <1>2, <1>3, <1>4 DEF RunInv, TypeInv, InitLabels
<1>8. SleepInv'
  BY Members, <1>1, <1>2, <1>3, <1>4 DEF SleepInv, TypeInv
<1>9. TargetInv'
  <2>1. CASE UNCHANGED tstate
    BY Special, <1>1, <1>2, <2>1 DEF TargetInv, TypeInv, ReapInv, JoinLabels
  <2>2. CASE tstate' = [tstate EXCEPT ![t] = "Waiting"]
    BY Special, <1>1, <1>2, <2>2 DEF TargetInv, TypeInv, ReapInv, JoinLabels
  <2> QED BY <1>3, <2>1, <2>2
<1>10. JoinInv'
  <2>1. ASSUME NEW x \in Threads, NEW j \in Linked(joiners'[x])
        PROVE  pc'[j] = "joinWoken" /\ joining'[j] = x
    <3>1. j \in Linked(joiners[x]) \/ (j = t /\ x = u)
      BY <1>4, <2>1
    <3>2. j \in Threads
      BY Members, <3>1
    <3> QED BY <1>1, <1>2, <3>1, <3>2 DEF JoinInv, TypeInv
  <2>2. ASSUME NEW j \in Threads, pc'[j] = "joinWoken", tstate'[j] = "Waiting"
        PROVE  /\ j \in Linked(joiners'[joining[j]])
               /\ tstate'[joining[j]] = "Zombie" => joining[j] = gk_CurrentThread /\ pendSV'
    <3>1. CASE j = t
      BY <1>1, <1>2, <1>3, <1>4, <2>2, <3>1 DEF TypeInv
    <3>2. CASE j # t
      <4>1. /\ pc[j] = "joinWoken" /\ tstate[j] = "Waiting" /\ joining[j] \in Threads
            /\ joining[j] # t => tstate'[joining[j]] = tstate[joining[j]]
        BY <1>2, <1>3, <2>2, <3>2 DEF TypeInv, TargetInv, JoinLabels
      <4>2. /\ j \in Linked(joiners[joining[j]])
            /\ tstate[joining[j]] = "Zombie" => joining[j] = gk_CurrentThread /\ pendSV
        BY <4>1 DEF JoinInv
      <4>3. j \in Linked(joiners'[joining[j]])
        BY <1>4, <4>1, <4>2
      <4>4. joining[j] = t => tstate'[joining[j]] # "Zombie"
        BY <1>2, <1>3 DEF TypeInv
      <4> QED BY <1>2, <4>1, <4>2, <4>3, <4>4
    <3> QED BY <3>1, <3>2
  <2>3. joining' = joining /\ gk_CurrentThread' = gk_CurrentThread
    BY <1>2
  <2> QED BY <1>4, <2>1, <2>2, <2>3 DEF JoinInv
<1>11. ReapInv'
  BY Special, <1>1, <1>2, <1>3, <1>4 DEF ReapInv, TypeInv, TargetInv, JoinLabels
<1>12. ZombieInv'
  <2>1. t # gk_InitThread /\ t \notin Queued
    BY <1>2 DEF RunInv, InitLabels, ZombieInv
  <2>2. /\ \A x \in Queued : tstate'[x] = tstate[x]
        /\ tstate'[gk_InitThread] = tstate[gk_InitThread] /\ pc'[gk_InitThread] = pc[gk_InitThread]
    BY <1>2, <1>3, <2>1, Members, Special DEF TypeInv
  <2> QED BY <1>2, <2>2 DEF ZombieInv, InitSeesZombies, Queued
<1> QED BY <1>5, <1>6, <1>7, <1>8, <1>9, <1>10, <1>11, <1>12 DEF IInv

\* A joiner goes on if its thread is dead, and starts over otherwise.
LEMMA JoinResumeStep ==
    ASSUME IInv, NEW t \in Threads, JoinResume(t)
    PROVE  IInv'
<1> TypeInv /\ ReadyInv /\ RunInv /\ SleepInv /\ TargetInv /\ JoinInv /\ ReapInv /\ ZombieInv
  BY DEF IInv
<1> USE DEF lists, sleep, reap, join
<1>1. PICK u \in Threads : u = joining[t] /\ u # t
  BY DEF JoinResume, Running, TargetInv, JoinLabels, TypeInv
<1>2. /\ t = gk_CurrentThread /\ ~pendSV /\ tstate[t] = "Running" /\ pc[t] = "joinWoken"
      /\ pc' = [pc EXCEPT ![t] = IF tstate[u] = "Zombie" THEN "joined" ELSE "join"]
      /\ UNCHANGED <<gk_ReadyThreadLists, gk_CurrentThread, pendSV, tstate, level, sleep, reap, joining>>
  BY <1>1 DEF JoinResume, Running
<1>3. /\ joiners' \in [Threads -> Seq(Threads)]
      /\ \A x \in Threads :
            /\ OneNodeEach(joiners'[x])
            /\ Linked(joiners'[x]) = IF x = u THEN Linked(joiners[x]) \ {t} ELSE Linked(joiners[x])
  <2> DEFINE q == joiners[u]
             new == Detatch(q, t)
  <2>1. q \in Seq(Threads) /\ OneNodeEach(q) /\ joiners' = [joiners EXCEPT ![u] = new]
    BY <1>1 DEF JoinInv, JoinResume
  <2> HIDE DEF q
  <2>2. new \in Seq(Threads) /\ OneNodeEach(new) /\ Linked(new) = Linked(q) \ {t}
    BY <2>1, DetatchLinked
  <2> HIDE DEF new
  <2> QED BY <2>1, <2>2 DEF JoinInv, q
<1>4. TypeInv'
  BY <1>1, <1>2, <1>3 DEF TypeInv, Labels, InitLabels, JoinLabels
<1>5. ReadyInv'
  BY <1>1, <1>2, <1>3 DEF ReadyInv
<1>6. RunInv'
  BY Special, <1>1, <1>2, <1>3 DEF RunInv, TypeInv, InitLabels
<1>7. SleepInv'
  BY Members, <1>1, <1>2, <1>3 DEF SleepInv, TypeInv
<1>8. TargetInv'
  BY Special, <1>1, <1>2, <1>3 DEF TargetInv, TypeInv, ReapInv, JoinLabels
<1>9. JoinInv'
  <2>1. ASSUME NEW x \in Threads, NEW j \in Linked(joiners'[x])
        PROVE  pc'[j] = "joinWoken" /\ joining'[j] = x
    <3>1. j \in Threads /\ j \in Linked(joiners[x]) /\ (x = u => j # t)
      BY Members, <1>3, <2>1
    <3>2. j # t
      BY <1>1, <3>1 DEF JoinInv
    <3> QED BY <1>2, <3>1, <3>2 DEF JoinInv, TypeInv
  <2>2. ASSUME NEW j \in Threads, pc'[j] = "joinWoken", tstate[j] = "Waiting"
        PROVE  /\ j \in Linked(joiners'[joining[j]])
               /\ tstate[joining[j]] = "Zombie" => joining[j] = gk_CurrentThread /\ pendSV
    <3>1. j # t /\ pc[j] = "joinWoken" /\ joining[j] \in Threads
      BY <1>2, <2>2 DEF TypeInv, TargetInv, JoinLabels
    <3> QED BY <1>3, <2>2, <3>1 DEF JoinInv
  <2> QED BY <1>2, <1>3, <2>1, <2>2 DEF JoinInv
<1>10. ReapInv'
  BY Special, <1>1, <1>2, <1>3 DEF ReapInv, TypeInv, TargetInv, JoinLabels
<1>11. ZombieInv'
  BY Members, Special, <1>1, <1>2, <1>3 DEF ZombieInv, InitSeesZombies, Queued, TypeInv, RunInv, InitLabels
<1> QED BY <1>4, <1>5, <1>6, <1>7, <1>8, <1>9, <1>10, <1>11 DEF IInv

\* Init takes the list of zombies over.
LEMMA InitCollectStep ==
    ASSUME IInv, InitCollect
    PROVE  IInv'
<1> TypeInv /\ ReadyInv /\ RunInv /\ SleepInv /\ TargetInv /\ JoinInv /\ ReapInv /\ ZombieInv
  BY DEF IInv
<1> USE DEF lists, sleep, reap, join
<1>1. /\ gk_InitThread = gk_CurrentThread /\ ~pendSV /\ tstate[gk_InitThread] = "Running"
      /\ pc[gk_InitThread] = "collect" /\ pc' = [pc EXCEPT ![gk_InitThread] = "delete"]
      /\ UNCHANGED <<lists, gk_CurrentThread, pendSV, level, sleep, detached, listed, cleanups, join>>
  BY DEF InitCollect, Running
<1>2. /\ gk_ZombieThreadLists' \in Seq(Threads) /\ threadsToDelete' \in Seq(Threads)
      /\ OneNodeEach(gk_ZombieThreadLists') /\ OneNodeEach(threadsToDelete')
      /\ Linked(gk_ZombieThreadLists') = {} /\ Queued' = Queued
  <2>1. gk_ZombieThreadLists' = <<>> /\ threadsToDelete' = threadsToDelete \o gk_ZombieThreadLists
    BY DEF InitCollect
  <2> DEFINE s == threadsToDelete
             r == gk_ZombieThreadLists
  <2>2. /\ s \in Seq(Threads) /\ r \in Seq(Threads) /\ OneNodeEach(s) /\ OneNodeEach(r)
        /\ Linked(s) \cap Linked(r) = {}
    BY DEF ZombieInv
  <2> HIDE DEF s, r
  <2>3. /\ s \o r \in Seq(Threads) /\ OneNodeEach(s \o r)
        /\ Linked(s \o r) = Linked(s) \cup Linked(r)
    BY <2>2, ConcatLinked
  <2>4. <<>> \in Seq(Threads) /\ OneNodeEach(<<>>) /\ Linked(<<>>) = {}
    BY EmptyLinked
  <2>5. Queued' = Queued
    BY <2>1, <2>3, <2>4 DEF Queued, s, r
  <2> QED BY <2>1, <2>3, <2>4, <2>5 DEF s, r
<1>3. TypeInv'
  BY Special, <1>1, <1>2 DEF TypeInv, Labels, InitLabels, JoinLabels
<1>4. ReadyInv'
  BY <1>1, <1>2 DEF ReadyInv
<1>5. RunInv'
  BY Special, <1>1, <1>2 DEF RunInv, TypeInv, InitLabels
<1>6. SleepInv'
  BY Members, Special, <1>1, <1>2 DEF SleepInv, TypeInv
<1>7. TargetInv'
  BY Special, <1>1, <1>2 DEF TargetInv, TypeInv, ReapInv, JoinLabels
<1>8. JoinInv'
  BY Members, Special, <1>1, <1>2 DEF JoinInv, TypeInv
<1>9. ReapInv'
  BY Special, <1>1, <1>2 DEF ReapInv, TypeInv, TargetInv, JoinLabels
<1>10. ZombieInv'
  BY Special, <1>1, <1>2 DEF ZombieInv, InitSeesZombies, Queued, TypeInv
<1> QED BY <1>3, <1>4, <1>5, <1>6, <1>7, <1>8, <1>9, <1>10 DEF IInv

\* Init gives the memory of the first zombie back.
LEMMA InitDeleteStep ==
    ASSUME IInv, InitDelete
    PROVE  IInv'
<1> TypeInv /\ ReadyInv /\ RunInv /\ SleepInv /\ TargetInv /\ JoinInv /\ ReapInv /\ ZombieInv
  BY DEF IInv
<1> USE DEF lists, sleep, reap, join
<1>1. /\ gk_InitThread = gk_CurrentThread /\ ~pendSV /\ tstate[gk_InitThread] = "Running"
      /\ pc[gk_InitThread] = "delete" /\ pc' = [pc EXCEPT ![gk_InitThread] = "erase"]
      /\ UNCHANGED <<gk_ReadyThreadLists, gk_CurrentThread, pendSV, level, sleep, detached, listed,
                     gk_ZombieThreadLists, join>>
  BY DEF InitDelete, Running
<1>2. PICK z \in Threads :
         /\ z \in Queued /\ threadsToDelete' \in Seq(Threads) /\ OneNodeEach(threadsToDelete')
         /\ Linked(threadsToDelete') \subseteq Linked(threadsToDelete)
         /\ Queued' = Queued \ {z}
         /\ tstate' = [tstate EXCEPT ![z] = "Deleted"]
         /\ cleanups' = [cleanups EXCEPT ![z] = cleanups[z] + 1]
  <2> DEFINE s == threadsToDelete
             z == Head(s)
  <2>1. s # <<>> /\ threadsToDelete' = Tail(s) /\ gk_ZombieThreadLists' = gk_ZombieThreadLists
    BY DEF InitDelete
  <2>2. /\ tstate' = [tstate EXCEPT ![z] = "Deleted"]
        /\ cleanups' = [cleanups EXCEPT ![z] = cleanups[z] + 1]
    BY DEF InitDelete
  <2>3. s \in Seq(Threads) /\ OneNodeEach(s) /\ Linked(gk_ZombieThreadLists) \cap Linked(s) = {}
    BY DEF ZombieInv
  <2> HIDE DEF s, z
  <2>4. /\ z \in Linked(s) /\ Tail(s) \in Seq(Threads) /\ OneNodeEach(Tail(s))
        /\ Linked(Tail(s)) = Linked(s) \ {z}
    BY <2>1, <2>3, TailLinked DEF z
  <2>5. z \in Threads
    BY <2>3, <2>4, LinkedAt
  <2>6. Queued' = Queued \ {z} /\ z \in Queued
    BY <2>1, <2>3, <2>4 DEF Queued, s
  <2> QED BY <2>1, <2>2, <2>4, <2>5, <2>6 DEF s
<1>3. tstate[z] = "Zombie" /\ detached[z] /\ cleanups[z] = 0 /\ z # gk_CurrentThread
  BY <1>2 DEF ZombieInv
<1>4. TypeInv'
  BY Special, <1>1, <1>2, <1>3 DEF TypeInv, Labels, InitLabels, JoinLabels, States
<1>5. ReadyInv'
  BY <1>1, <1>2, <1>3 DEF ReadyInv, TypeInv
<1>6. RunInv'
  BY Special, <1>1, <1>2, <1>3 DEF RunInv, TypeInv, InitLabels
<1>7. SleepInv'
  BY Members, <1>1, <1>2, <1>3 DEF SleepInv, TypeInv
<1>8. TargetInv'
  BY Special, <1>1, <1>2, <1>3 DEF TargetInv, TypeInv, ReapInv, JoinLabels
<1>9. JoinInv'
  BY Members, Special, <1>1, <1>2, <1>3 DEF JoinInv, TypeInv, TargetInv, JoinLabels
<1>10. ReapInv'
  BY Special, <1>1, <1>2, <1>3 DEF ReapInv, TypeInv, TargetInv, JoinLabels
<1>11. ZombieInv'
  BY Members, Special, <1>1, <1>2, <1>3 DEF ZombieInv, InitSeesZombies, Queued, TypeInv
<1> QED BY <1>4, <1>5, <1>6, <1>7, <1>8, <1>9, <1>10, <1>11 DEF IInv

\* The node of a thread that goes to sleep.
LEMMA SnoozeStep ==
    ASSUME IInv, NEW t \in Threads, t # gk_IdleThread, NEW ticks \in 0..1, Snooze(t, ticks)
    PROVE  IInv'
<1> TypeInv /\ ReadyInv /\ RunInv /\ SleepInv /\ TargetInv /\ JoinInv /\ ReapInv /\ ZombieInv
  BY DEF IInv
<1> USE DEF sleep, reap, join
<1>1. PICK time \in 0..MaxTime : time = now + ticks + 1 /\ now < time
  BY TimeAssumption DEF Snooze, TypeInv
<1>2. /\ t = gk_CurrentThread /\ ~pendSV /\ tstate[t] = "Running" /\ pc[t] = "user"
      /\ pc' = [pc EXCEPT ![t] = "snoozing"] /\ tstate' = [tstate EXCEPT ![t] = "Sleeping"]
      /\ UNCHANGED <<gk_ReadyThreadLists, gk_CurrentThread, pendSV, level, now, reap, join>>
  BY DEF Snooze, Running
<1>3. /\ resume' = [resume EXCEPT ![t] = time]
      /\ gk_SleepingThreads' = InsertAt(gk_SleepingThreads, SleepIndex(t, time), t)
  BY <1>1 DEF Snooze
<1>4. t \notin Linked(gk_SleepingThreads)
  BY <1>2 DEF SleepInv
<1>5. TypeInv'
  BY <1>2, <1>3 DEF TypeInv, Labels, InitLabels, JoinLabels, States
<1>6. ReadyInv'
  BY <1>2 DEF ReadyInv, TypeInv
<1>7. RunInv'
  BY <1>2, Special DEF RunInv, TypeInv, InitLabels
<1>8. SleepInv'
  <2> DEFINE new == InsertAt(gk_SleepingThreads, SleepIndex(t, time), t)
             times == [resume EXCEPT ![t] = time]
  <2>1. /\ new \in Seq(Threads) /\ OneNodeEach(new) /\ InOrder(new, times)
        /\ Linked(new) = Linked(gk_SleepingThreads) \cup {t}
    BY <1>4, InsertSorted
  <2>2. gk_SleepingThreads' = new /\ resume' = times
    BY <1>3
  <2>3. times[t] = time /\ \A x \in Threads : x # t => times[x] = resume[x]
    BY DEF TypeInv
  <2> HIDE DEF new, times
  <2>4. ASSUME NEW x \in Threads, tstate'[x] = "Sleeping"
        PROVE  x \in Linked(new) /\ now' < times[x]
    BY <1>1, <1>2, <2>1, <2>3, <2>4 DEF SleepInv, TypeInv
  <2>5. \A x \in Linked(new) : pc'[x] \in {"snoozing", "snoozed"}
    BY <1>2, <2>1, Members DEF SleepInv, TypeInv
  <2> QED BY <2>1, <2>2, <2>4, <2>5 DEF SleepInv
<1>9. TargetInv'
  BY <1>2, Special DEF TargetInv, TypeInv, ReapInv, JoinLabels
<1>10. JoinInv'
  BY <1>2, Members DEF JoinInv, TypeInv, TargetInv, JoinLabels
<1>11. ReapInv'
  BY <1>2, Special DEF ReapInv, TypeInv, TargetInv, JoinLabels
<1>12. ZombieInv'
  BY <1>2, Members, Special DEF ZombieInv, InitSeesZombies, Queued, TypeInv, RunInv, InitLabels
<1> QED BY <1>5, <1>6, <1>7, <1>8, <1>9, <1>10, <1>11, <1>12 DEF IInv

\* The node leaves the list before the stack frame it lives in.
LEMMA SnoozeReturnStep ==
    ASSUME IInv, NEW t \in Threads, SnoozeReturn(t)
    PROVE  IInv'
<1> TypeInv /\ ReadyInv /\ RunInv /\ SleepInv /\ TargetInv /\ JoinInv /\ ReapInv /\ ZombieInv
  BY DEF IInv
<1> USE DEF lists, sleep, reap, join
<1>1. /\ t = gk_CurrentThread /\ ~pendSV /\ tstate[t] = "Running" /\ pc[t] = "snoozed"
      /\ pc' = [pc EXCEPT ![t] = "user"]
      /\ UNCHANGED <<lists, gk_CurrentThread, pendSV, level, now, reap, join>>
  BY DEF SnoozeReturn, Running
<1>2. /\ resume' = [resume EXCEPT ![t] = 0]
      /\ gk_SleepingThreads' = Detatch(gk_SleepingThreads, t)
  BY DEF SnoozeReturn
<1>3. TypeInv'
  BY <1>1, <1>2, TimeAssumption DEF TypeInv, Labels, InitLabels, JoinLabels
<1>4. ReadyInv'
  BY <1>1 DEF ReadyInv
<1>5. RunInv'
  BY <1>1, Special DEF RunInv, TypeInv, InitLabels
<1>6. SleepInv'
  <2> DEFINE list == gk_SleepingThreads
             new == Detatch(list, t)
             times == [resume EXCEPT ![t] = 0]
  <2>1. list \in Seq(Threads) /\ OneNodeEach(list) /\ InOrder(list, resume)
    BY DEF SleepInv
  <2> HIDE DEF list
  <2>2. new \in Seq(Threads) /\ OneNodeEach(new) /\ Linked(new) = Linked(list) \ {t}
    BY <2>1, DetatchLinked
  <2>3. InOrder(new, resume)
    BY <2>1, DetatchSorted
  <2> HIDE DEF new
  <2>4. \A i \in 1..Len(new) : new[i] \in Threads /\ new[i] # t
    BY <2>2, LinkedAt
  <2>5. \A x \in Threads : x # t => times[x] = resume[x]
    BY DEF TypeInv
  <2> HIDE DEF times
  <2>6. InOrder(new, times)
    BY <2>3, <2>4, <2>5 DEF InOrder
  <2>7. gk_SleepingThreads' = new /\ resume' = times
    BY <1>2 DEF new, times, list
  <2>8. ASSUME NEW x \in Threads, tstate'[x] = "Sleeping"
        PROVE  x \in Linked(new) /\ now' < times[x]
    <3>1. x # t /\ x \in Linked(list) /\ now < resume[x]
      BY <1>1, <2>8 DEF SleepInv, list
    <3> QED BY <1>1, <2>2, <2>5, <3>1
  <2>9. \A x \in Linked(new) : pc'[x] \in {"snoozing", "snoozed"}
    BY <1>1, <2>2, Members DEF SleepInv, TypeInv, list
  <2> QED BY <2>2, <2>6, <2>7, <2>8, <2>9 DEF SleepInv
<1>7. TargetInv'
  BY <1>1, Special DEF TargetInv, TypeInv, ReapInv, JoinLabels
<1>8. JoinInv'
  BY <1>1, Members DEF JoinInv, TypeInv, TargetInv, JoinLabels
<1>9. ReapInv'
  BY <1>1, Special DEF ReapInv, TypeInv, TargetInv, JoinLabels
<1>10. ZombieInv'
  BY <1>1, Members, Special DEF ZombieInv, InitSeesZombies, Queued, TypeInv, RunInv, InitLabels
<1> QED BY <1>3, <1>4, <1>5, <1>6, <1>7, <1>8, <1>9, <1>10 DEF IInv

\* The ready lists stay exact when threads that were not ready become so.
LEMMA AddToReadyStep ==
    ASSUME TypeInv, ReadyInv, NEW s \in Seq(Threads), OneNodeEach(s),
           \A t \in Linked(s) : tstate[t] # "Ready", AddToReady(s)
    PROVE  /\ ReadyInv' /\ tstate' \in [Threads -> States]
           /\ \A t \in Threads : tstate'[t] = IF t \in Linked(s) THEN "Ready" ELSE tstate[t]
<1> DEFINE ready == Enqueue(gk_ReadyThreadLists, s)
           state == MadeReady(tstate, s)
<1>1. gk_ReadyThreadLists' = ready /\ tstate' = state
  BY DEF AddToReady
<1>2. /\ tstate \in [Threads -> States] /\ Lists(gk_ReadyThreadLists)
      /\ InLists(gk_ReadyThreadLists) = {t \in Threads : tstate[t] = "Ready"}
  BY DEF TypeInv, ReadyInv
<1>3. /\ Lists(ready) /\ InLists(ready) = {t \in Threads : state[t] = "Ready"}
      /\ state \in [Threads -> States]
      /\ \A t \in Threads : state[t] = IF t \in Linked(s) THEN "Ready" ELSE tstate[t]
  BY <1>2, MadeReadyStep
<1> HIDE DEF ready, state
<1> QED BY <1>1, <1>3 DEF ReadyInv

\* Waking threads that sleep, wait or are stopped disturbs nothing but their states.
LEMMA WakeStep ==
    ASSUME IInv, NEW S, tstate' \in [Threads -> States],
           \A t \in Threads : tstate'[t] = IF t \in S THEN "Ready" ELSE tstate[t],
           \A t \in S : tstate[t] \in {"Sleeping", "Waiting", "Stopped"},
           UNCHANGED <<gk_CurrentThread, level, reap, join, pc>>, pendSV' = TRUE \/ pendSV' = pendSV
    PROVE  RunInv' /\ TargetInv' /\ JoinInv' /\ ReapInv' /\ ZombieInv'
<1> TypeInv /\ RunInv /\ TargetInv /\ JoinInv /\ ReapInv /\ ZombieInv
  BY DEF IInv
<1> USE DEF reap, join
<1>1. \A t \in Threads :
         \/ tstate'[t] = tstate[t]
         \/ tstate'[t] = "Ready" /\ tstate[t] \in {"Sleeping", "Waiting", "Stopped"}
  OBVIOUS
<1>2. RunInv'
  BY <1>1, Special DEF RunInv, TypeInv, InitLabels
<1>3. TargetInv'
  BY <1>1 DEF TargetInv, TypeInv, JoinLabels
<1>4. JoinInv'
  BY <1>1 DEF JoinInv, TypeInv, TargetInv, JoinLabels
<1>5. ReapInv'
  BY <1>1 DEF ReapInv, TypeInv
<1>6. ZombieInv'
  BY <1>1, Members, Special DEF ZombieInv, InitSeesZombies, Queued
<1> QED BY <1>2, <1>3, <1>4, <1>5, <1>6

\* wakeup_thread and wakeup_wait_queue.
LEMMA WakeupThreadStep ==
    ASSUME IInv, NEW t \in Threads, NEW s \in BOOLEAN, WakeupThread(t, s)
    PROVE  IInv'
<1> TypeInv /\ ReadyInv /\ SleepInv
  BY DEF IInv
<1> USE DEF sleep, reap, join
<1>1. /\ tstate[t] \in {"Sleeping", "Waiting", "Stopped"} /\ AddToReady(<<t>>)
      /\ UNCHANGED <<gk_CurrentThread, level, sleep, reap, join, pc>>
      /\ pendSV' = TRUE \/ pendSV' = pendSV
  BY DEF WakeupThread, WakeupStates
<1>2. <<t>> \in Seq(Threads) /\ OneNodeEach(<<t>>) /\ Linked(<<t>>) = {t}
  BY SingleLinked
<1>3. /\ ReadyInv' /\ tstate' \in [Threads -> States]
      /\ \A x \in Threads : tstate'[x] = IF x \in {t} THEN "Ready" ELSE tstate[x]
  <2>1. \A x \in Linked(<<t>>) : tstate[x] # "Ready"
    BY <1>1, <1>2
  <2>2. /\ ReadyInv' /\ tstate' \in [Threads -> States]
        /\ \A x \in Threads : tstate'[x] = IF x \in Linked(<<t>>) THEN "Ready" ELSE tstate[x]
    BY <1>1, <1>2, <2>1, AddToReadyStep
  <2> QED BY <1>2, <2>2
<1>4. RunInv' /\ TargetInv' /\ JoinInv' /\ ReapInv' /\ ZombieInv'
  <2> DEFINE S == {t}
  <2>1. /\ \A x \in Threads : tstate'[x] = IF x \in S THEN "Ready" ELSE tstate[x]
        /\ \A x \in S : tstate[x] \in {"Sleeping", "Waiting", "Stopped"}
    BY <1>1, <1>3
  <2> HIDE DEF S
  <2> QED BY <1>1, <1>3, <2>1, WakeStep
<1>5. TypeInv'
  BY <1>1, <1>3 DEF TypeInv
<1>6. SleepInv'
  BY <1>1, <1>3 DEF SleepInv
<1> QED BY <1>3, <1>4, <1>5, <1>6 DEF IInv

\* The tick wakes whoever is due, and nobody who is not due oversleeps.
LEMMA SysTickStep ==
    ASSUME IInv, SysTick
    PROVE  IInv'
<1> TypeInv /\ ReadyInv /\ SleepInv
  BY DEF IInv
<1> USE DEF reap, join
<1> DEFINE list == gk_SleepingThreads
           due == SubSeq(list, 1, DueCount)
           rest == SubSeq(list, DueCount + 1, Len(list))
           s == InState(tstate, due, {"Sleeping"})
           time == Time
<1>1. /\ now' = time /\ AddToReady(s) /\ gk_SleepingThreads' = rest /\ pendSV' = TRUE
      /\ UNCHANGED <<gk_CurrentThread, level, resume, reap, join, pc>>
  BY DEF SysTick
<1>2. /\ due \in Seq(Threads) /\ OneNodeEach(due)
      /\ rest \in Seq(Threads) /\ OneNodeEach(rest) /\ InOrder(rest, resume)
      /\ Linked(list) = Linked(due) \cup Linked(rest)
      /\ \A t \in Linked(rest) : time < resume[t]
  BY TickLists
<1>3. time \in 0..MaxTime
  BY DueFacts
<1> HIDE DEF list, due, rest, time
<1>4. /\ s \in Seq(Threads) /\ OneNodeEach(s)
      /\ Linked(s) = Linked(due) \cap {t \in Threads : tstate[t] \in {"Sleeping"}}
  BY <1>2, ThoseAre DEF InState
<1> HIDE DEF s
<1>5. \A t \in Linked(s) : tstate[t] = "Sleeping"
  BY <1>4
<1>6. /\ ReadyInv' /\ tstate' \in [Threads -> States]
      /\ \A t \in Threads : tstate'[t] = IF t \in Linked(s) THEN "Ready" ELSE tstate[t]
  <2>1. \A t \in Linked(s) : tstate[t] # "Ready"
    BY <1>5
  <2> QED BY <1>1, <1>4, <2>1, AddToReadyStep
<1>7. RunInv' /\ TargetInv' /\ JoinInv' /\ ReapInv' /\ ZombieInv'
  <2>1. \A x \in Linked(s) : tstate[x] \in {"Sleeping", "Waiting", "Stopped"}
    BY <1>5
  <2> QED BY <1>1, <1>6, <2>1, WakeStep
<1>8. TypeInv'
  BY <1>1, <1>3, <1>6 DEF TypeInv
<1>9. SleepInv'
  <2>1. ASSUME NEW t \in Threads, tstate'[t] = "Sleeping" PROVE t \in Linked(rest) /\ time < resume[t]
    <3>1. t \notin Linked(s) /\ tstate[t] = "Sleeping"
      BY <1>6, <2>1
    <3>2. t \in Linked(list) /\ t \notin Linked(due)
      BY <1>4, <3>1 DEF SleepInv, list
    <3> QED BY <1>2, <3>2
  <2>2. \A t \in Linked(rest) : pc[t] \in {"snoozing", "snoozed"}
    BY <1>2 DEF SleepInv, list
  <2> QED BY <1>1, <1>2, <2>1, <2>2 DEF SleepInv
<1> QED BY <1>6, <1>7, <1>8, <1>9 DEF IInv

\* A new thread is ready, named by the PID map, and nobody's zombie or child to join yet.
LEMMA SpawnStep ==
    ASSUME IInv, NEW t \in Threads, NEW u \in Threads \ {Main}, NEW d \in BOOLEAN, Spawn(t, u, d)
    PROVE  IInv'
<1> TypeInv /\ ReadyInv /\ RunInv /\ SleepInv /\ TargetInv /\ JoinInv /\ ReapInv /\ ZombieInv
  BY DEF IInv
<1> USE DEF sleep, join
<1>1. /\ tstate[u] = "Unborn" /\ AddToReady(<<u>>) /\ u \in Threads /\ u # Main
      /\ detached' = [detached EXCEPT ![u] = d] /\ listed' = listed \cup {u}
      /\ UNCHANGED <<gk_CurrentThread, pendSV, level, sleep, gk_ZombieThreadLists,
                     threadsToDelete, cleanups, join, pc>>
  BY DEF Spawn
<1>2. <<u>> \in Seq(Threads) /\ OneNodeEach(<<u>>) /\ Linked(<<u>>) = {u}
  BY <1>1, SingleLinked
<1>3. /\ ReadyInv' /\ tstate' \in [Threads -> States]
      /\ \A x \in Threads : tstate'[x] = IF x = u THEN "Ready" ELSE tstate[x]
  <2>1. \A x \in Linked(<<u>>) : tstate[x] # "Ready"
    BY <1>1, <1>2
  <2>2. /\ ReadyInv' /\ tstate' \in [Threads -> States]
        /\ \A x \in Threads : tstate'[x] = IF x \in Linked(<<u>>) THEN "Ready" ELSE tstate[x]
    BY <1>1, <1>2, <2>1, AddToReadyStep
  <2> QED BY <1>2, <2>2
<1>4. u # gk_IdleThread /\ u # gk_InitThread /\ u \notin Queued /\ \A j \in Threads : joining[j] # u
  BY <1>1, Special DEF RunInv, ZombieInv, TargetInv
<1>5. cleanups[u] = 0
  BY <1>1 DEF ReapInv, TypeInv
<1>6. TypeInv'
  BY <1>1, <1>3 DEF TypeInv
<1>7. RunInv'
  BY <1>1, <1>3, <1>4, Special DEF RunInv, TypeInv, InitLabels
<1>8. SleepInv'
  BY <1>1, <1>3 DEF SleepInv
<1>9. TargetInv'
  BY <1>1, <1>3, <1>4, Special DEF TargetInv, TypeInv, JoinLabels
<1>10. JoinInv'
  <2>1. ASSUME NEW x \in Threads, pc[x] = "joinWoken", tstate'[x] = "Waiting"
        PROVE  /\ x \in Linked(joiners[joining[x]])
               /\ tstate'[joining[x]] = "Zombie" => joining[x] = gk_CurrentThread /\ pendSV
    <3>1. tstate[x] = "Waiting" /\ joining[x] \in Threads /\ joining[x] # u
      BY <1>3, <1>4, <2>1 DEF TargetInv, JoinLabels, TypeInv
    <3> QED BY <1>3, <2>1, <3>1 DEF JoinInv
  <2> QED BY <1>1, <2>1 DEF JoinInv
<1>11. ReapInv'
  BY <1>1, <1>3, <1>4, <1>5 DEF ReapInv, TypeInv
<1>12. ZombieInv'
  BY <1>1, <1>3, <1>4, Members, Special DEF ZombieInv, InitSeesZombies, Queued, TypeInv
<1> QED BY <1>3, <1>6, <1>7, <1>8, <1>9, <1>10, <1>11, <1>12 DEF IInv

\* The first thread of the application is spawned by init.
LEMMA InitBootStep ==
    ASSUME IInv, InitBoot
    PROVE  IInv'
<1> TypeInv /\ ReadyInv /\ RunInv /\ SleepInv /\ TargetInv /\ JoinInv /\ ReapInv /\ ZombieInv
  BY DEF IInv
<1> USE DEF sleep, join
<1>1. /\ AddToReady(<<Main>>) /\ listed' = listed \cup {Main}
      /\ pc[gk_InitThread] = "boot" /\ tstate[gk_InitThread] = "Running"
      /\ pc' = [pc EXCEPT ![gk_InitThread] = "collect"]
      /\ UNCHANGED <<gk_CurrentThread, pendSV, level, sleep, detached,
                     gk_ZombieThreadLists, threadsToDelete, cleanups, join>>
  BY DEF InitBoot, Running
<1>2. Main \in Threads /\ <<Main>> \in Seq(Threads) /\ OneNodeEach(<<Main>>) /\ Linked(<<Main>>) = {Main}
  BY Special, SingleLinked
<1>3. tstate[Main] = "Unborn"
  BY <1>1 DEF RunInv
<1>4. /\ ReadyInv' /\ tstate' \in [Threads -> States]
      /\ \A x \in Threads : tstate'[x] = IF x = Main THEN "Ready" ELSE tstate[x]
  <2>1. \A x \in Linked(<<Main>>) : tstate[x] # "Ready"
    BY <1>2, <1>3
  <2>2. /\ ReadyInv' /\ tstate' \in [Threads -> States]
        /\ \A x \in Threads : tstate'[x] = IF x \in Linked(<<Main>>) THEN "Ready" ELSE tstate[x]
    BY <1>1, <1>2, <2>1, AddToReadyStep
  <2> QED BY <1>2, <2>2
<1>5. Main \notin Queued /\ \A j \in Threads : joining[j] # Main
  BY <1>2, <1>3, Special DEF ZombieInv, TargetInv
<1>6. cleanups[Main] = 0
  BY <1>2, <1>3 DEF ReapInv, TypeInv
<1>7. TypeInv'
  BY <1>1, <1>2, <1>4, Special DEF TypeInv, Labels, InitLabels
<1>8. RunInv'
  BY <1>1, <1>2, <1>4, Special DEF RunInv, TypeInv, InitLabels
<1>9. SleepInv'
  BY <1>1, <1>4, Special, Members DEF SleepInv, TypeInv
<1>10. TargetInv'
  BY <1>1, <1>2, <1>4, <1>5, Special DEF TargetInv, TypeInv, JoinLabels
<1>11. JoinInv'
  BY <1>1, <1>2, <1>4, <1>5, Members, Special DEF JoinInv, TypeInv, TargetInv, JoinLabels
<1>12. ReapInv'
  BY <1>1, <1>2, <1>4, <1>5, <1>6 DEF ReapInv, TypeInv
<1>13. ZombieInv'
  BY <1>1, <1>2, <1>4, <1>5, Members, Special DEF ZombieInv, InitSeesZombies, Queued, TypeInv
<1> QED BY <1>4, <1>7, <1>8, <1>9, <1>10, <1>11, <1>12, <1>13 DEF IInv

\* kwakeup_init_thread wakes init or nobody.
LEMMA InitWaitingIs ==
    ASSUME NEW state
    PROVE  /\ InitWaiting(state) \in Seq(Threads) /\ OneNodeEach(InitWaiting(state))
           /\ Linked(InitWaiting(state)) = IF state[gk_InitThread] = "Waiting" THEN {gk_InitThread} ELSE {}
<1>1. CASE state[gk_InitThread] = "Waiting"
  <2>1. InitWaiting(state) = <<gk_InitThread>>
    BY <1>1 DEF InitWaiting
  <2> QED BY <1>1, <2>1, Special, SingleLinked
<1>2. CASE state[gk_InitThread] # "Waiting"
  <2>1. InitWaiting(state) = <<>> /\ <<>> \in Seq(Threads)
    BY <1>2 DEF InitWaiting
  <2> QED BY <1>2, <2>1, EmptyLinked
<1> QED BY <1>1, <1>2

\* A thread that is detached as a zombie goes to init, which hears of it at once.
LEMMA DetachStep ==
    ASSUME IInv, NEW t \in Threads, NEW u \in Threads, Detach(t, u)
    PROVE  IInv'
<1> TypeInv /\ ReadyInv /\ RunInv /\ SleepInv /\ TargetInv /\ JoinInv /\ ReapInv /\ ZombieInv
  BY DEF IInv
<1> USE DEF sleep, join
<1>1. /\ gk_CurrentThread = t /\ tstate[t] = "Running"
      /\ u \in listed /\ ~detached[u] /\ tstate[u] # "Deleted" /\ \A j \in Threads : joining[j] # u
      /\ detached' = [detached EXCEPT ![u] = TRUE]
      /\ UNCHANGED <<gk_CurrentThread, pendSV, level, sleep, threadsToDelete,
                     listed, cleanups, join, pc>>
  BY DEF Detach, Running
<1>2. u \notin Queued /\ cleanups[u] = 0
  <2>1. u \notin Queued
    BY <1>1 DEF ZombieInv
  <2>2. ~(cleanups[u] > 0)
    BY <1>1 DEF ReapInv
  <2> QED BY <2>1, <2>2 DEF TypeInv
<1>3. /\ detached' \in [Threads -> BOOLEAN] /\ detached'[u]
      /\ \A x \in Threads : x # u => detached'[x] = detached[x]
  BY <1>1 DEF TypeInv
<1>4. \A x \in Threads : detached[x] => detached'[x]
  BY <1>3
<1>5. CASE tstate[u] # "Zombie"
  <2>1. UNCHANGED <<gk_ZombieThreadLists, gk_ReadyThreadLists, tstate>>
    BY <1>5 DEF Detach, lists
  <2>2. TypeInv'
    BY <1>1, <1>3, <2>1 DEF TypeInv
  <2>3. ReadyInv' /\ RunInv' /\ SleepInv' /\ JoinInv'
    BY <1>1, <2>1 DEF ReadyInv, RunInv, SleepInv, JoinInv
  <2>4. TargetInv'
    BY <1>1, <1>3, <2>1 DEF TargetInv, TypeInv
  <2>5. ReapInv'
    BY <1>1, <1>3, <1>4, <2>1 DEF ReapInv, TypeInv
  <2>6. ZombieInv'
    BY <1>1, <1>4, <2>1, Members DEF ZombieInv, InitSeesZombies, Queued
  <2> QED BY <2>2, <2>3, <2>4, <2>5, <2>6 DEF IInv
<1>6. CASE tstate[u] = "Zombie"
  <2> DEFINE s == InitWaiting(tstate)
  <2>1. gk_ZombieThreadLists' = Append(gk_ZombieThreadLists, u) /\ AddToReady(s)
    BY <1>6 DEF Detach
  <2>2. /\ s \in Seq(Threads) /\ OneNodeEach(s)
        /\ Linked(s) = IF tstate[gk_InitThread] = "Waiting" THEN {gk_InitThread} ELSE {}
    BY InitWaitingIs
  <2> HIDE DEF s
  <2>3. /\ ReadyInv' /\ tstate' \in [Threads -> States]
        /\ \A x \in Threads : tstate'[x] = IF x \in Linked(s) THEN "Ready" ELSE tstate[x]
    <3>1. \A x \in Linked(s) : tstate[x] # "Ready"
      BY <2>2
    <3> QED BY <2>1, <2>2, <3>1, AddToReadyStep
  <2>4. /\ \A x \in Threads : x # gk_InitThread => tstate'[x] = tstate[x]
        /\ tstate'[gk_InitThread] = IF tstate[gk_InitThread] = "Waiting" THEN "Ready" ELSE tstate[gk_InitThread]
    BY <2>2, <2>3, Special
  <2>5. u # gk_InitThread /\ u # gk_CurrentThread
    BY <1>1, <1>6 DEF RunInv
  <2>6. TypeInv'
    BY <1>1, <1>3, <2>3 DEF TypeInv
  <2>7. RunInv'
    BY <1>1, <2>4, Special DEF RunInv, TypeInv, InitLabels
  <2>8. SleepInv'
    BY <1>1, <2>4, Special DEF SleepInv, TypeInv
  <2>9. TargetInv'
    BY <1>1, <1>3, <2>4, Special DEF TargetInv, TypeInv, JoinLabels, RunInv, InitLabels
  <2>10. JoinInv'
    <3>1. ASSUME NEW x \in Threads, pc[x] = "joinWoken", tstate'[x] = "Waiting"
          PROVE  /\ x \in Linked(joiners[joining[x]])
                 /\ tstate'[joining[x]] = "Zombie" => joining[x] = gk_CurrentThread /\ pendSV
      <4>1. tstate[x] = "Waiting" /\ joining[x] \in Threads
        BY <2>4, <3>1 DEF TargetInv, JoinLabels, TypeInv
      <4>2. tstate'[joining[x]] = "Zombie" => tstate[joining[x]] = "Zombie"
        BY <2>4, <4>1
      <4> QED BY <3>1, <4>1, <4>2 DEF JoinInv
    <3> QED BY <1>1, <3>1 DEF JoinInv
  <2>11. ReapInv'
    BY <1>1, <1>3, <1>4, <2>4, Special DEF ReapInv, TypeInv, RunInv
  <2>12. ZombieInv'
    <3> DEFINE z == gk_ZombieThreadLists
    <3>1. z \in Seq(Threads) /\ OneNodeEach(z) /\ u \notin Linked(z)
      BY <1>2 DEF ZombieInv, Queued
    <3>2. /\ Append(z, u) \in Seq(Threads) /\ OneNodeEach(Append(z, u))
          /\ Linked(Append(z, u)) = Linked(z) \cup {u}
      BY <3>1, AppendLinked
    <3>3. Queued' = Queued \cup {u}
      BY <1>1, <2>1, <3>2 DEF Queued
    <3>4. \A x \in Queued' : /\ tstate'[x] = "Zombie" /\ detached'[x] /\ cleanups'[x] = 0
                             /\ x # gk_CurrentThread'
      <4>1. \A x \in Queued : x \in Threads /\ tstate[x] = "Zombie" /\ detached[x] /\ cleanups[x] = 0
                              /\ x # gk_CurrentThread /\ x # gk_InitThread
        BY Members DEF ZombieInv, RunInv, Queued
      <4> QED BY <1>1, <1>2, <1>3, <1>4, <1>6, <2>4, <2>5, <3>3, <4>1
    <3>5. InitSeesZombies'
      BY <2>4 DEF InitSeesZombies
    <3>6. Linked(Append(z, u)) \cap Linked(threadsToDelete) = {}
      BY <1>2, <3>2 DEF ZombieInv, Queued
    <3> QED BY <1>1, <2>1, <3>2, <3>4, <3>5, <3>6 DEF ZombieInv
  <2> QED BY <2>3, <2>6, <2>7, <2>8, <2>9, <2>10, <2>11, <2>12 DEF IInv
<1> QED BY <1>5, <1>6

\* The highest of the levels a switch may take from exists.
LEMMA TopLevelIs ==
    ASSUME Eligible # {}
    PROVE  TopLevel \in Eligible /\ TopLevel \in AllLevels /\ gk_ReadyThreadLists[TopLevel] # <<>>
<1> DEFINE E == Eligible
           T == {Levels - 1 - l : l \in E}
<1>1. E \subseteq AllLevels /\ Levels \in Nat /\ E # {}
  BY LevelsAssumption DEF Eligible, Occupied, AllLevels
<1>2. TopLevel = CHOOSE l \in E : \A k \in E : k <= l
  BY DEF TopLevel
<1>3. \A l \in E : gk_ReadyThreadLists[l] # <<>>
  BY DEF Eligible, Occupied
<1> HIDE DEF E
<1>4. T \subseteq Nat /\ T # {}
  BY <1>1 DEF AllLevels
<1>5. PICK x \in T : \A y \in T : ~(y < x)
  <2> HIDE DEF T
  <2> QED BY <1>4, LeastNumber
<1>6. PICK l \in E : x = Levels - 1 - l
  OBVIOUS
<1>7. ASSUME NEW k \in E PROVE k <= l
  <2>1. ~(Levels - 1 - k < Levels - 1 - l)
    BY <1>5, <1>6
  <2> QED BY <1>1, <2>1 DEF AllLevels
<1>8. TopLevel \in E
  BY <1>2, <1>7
<1> QED BY <1>1, <1>3, <1>8 DEF E

\* select_thread before it deals with the dead: one thread runs, the lists are exact.
LEMMA SwitchedIs ==
    ASSUME IInv
    PROVE  /\ Lists(Switched.ready) /\ Switched.state \in [Threads -> States]
           /\ InLists(Switched.ready) = {t \in Threads : Switched.state[t] = "Ready"}
           /\ Switched.next \in Threads
           /\ \A t \in Threads : Switched.state[t] = "Running" <=> t = Switched.next
           /\ \A t \in Threads :
                  \/ Switched.state[t] = tstate[t]
                  \/ Switched.state[t] \in {"Ready", "Running"} /\ tstate[t] \in {"Ready", "Running"}
<1> TypeInv /\ ReadyInv /\ RunInv
  BY DEF IInv
<1> DEFINE ready == gk_ReadyThreadLists
<1>1. Lists(ready) /\ InLists(ready) = {t \in Threads : tstate[t] = "Ready"}
  BY DEF ReadyInv
<1>2. Prev \in Threads /\ \A t \in Threads : tstate[t] = "Running" => t = Prev
  BY DEF Prev, TypeInv, RunInv
<1>3. CASE Eligible = {}
  <2>1. Switched.ready = ready /\ Switched.state = tstate /\ Switched.next = Prev
    BY <1>3 DEF Switched
  <2>2. tstate[Prev] = "Running"
    <3>1. SUFFICES ASSUME tstate[Prev] # "Running" PROVE FALSE
      OBVIOUS
    <3>2. tstate[gk_IdleThread] = "Ready"
      BY <1>2, <3>1, Special DEF RunInv
    <3>3. gk_IdleThread \in InLists(ready)
      BY <1>1, <3>2, Special
    <3>4. PICK l \in AllLevels : gk_IdleThread \in Linked(ready[l])
      BY <3>3 DEF InLists
    <3>5. ready[l] # <<>>
      BY <3>4, EmptyLinked
    <3>6. l \in Eligible
      BY <3>1, <3>5 DEF Eligible, Occupied, AllLevels
    <3> QED BY <1>3, <3>6
  <2> QED BY <1>1, <1>2, <2>1, <2>2 DEF TypeInv
<1>4. CASE Eligible # {}
  <2> DEFINE top == TopLevel
             next == Head(ready[top])
             rest == [ready EXCEPT ![top] = Tail(@)]
             back == IF tstate[Prev] = "Running" THEN <<Prev>> ELSE <<>>
             mid == [tstate EXCEPT ![next] = "Running"]
             last == [MadeReady(tstate, back) EXCEPT ![next] = "Running"]
  <2>1. Switched.ready = Enqueue(rest, back) /\ Switched.next = next /\ Switched.state = last
    BY <1>4 DEF Switched
  <2>2. top \in AllLevels /\ ready[top] # <<>>
    BY <1>4, TopLevelIs
  <2> HIDE DEF top, ready
  <2>3. next \in InLists(ready) /\ Lists(rest) /\ InLists(rest) = InLists(ready) \ {next}
    BY <1>1, <2>2, DequeueLists
  <2> HIDE DEF next, rest
  <2>4. next \in Threads /\ tstate[next] = "Ready"
    BY <1>1, <2>3
  <2>5. /\ back \in Seq(Threads) /\ OneNodeEach(back)
        /\ Linked(back) = IF tstate[Prev] = "Running" THEN {Prev} ELSE {}
    <3>1. CASE tstate[Prev] = "Running"
      BY <1>2, <3>1, SingleLinked
    <3>2. CASE tstate[Prev] # "Running"
      <4>1. back = <<>> /\ <<>> \in Seq(Threads)
        BY <3>2
      <4> QED BY <3>2, <4>1, EmptyLinked
    <3> QED BY <3>1, <3>2
  <2> HIDE DEF back
  <2>6. /\ mid \in [Threads -> States]
        /\ \A t \in Threads : mid[t] = IF t = next THEN "Running" ELSE tstate[t]
    BY <2>4 DEF TypeInv, States
  <2> HIDE DEF mid
  <2>7. InLists(rest) = {t \in Threads : mid[t] = "Ready"}
    BY <1>1, <2>3, <2>6
  <2>8. \A t \in Linked(back) : mid[t] # "Ready"
    BY <1>2, <2>5, <2>6
  <2>9. /\ Lists(Enqueue(rest, back))
        /\ InLists(Enqueue(rest, back)) = {t \in Threads : MadeReady(mid, back)[t] = "Ready"}
        /\ MadeReady(mid, back) \in [Threads -> States]
        /\ \A t \in Threads : MadeReady(mid, back)[t] = IF t \in Linked(back) THEN "Ready" ELSE mid[t]
    BY <2>3, <2>5, <2>6, <2>7, <2>8, MadeReadyStep
  <2>10. next \notin Linked(back)
    BY <2>4, <2>5
  <2>11. last = MadeReady(mid, back)
    <3>1. \A t \in Threads : last[t] = MadeReady(mid, back)[t]
      BY <2>6, <2>10 DEF MadeReady
    <3> QED BY <3>1 DEF MadeReady
  <2> HIDE DEF last
  <2>12. \A t \in Threads : last[t] = IF t = next THEN "Running"
                                      ELSE IF t \in Linked(back) THEN "Ready" ELSE tstate[t]
    BY <2>6, <2>9, <2>10, <2>11
  <2>13. \A t \in Threads : last[t] = "Running" <=> t = next
    BY <1>2, <2>5, <2>12
  <2>14. \A t \in Threads : \/ last[t] = tstate[t]
                            \/ last[t] \in {"Ready", "Running"} /\ tstate[t] \in {"Ready", "Running"}
    BY <2>4, <2>5, <2>12
  <2> QED BY <2>1, <2>4, <2>9, <2>11, <2>13, <2>14
<1> QED BY <1>3, <1>4

\* Whom select_thread wakes: init or the joiners of the thread that has died.
LEMMA AnnouncedIs ==
    ASSUME IInv, NEW state
    PROVE  LET s == IF state[Prev] = "Zombie" THEN Announced(state) ELSE <<>>
           IN  /\ s \in Seq(Threads) /\ OneNodeEach(s)
               /\ \A t \in Linked(s) : t \in Threads /\ state[t] \in {"Sleeping", "Waiting"}
               /\ state[Prev] = "Zombie" /\ detached[Prev] /\ state[gk_InitThread] = "Waiting" =>
                      gk_InitThread \in Linked(s)
               /\ \A t \in Linked(joiners[Prev]) :
                      state[Prev] = "Zombie" /\ ~detached[Prev] /\ state[t] = "Waiting" => t \in Linked(s)
<1> DEFINE s == IF state[Prev] = "Zombie" THEN Announced(state) ELSE <<>>
           q == joiners[Prev]
<1>1. q \in Seq(Threads) /\ OneNodeEach(q) /\ Linked(q) \subseteq Threads
  BY Members DEF IInv, JoinInv, TypeInv, Prev
<1>2. CASE state[Prev] # "Zombie"
  <2>1. s = <<>> /\ <<>> \in Seq(Threads)
    BY <1>2
  <2> QED BY <1>2, <2>1, EmptyLinked
<1>3. CASE state[Prev] = "Zombie" /\ detached[Prev]
  <2>1. s = InitWaiting(state)
    BY <1>3 DEF Announced
  <2> HIDE DEF s
  <2> QED BY <1>3, <2>1, InitWaitingIs, Special DEF s
<1>4. CASE state[Prev] = "Zombie" /\ ~detached[Prev]
  <2> DEFINE S == {t \in Threads : state[t] \in {"Sleeping", "Waiting"}}
  <2>1. s = Those(q, S)
    BY <1>4 DEF Announced, InState
  <2> HIDE DEF s
  <2>2. s \in Seq(Threads) /\ OneNodeEach(s) /\ Linked(s) = Linked(q) \cap S
    BY <1>1, <2>1, ThoseAre
  <2> QED BY <1>1, <1>4, <2>2 DEF s
<1> QED BY <1>2, <1>3, <1>4

\* select_thread
LEMMA SelectThreadStep ==
    ASSUME IInv, SelectThread
    PROVE  IInv'
<1> TypeInv /\ ReadyInv /\ RunInv /\ SleepInv /\ TargetInv /\ JoinInv /\ ReapInv /\ ZombieInv
  BY DEF IInv
<1> USE DEF sleep, Prev
<1> DEFINE state == Switched.state
           next == Switched.next
           ready == Switched.ready
           dead == state[Prev] = "Zombie"
           s == IF dead THEN Announced(state) ELSE <<>>
<1>1. /\ pendSV' = FALSE /\ gk_CurrentThread' = next
      /\ gk_ReadyThreadLists' = Enqueue(ready, s) /\ tstate' = MadeReady(state, s)
      /\ UNCHANGED <<level, sleep, threadsToDelete, detached, joining, listed, cleanups, pc>>
  BY DEF SelectThread
<1>2. /\ gk_ZombieThreadLists' = IF dead /\ detached[Prev]
                                 THEN Append(gk_ZombieThreadLists, Prev) ELSE gk_ZombieThreadLists
      /\ joiners' = IF dead /\ ~detached[Prev] THEN [joiners EXCEPT ![Prev] = <<>>] ELSE joiners
  BY DEF SelectThread
<1>3. /\ Lists(ready) /\ state \in [Threads -> States]
      /\ InLists(ready) = {t \in Threads : state[t] = "Ready"}
      /\ next \in Threads
      /\ \A t \in Threads : state[t] = "Running" <=> t = next
      /\ \A t \in Threads :
             \/ state[t] = tstate[t]
             \/ state[t] \in {"Ready", "Running"} /\ tstate[t] \in {"Ready", "Running"}
  BY SwitchedIs
<1> HIDE DEF state, next, ready
<1>4. /\ s \in Seq(Threads) /\ OneNodeEach(s)
      /\ \A t \in Linked(s) : t \in Threads /\ state[t] \in {"Sleeping", "Waiting"}
      /\ dead /\ detached[Prev] /\ state[gk_InitThread] = "Waiting" => gk_InitThread \in Linked(s)
      /\ \A t \in Linked(joiners[Prev]) :
             dead /\ ~detached[Prev] /\ state[t] = "Waiting" => t \in Linked(s)
  BY AnnouncedIs
<1> HIDE DEF s
<1>5. /\ ReadyInv' /\ tstate' \in [Threads -> States]
      /\ \A t \in Threads : tstate'[t] = IF t \in Linked(s) THEN "Ready" ELSE state[t]
  <2>1. \A t \in Linked(s) : state[t] # "Ready"
    BY <1>4
  <2>2. /\ Lists(Enqueue(ready, s))
        /\ InLists(Enqueue(ready, s)) = {t \in Threads : MadeReady(state, s)[t] = "Ready"}
        /\ MadeReady(state, s) \in [Threads -> States]
        /\ \A t \in Threads : MadeReady(state, s)[t] = IF t \in Linked(s) THEN "Ready" ELSE state[t]
    BY <1>3, <1>4, <2>1, MadeReadyStep
  <2> QED BY <1>1, <2>2 DEF ReadyInv
<1>6. Prev \in Threads /\ (dead <=> tstate[Prev] = "Zombie") /\ (dead => Prev # next)
  BY <1>3 DEF TypeInv
<1>7. /\ \A t \in Threads : tstate'[t] = "Running" <=> t = next
      /\ \A t \in Threads : \/ tstate'[t] = tstate[t]
                            \/ tstate'[t] = "Ready" /\ tstate[t] \in {"Sleeping", "Waiting"}
                            \/ tstate'[t] \in {"Ready", "Running"} /\ tstate[t] \in {"Ready", "Running"}
  BY <1>3, <1>4, <1>5
<1>8. dead /\ detached[Prev] => tstate'[gk_InitThread] # "Waiting"
  BY <1>4, <1>5, Special
<1>9. ASSUME NEW t \in Linked(joiners[Prev]), dead, ~detached[Prev] PROVE tstate'[t] # "Waiting"
  BY <1>4, <1>5, <1>6, <1>9, Members
<1> HIDE DEF dead
<1>10. TypeInv'
  BY <1>1, <1>3, <1>5 DEF TypeInv
<1>11. RunInv'
  BY <1>1, <1>3, <1>7, Special DEF RunInv, TypeInv, InitLabels
<1>12. SleepInv'
  BY <1>1, <1>7 DEF SleepInv
<1>13. TargetInv'
  <2>1. ASSUME NEW t \in Threads, joining[t] # NoThread
        PROVE  /\ joining[t] \in Threads /\ tstate'[joining[t]] \notin {"Unborn", "Deleted"}
               /\ tstate[joining[t]] = "Zombie" => tstate'[joining[t]] = "Zombie" /\ joining[t] # next
    <3>1. joining[t] \in Threads /\ tstate[joining[t]] \notin {"Unborn", "Deleted"}
      BY <2>1 DEF TargetInv, TypeInv
    <3> QED BY <1>7, <3>1
  <2>2. ASSUME NEW t \in Threads, pc[t] \in {"join", "joined", "joinErase"}
        PROVE  tstate'[t] \in {"Ready", "Running"}
    BY <1>7, <2>2 DEF TargetInv
  <2> QED BY <1>1, <2>1, <2>2 DEF TargetInv, JoinLabels
<1>14. JoinInv'
  <2>1. /\ joiners' \in [Threads -> Seq(Threads)]
        /\ \A u \in Threads : joiners'[u] = joiners[u] \/ joiners'[u] = <<>>
        /\ \A u \in Threads : u # Prev \/ ~dead \/ detached[Prev] => joiners'[u] = joiners[u]
    <3>1. <<>> \in Seq(Threads)
      OBVIOUS
    <3> QED BY <1>2, <1>6, <3>1 DEF JoinInv
  <2>2. ASSUME NEW u \in Threads
        PROVE  /\ OneNodeEach(joiners'[u])
               /\ \A t \in Linked(joiners'[u]) : pc[t] = "joinWoken" /\ joining[t] = u
    BY <2>1, EmptyLinked DEF JoinInv
  <2>3. ASSUME NEW t \in Threads, pc[t] = "joinWoken", tstate'[t] = "Waiting"
        PROVE  /\ t \in Linked(joiners'[joining[t]])
               /\ tstate'[joining[t]] # "Zombie"
    <3>1. tstate[t] = "Waiting" /\ joining[t] \in Threads /\ ~detached[joining[t]]
      BY <1>7, <2>3 DEF TargetInv, TypeInv, JoinLabels
    <3>2. t \in Linked(joiners[joining[t]])
      BY <2>3, <3>1 DEF JoinInv
    <3>3. tstate[joining[t]] = "Zombie" => joining[t] = Prev
      BY <2>3, <3>1 DEF JoinInv
    <3>4. ~(dead /\ joining[t] = Prev)
      BY <1>9, <2>3, <3>1, <3>2
    <3>5. joiners'[joining[t]] = joiners[joining[t]]
      BY <2>1, <3>1, <3>4
    <3>6. tstate[joining[t]] # "Zombie"
      BY <1>6, <3>3, <3>4
    <3> QED BY <1>7, <3>1, <3>2, <3>5, <3>6
  <2> QED BY <1>1, <2>1, <2>2, <2>3 DEF JoinInv
<1>15. ReapInv'
  <2>1. \A t \in Threads : /\ tstate'[t] = "Unborn" <=> tstate[t] = "Unborn"
                           /\ tstate'[t] = "Deleted" <=> tstate[t] = "Deleted"
                           /\ tstate[t] = "Zombie" => tstate'[t] = "Zombie"
                           /\ tstate'[t] \in {"Zombie", "Deleted"} => t # next
    BY <1>7
  <2> QED BY <1>1, <2>1 DEF ReapInv
<1>16. ZombieInv'
  <2> DEFINE z == gk_ZombieThreadLists
  <2>1. \A t \in Threads : tstate[t] = "Zombie" => tstate'[t] = "Zombie" /\ t # next
    BY <1>7
  <2>2. CASE dead /\ detached[Prev]
    <3>1. gk_ZombieThreadLists' = Append(z, Prev)
      BY <1>2, <2>2
    <3>2. z \in Seq(Threads) /\ OneNodeEach(z) /\ Prev \notin Queued /\ Prev \notin Linked(z)
      BY DEF ZombieInv, Queued
    <3>3. /\ Append(z, Prev) \in Seq(Threads) /\ OneNodeEach(Append(z, Prev))
          /\ Linked(Append(z, Prev)) = Linked(z) \cup {Prev}
      BY <1>6, <3>2, AppendLinked
    <3>4. Queued' = Queued \cup {Prev}
      BY <1>1, <3>1, <3>3 DEF Queued
    <3>5. cleanups[Prev] = 0
      <4>1. ~(cleanups[Prev] > 0)
        BY <1>6 DEF ReapInv
      <4> QED BY <1>6, <4>1 DEF TypeInv
    <3>6. \A x \in Queued' : /\ tstate'[x] = "Zombie" /\ detached'[x] /\ cleanups'[x] = 0
                             /\ x # gk_CurrentThread'
      <4>1. \A x \in Queued : x \in Threads /\ tstate[x] = "Zombie" /\ detached[x] /\ cleanups[x] = 0
        BY Members DEF ZombieInv
      <4> QED BY <1>1, <1>6, <2>1, <2>2, <3>4, <3>5, <4>1
    <3>7. InitSeesZombies'
      BY <1>8, <2>2 DEF InitSeesZombies
    <3>8. Linked(Append(z, Prev)) \cap Linked(threadsToDelete) = {}
      BY <3>2, <3>3 DEF ZombieInv, Queued
    <3> QED BY <1>1, <3>1, <3>3, <3>6, <3>7, <3>8 DEF ZombieInv
  <2>3. CASE ~(dead /\ detached[Prev])
    <3>1. gk_ZombieThreadLists' = z
      BY <1>2, <2>3
    <3>2. tstate'[gk_InitThread] = "Waiting" => tstate[gk_InitThread] = "Waiting"
      BY <1>7, Special
    <3>3. \A x \in Queued : tstate'[x] = "Zombie" /\ x # next
      BY <2>1, Members DEF ZombieInv
    <3> QED BY <1>1, <3>1, <3>2, <3>3 DEF ZombieInv, InitSeesZombies, Queued
  <2> QED BY <2>2, <2>3
<1> QED BY <1>5, <1>10, <1>11, <1>12, <1>13, <1>14, <1>15, <1>16 DEF IInv

-----------------------------------------------------------------------------
(* The specification *)

\* Every step of the scheduler, of a thread or of init keeps the invariant.
LEMMA NextIInv == IInv /\ [Next]_vars => IInv'
<1> SUFFICES ASSUME IInv, [Next]_vars PROVE IInv'
  OBVIOUS
<1>1. CASE SelectThread
  BY <1>1, SelectThreadStep
<1>2. CASE SysTick
  BY <1>2, SysTickStep
<1>3. ASSUME NEW t \in Threads, NEW s \in BOOLEAN, WakeupThread(t, s) PROVE IInv'
  BY <1>3, WakeupThreadStep
<1>4. ASSUME NEW t \in Threads, InKernel(t) PROVE IInv'
  BY <1>4, SnoozeSwitchStep, SnoozeReturnStep, JoinWaitStep, JoinResumeStep, JoinReapStep,
     JoinEraseStep DEF InKernel
<1>5. ASSUME NEW t \in Threads, User(t) PROVE IInv'
  <2>1. t # gk_IdleThread
    BY <1>5 DEF User
  <2>2. CASE Yield(t)
    BY <2>2, YieldStep
  <2>3. ASSUME NEW s \in {"Waiting", "Stopped"}, Block(t, s) PROVE IInv'
    BY <2>1, <2>3, BlockStep
  <2>4. ASSUME NEW n \in 0..1, Snooze(t, n) PROVE IInv'
    BY <2>1, <2>4, SnoozeStep
  <2>5. ASSUME NEW u \in Threads, NEW l \in 0..Levels - 1, SetPriority(t, u, l) PROVE IInv'
    <3>1. l \in AllLevels
      BY DEF AllLevels
    <3> QED BY <2>5, <3>1, SetPriorityStep
  <2>6. ASSUME NEW u \in Threads \ {Main}, NEW d \in BOOLEAN, Spawn(t, u, d) PROVE IInv'
    BY <2>6, SpawnStep
  <2>7. CASE Exit(t)
    BY <2>1, <2>7, ExitStep
  <2>8. ASSUME NEW u \in Threads, Detach(t, u) PROVE IInv'
    BY <2>8, DetachStep
  <2>9. ASSUME NEW u \in Threads, Join(t, u) PROVE IInv'
    BY <2>1, <2>9, JoinStep
  <2> QED BY <1>5, <2>2, <2>3, <2>4, <2>5, <2>6, <2>7, <2>8, <2>9 DEF User
<1>6. CASE InitLoop
  BY <1>6, InitBootStep, InitCollectStep, InitDeleteStep, InitEraseStep, InitDeletedStep,
     InitSleepStep DEF InitLoop
<1>7. CASE InitLockWait
  BY <1>7, InitLockWaitStep
<1>8. CASE UNCHANGED vars
  BY <1>8 DEF vars, IInv, TypeInv, ReadyInv, RunInv, SleepInv, TargetInv, JoinInv, ReapInv,
              ZombieInv, InitSeesZombies, Queued
<1> QED BY <1>1, <1>2, <1>3, <1>4, <1>5, <1>6, <1>7, <1>8 DEF Next

\* The invariant holds in every reachable state.
LEMMA Inductive == Spec => []IInv
  BY InitIInv, NextIInv, PTL DEF Spec

(***************************************************************************)
(* Type correctness; in particular the memory of no thread is given back   *)
(* twice, by its joiner and by init or by either of them again.            *)
(***************************************************************************)
THEOREM TypeCorrect == Spec => []TypeOK
<1>1. IInv => TypeOK
  BY DEF IInv, TypeInv, ReadyInv, Lists, SleepInv, JoinInv, ZombieInv, TypeOK, AllLevels,
         Labels, InitLabels, JoinLabels
<1> QED BY <1>1, Inductive, PTL

(***************************************************************************)
(* The ready lists are exact: whatever interrupts, ticks and switches come *)
(* between, a thread that is ready is linked in one place, nobody else is, *)
(* and only the current thread runs.                                       *)
(***************************************************************************)
THEOREM ExactReadyLists == Spec => []ReadyListsExact
<1>1. IInv => ReadyListsExact
  <2> SUFFICES ASSUME IInv PROVE ReadyListsExact
    OBVIOUS
  <2> DEFINE ready == gk_ReadyThreadLists
  <2>1. Lists(ready) /\ InLists(ready) = {t \in Threads : tstate[t] = "Ready"} /\ TypeInv /\ RunInv
    BY DEF IInv, ReadyInv
  <2> HIDE DEF ready
  <2>2. ASSUME NEW l \in AllLevels
        PROVE  /\ ready[l] \in Seq(Threads) /\ OneNodeEach(ready[l])
               /\ Len(ready[l]) \in Nat /\ Len(ready[l]) <= Cardinality(Threads)
               /\ \A t : t \in Linked(ready[l]) <=> \E i \in 1..Len(ready[l]) : ready[l][i] = t
    <3>1. ready[l] \in Seq(Threads) /\ OneNodeEach(ready[l])
      BY <2>1 DEF Lists
    <3> QED BY <3>1, LinkedAt, QueueSize, ThreadsAssumption
  <2>3. Cardinality(Threads) \in Nat
    BY FS_CardinalityType, ThreadsAssumption
  <2>4. ASSUME NEW t \in Threads PROVE Cardinality(Places(t)) = IF tstate[t] = "Ready" THEN 1 ELSE 0
    <3>1. \A p : p \in Places(t) <=>
             \E l \in AllLevels, i \in 1..Cardinality(Threads) :
                 p = <<l, i>> /\ i <= Len(ready[l]) /\ ready[l][i] = t
      BY DEF Places, AllLevels, ready
    <3>2. CASE tstate[t] = "Ready"
      <4>1. t \in InLists(ready)
        BY <2>1, <3>2
      <4>2. PICK l \in AllLevels : t \in Linked(ready[l])
        BY <4>1 DEF InLists
      <4>3. PICK i \in 1..Len(ready[l]) : ready[l][i] = t
        BY <2>2, <4>2
      <4>4. i \in 1..Cardinality(Threads)
        BY <2>2, <2>3, <4>3
      <4>5. ASSUME NEW m \in AllLevels, NEW j \in 1..Cardinality(Threads),
                   j <= Len(ready[m]), ready[m][j] = t
            PROVE  m = l /\ j = i
        <5>1. j \in 1..Len(ready[m])
          BY <2>2, <2>3, <4>5
        <5>2. t \in Linked(ready[m])
          BY <2>2, <4>5, <5>1
        <5>3. m = l
          BY <2>1, <4>2, <5>2 DEF Lists
        <5> QED BY <2>2, <4>3, <4>5, <5>1, <5>3 DEF OneNodeEach
      <4>6. Places(t) = {<<l, i>>}
        <5>1. <<l, i>> \in Places(t)
          BY <2>2, <3>1, <4>3, <4>4
        <5>2. \A p \in Places(t) : p = <<l, i>>
          BY <3>1, <4>5
        <5> QED BY <5>1, <5>2
      <4> QED BY <3>2, <4>6, FS_Singleton
    <3>3. CASE tstate[t] # "Ready"
      <4>1. \A l \in AllLevels : t \notin Linked(ready[l])
        BY <2>1, <3>3 DEF InLists
      <4>2. Places(t) = {}
        <5>1. ASSUME NEW p \in Places(t) PROVE FALSE
          <6>1. PICK l \in AllLevels, i \in 1..Cardinality(Threads) :
                    i <= Len(ready[l]) /\ ready[l][i] = t
            BY <3>1
          <6>2. i \in 1..Len(ready[l])
            BY <2>2, <2>3, <6>1
          <6> QED BY <2>2, <4>1, <6>1, <6>2
        <5> QED BY <5>1
      <4> QED BY <3>3, <4>2, FS_EmptySet
    <3> QED BY <3>2, <3>3
  <2>5. \A t \in Threads : tstate[t] = "Running" => t = gk_CurrentThread
    BY <2>1 DEF RunInv
  <2>6. tstate[gk_CurrentThread] # "Running" => pendSV \/ pc[gk_CurrentThread] = "snoozing"
    BY <2>1 DEF RunInv
  <2> QED BY <2>4, <2>5, <2>6 DEF ReadyListsExact
<1> QED BY <1>1, Inductive, PTL

(***************************************************************************)
(* The sleep list is in order and exact: no thread oversleeps, however the *)
(* ticks fall between add_to_sleep_list and the switch, and no node stays  *)
(* behind on a stack that ksnooze_until_ns has left.                       *)
(***************************************************************************)
THEOREM ExactSleepList == Spec => []SleepListExact
<1>1. IInv => SleepListExact
  <2> SUFFICES ASSUME IInv PROVE SleepListExact
    OBVIOUS
  <2>1. SleepInv /\ DOMAIN gk_SleepingThreads = 1..Len(gk_SleepingThreads)
    BY LinkedAt DEF IInv, SleepInv
  <2> QED BY <2>1 DEF SleepInv, InOrder, SleepListExact
<1> QED BY <1>1, Inductive, PTL

(***************************************************************************)
(* The init thread does not sleep at the end of its loop while a detached  *)
(* zombie is in its list: the wake-up of add_thread_to_zombie_list is      *)
(* never lost, even when it finds init waiting for a mutex.                *)
(***************************************************************************)
THEOREM InitHearsOfTheDead == Spec => []InitSeesZombies
<1>1. IInv => InitSeesZombies
  BY DEF IInv, ZombieInv
<1> QED BY <1>1, Inductive, PTL

(***************************************************************************)
(* Stack and thread-local memory are given back after the last step of     *)
(* their thread only; a detached zombie is queued for init once, and       *)
(* nobody joins it.                                                        *)
(***************************************************************************)
THEOREM ReapingIsSafe == Spec => []ReapedAfterDeath
<1>1. IInv => ReapedAfterDeath
  <2> SUFFICES ASSUME IInv PROVE ReapedAfterDeath
    OBVIOUS
  <2> DEFINE z == gk_ZombieThreadLists
             d == threadsToDelete
             queued == z \o d
  <2>1. TypeInv /\ TargetInv /\ ReapInv /\ ZombieInv
    BY DEF IInv
  <2>2. z \in Seq(Threads) /\ d \in Seq(Threads) /\ OneNodeEach(z) /\ OneNodeEach(d)
        /\ Linked(z) \cap Linked(d) = {}
    BY <2>1 DEF ZombieInv
  <2>3. queued \in Seq(Threads) /\ OneNodeEach(queued) /\ Linked(queued) = Queued
    <3> HIDE DEF z, d
    <3>1. queued \in Seq(Threads) /\ OneNodeEach(queued) /\ Linked(queued) = Linked(z) \cup Linked(d)
      BY <2>2, ConcatLinked
    <3> QED BY <3>1 DEF Queued, z, d
  <2>4. ReapedAfterDeath =
          (/\ \A t \in Threads :
               /\ cleanups[t] > 0 => tstate[t] \in {"Zombie", "Deleted"} /\ t # gk_CurrentThread
               /\ tstate[t] # "Unborn" /\ cleanups[t] = 0 => t \in listed
           /\ \A i, j \in DOMAIN queued : queued[i] = queued[j] => i = j
           /\ \A i \in DOMAIN queued :
               /\ tstate[queued[i]] = "Zombie" /\ detached[queued[i]]
               /\ \A j \in Threads : joining[j] # queued[i])
    BY DEF ReapedAfterDeath
  <2> HIDE DEF queued
  <2>5. /\ DOMAIN queued = 1..Len(queued)
        /\ \A i \in DOMAIN queued : queued[i] \in Queued
    BY <2>3, LinkedAt
  <2>6. \A i, j \in DOMAIN queued : queued[i] = queued[j] => i = j
    BY <2>3, <2>5 DEF OneNodeEach
  <2>7. ASSUME NEW q \in Queued
        PROVE  tstate[q] = "Zombie" /\ detached[q] /\ \A j \in Threads : joining[j] # q
    <3>1. q \in Threads /\ tstate[q] = "Zombie" /\ detached[q]
      BY <2>1, Members DEF ZombieInv
    <3> QED BY <2>1, <3>1, Special DEF TargetInv
  <2>8. \A t \in Threads :
           /\ cleanups[t] > 0 => tstate[t] \in {"Zombie", "Deleted"} /\ t # gk_CurrentThread
           /\ tstate[t] # "Unborn" /\ cleanups[t] = 0 => t \in listed
    BY <2>1 DEF ReapInv
  <2> QED BY <2>4, <2>5, <2>6, <2>7, <2>8
<1> QED BY <1>1, Inductive, PTL

(***************************************************************************)
(* A joiner sleeps beside a dead child only until the switch that buries   *)
(* the child, which is pending: no death is missed between the look at the *)
(* state of the child and the wait.                                        *)
(***************************************************************************)
THEOREM JoinersAreWoken == Spec => []JoinerWoken
<1>1. IInv => JoinerWoken
  <2> SUFFICES ASSUME IInv, NEW t \in Threads, joining[t] # NoThread, tstate[t] = "Waiting",
                      tstate[joining[t]] \in {"Zombie", "Deleted"}
               PROVE  joining[t] = gk_CurrentThread /\ pendSV
    BY DEF JoinerWoken
  <2>1. TargetInv /\ JoinInv
    BY DEF IInv
  <2>2. pc[t] = "joinWoken" /\ tstate[joining[t]] = "Zombie"
    BY <2>1 DEF TargetInv, JoinLabels
  <2> QED BY <2>1, <2>2 DEF JoinInv
<1> QED BY <1>1, Inductive, PTL
=============================================================================
