---------------------------- MODULE KMessagePort ----------------------------
(***************************************************************************)
(* Message ports (Kernel/KMessagePort.cpp).  Each port is a singly linked  *)
(* list of message buffers, guarded by the mutex of the port; buffers are  *)
(* recycled through one cache shared by all ports, whose list uses the     *)
(* same m_Next field.  A call runs under the mutex up to a wait on one of  *)
(* the two condition variables, so each action is one such section.  A     *)
(* waiter whose node a wake-up has unlinked looks at the port again; one   *)
(* whose deadline passes first leaves with TIMEDOUT.                       *)
(***************************************************************************)
EXTENDS WaitQueue, FiniteSets

CONSTANTS Threads,      \* the threads that call the ports
          LongSenders,  \* those whose messages exceed MAX_CACHED_MESSAGE_SIZE
          Ports,        \* the ports
          Blocks,       \* the message buffers the heap can provide
          NULL,
          Listeners,    \* wait nodes of object wait groups
          m_MaxCount,   \* capacity of each port
          MAX_CACHED_MESSAGE_COUNT

ASSUME PortAssumption == /\ m_MaxCount \in [Ports -> Nat \ {0}]
                         /\ MAX_CACHED_MESSAGE_COUNT \in Nat
                         /\ NULL \notin Blocks \cup Threads
                         /\ Threads \cap Listeners = {}

VARIABLES m_FirstMsg, m_LastMsg, m_MessageCount,    \* of each port
          m_SendCondition, m_ReceiveCondition,      \* their wait queues
          m_Next,                   \* link of each buffer
          content,                  \* the message in each buffer
          gk_FirstCachedMessage, gk_CachedMessageCount,
          heap,                     \* buffers not allocated
          handle,                   \* life of each port
          call,                     \* the call each thread is in
          received                  \* the message the last step received, if any

queueVars == <<m_FirstMsg, m_LastMsg, m_MessageCount>>
cacheVars == <<gk_FirstCachedMessage, gk_CachedMessageCount, heap>>
waitVars == <<m_SendCondition, m_ReceiveCondition>>
vars == <<queueVars, waitVars, m_Next, content, cacheVars, handle, call, received>>

\* A message is identified by its sender, which also fixes its length.
Messages == Threads
Long(message) == message \in LongSenders

\* The deadline of a call: none, one to come, or one that has passed.
Deadlines == {"infinit", "ahead", "passed"}
Calls == [op : {"send", "receive"}, port : Ports, deadline : Deadlines]
NoCall == [op |-> "none"]

Init == /\ m_FirstMsg = [p \in Ports |-> NULL]
        /\ m_LastMsg = [p \in Ports |-> NULL]
        /\ m_MessageCount = [p \in Ports |-> 0]
        /\ m_SendCondition = [p \in Ports |-> <<>>]
        /\ m_ReceiveCondition = [p \in Ports |-> <<>>]
        /\ m_Next = [b \in Blocks |-> NULL]
        /\ content = [b \in Blocks |-> NULL]
        /\ gk_FirstCachedMessage = NULL
        /\ gk_CachedMessageCount = 0
        /\ heap = Blocks
        /\ handle = [p \in Ports |-> "open"]
        /\ call = [t \in Threads |-> NoCall]
        /\ received = NULL

Inside(p) == {t \in Threads : call[t] # NoCall /\ call[t].port = p}
Full(p) == m_MessageCount[p] >= m_MaxCount[p]

Return(t, message) == /\ call' = [call EXCEPT ![t] = NoCall]
                      /\ received' = message

-----------------------------------------------------------------------------
\* alloc_message: from the cache if the message is small, else from the heap.
FromCache(message) == ~Long(message) /\ gk_CachedMessageCount > 0
NoMemory(message) == ~FromCache(message) /\ heap = {}

AllocMessage(b, message) ==
    IF FromCache(message)
    THEN /\ b = gk_FirstCachedMessage
         /\ gk_FirstCachedMessage' = m_Next[b]
         /\ gk_CachedMessageCount' = gk_CachedMessageCount - 1
         /\ UNCHANGED heap
    ELSE /\ b = CHOOSE free \in heap : TRUE
         /\ heap' = heap \ {b}
         /\ UNCHANGED <<gk_FirstCachedMessage, gk_CachedMessageCount>>

\* free_message keeps a small buffer in the cache until the cache is full.
ToCache(b) == ~Long(content[b]) /\ gk_CachedMessageCount < MAX_CACHED_MESSAGE_COUNT

\* What a free buffer held is never read again, so it is forgotten.
FreeMessage(b) ==
    /\ content' = [content EXCEPT ![b] = NULL]
    /\ IF ToCache(b)
       THEN /\ m_Next' = [m_Next EXCEPT ![b] = gk_FirstCachedMessage]
            /\ gk_FirstCachedMessage' = b
            /\ gk_CachedMessageCount' = gk_CachedMessageCount + 1
            /\ UNCHANGED heap
       ELSE /\ m_Next' = [m_Next EXCEPT ![b] = NULL]
            /\ heap' = heap \cup {b}
            /\ UNCHANGED <<gk_FirstCachedMessage, gk_CachedMessageCount>>

-----------------------------------------------------------------------------
\* A wrong variant: the buffer becomes the first of the list.
LinkFirst(p, b) ==
    /\ m_Next' = [m_Next EXCEPT ![b] = m_FirstMsg[p]]
    /\ m_FirstMsg' = [m_FirstMsg EXCEPT ![p] = b]
    /\ m_LastMsg' = IF m_LastMsg[p] = NULL THEN [m_LastMsg EXCEPT ![p] = b] ELSE m_LastMsg

\* The buffer becomes the last of the port's list.
LinkLast(p, b) ==
    /\ m_Next' = IF m_LastMsg[p] # NULL
                 THEN [m_Next EXCEPT ![b] = NULL, ![m_LastMsg[p]] = b]
                 ELSE [m_Next EXCEPT ![b] = NULL]
    /\ m_FirstMsg' = IF m_LastMsg[p] = NULL THEN [m_FirstMsg EXCEPT ![p] = b] ELSE m_FirstMsg
    /\ m_LastMsg' = [m_LastMsg EXCEPT ![p] = b]

\* The queue after WakeupAll.
WakeupAll(queue) == Remaining(queue, 0)

PutMessage(t, p) ==
    \E b \in Blocks :
        /\ AllocMessage(b, t)
        /\ content' = [content EXCEPT ![b] = t]
        /\ LinkLast(p, b)
        /\ m_MessageCount' = [m_MessageCount EXCEPT ![p] = @ + 1]
        /\ m_ReceiveCondition' = [m_ReceiveCondition EXCEPT ![p] = WakeupAll(@)]
        /\ Return(t, NULL)
        /\ UNCHANGED <<m_SendCondition, handle>>

\* NOMEM, and a deadline that passes: the call returns and nothing else changes.
GiveUp(t) ==
    /\ Return(t, NULL)
    /\ UNCHANGED <<queueVars, waitVars, m_Next, content, cacheVars, handle>>

SendLoop(t, c) ==
    \/ /\ Full(c.port) /\ c.deadline # "passed"
       /\ m_SendCondition' = [m_SendCondition EXCEPT ![c.port] = Append(@, t)]
       /\ call' = [call EXCEPT ![t] = c]
       /\ received' = NULL
       /\ UNCHANGED <<queueVars, m_ReceiveCondition, m_Next, content, cacheVars, handle>>
    \/ ~Full(c.port) /\ ~NoMemory(t) /\ PutMessage(t, c.port)
    \/ (IF Full(c.port) THEN c.deadline = "passed" ELSE NoMemory(t)) /\ GiveUp(t)

\* A wrong variant: the last message leaves a stale tail behind.
UnlinkFirstKeepsLast(p) ==
    /\ m_FirstMsg' = [m_FirstMsg EXCEPT ![p] = m_Next[@]]
    /\ UNCHANGED m_LastMsg

UnlinkFirst(p) ==
    /\ m_FirstMsg' = [m_FirstMsg EXCEPT ![p] = m_Next[@]]
    /\ m_LastMsg' = IF m_Next[m_FirstMsg[p]] = NULL THEN [m_LastMsg EXCEPT ![p] = NULL]
                                                    ELSE m_LastMsg

\* A wrong variant: only the first sender is woken.
WakeSendersOne(p) == [m_SendCondition EXCEPT ![p] = Remaining(@, 1)]

\* A receive makes room: every sender is woken.
WakeSenders(p) == [m_SendCondition EXCEPT ![p] = WakeupAll(@)]

DetachMessage(t, p) ==
    /\ UnlinkFirst(p)
    /\ m_MessageCount' = [m_MessageCount EXCEPT ![p] = @ - 1]
    /\ m_SendCondition' = WakeSenders(p)
    /\ Return(t, content[m_FirstMsg[p]])
    /\ FreeMessage(m_FirstMsg[p])
    /\ UNCHANGED <<m_ReceiveCondition, handle>>

ReceiveLoop(t, c) ==
    IF m_MessageCount[c.port] > 0 THEN DetachMessage(t, c.port)
    ELSE IF c.deadline = "passed" THEN GiveUp(t)
    ELSE /\ m_ReceiveCondition' = [m_ReceiveCondition EXCEPT ![c.port] = Append(@, t)]
         /\ call' = [call EXCEPT ![t] = c]
         /\ received' = NULL
         /\ UNCHANGED <<queueVars, m_SendCondition, m_Next, content, cacheVars, handle>>

-----------------------------------------------------------------------------
Loop(t, c) == \/ c.op = "send" /\ SendLoop(t, c)
              \/ c.op = "receive" /\ ReceiveLoop(t, c)

Queue(c) == IF c.op = "send" THEN m_SendCondition[c.port] ELSE m_ReceiveCondition[c.port]

\* SendMessage.. and ReceiveMessage..: the handle keeps the port alive for the call.
Enter(t, c) == /\ call[t] = NoCall
               /\ handle[c.port] = "open"
               /\ Loop(t, c)

\* A notified waiter has the mutex again and tries once more.
Resume(t) == /\ call[t] # NoCall
             /\ t \notin Linked(Queue(call[t]))
             /\ Loop(t, call[t])

DeadlinePasses(t) ==
    /\ call[t] # NoCall /\ call[t].deadline = "ahead"
    /\ call' = [call EXCEPT ![t].deadline = "passed"]
    /\ received' = NULL
    /\ UNCHANGED <<queueVars, waitVars, m_Next, content, cacheVars, handle>>

\* A wrong variant: a receive waits without the deadline.
ExpireSenders(t) ==
    /\ call[t] # NoCall /\ call[t].deadline = "passed" /\ call[t].op = "send"
    /\ t \in Linked(Queue(call[t]))
    /\ m_SendCondition' = [p \in Ports |-> Detatch(m_SendCondition[p], t)]
    /\ Return(t, NULL)
    /\ UNCHANGED <<queueVars, m_ReceiveCondition, m_Next, content, cacheVars, handle>>

\* A timed wait whose deadline passed before it was notified.
Expire(t) ==
    /\ call[t] # NoCall /\ call[t].deadline = "passed"
    /\ t \in Linked(Queue(call[t]))
    /\ m_SendCondition' = [p \in Ports |-> Detatch(m_SendCondition[p], t)]
    /\ m_ReceiveCondition' = [p \in Ports |-> Detatch(m_ReceiveCondition[p], t)]
    /\ Return(t, NULL)
    /\ UNCHANGED <<queueVars, m_Next, content, cacheVars, handle>>

(***************************************************************************)
(* AddListener: the node is queued only if an access would block; if not,  *)
(* nothing changes and the group is ready at once.                         *)
(***************************************************************************)
AddListener(l, p, mode) ==
    /\ handle[p] = "open" /\ l \notin Linked(m_SendCondition[p]) \cup Linked(m_ReceiveCondition[p])
    /\ \/ /\ mode = "Read" /\ m_MessageCount[p] = 0
          /\ m_ReceiveCondition' = [m_ReceiveCondition EXCEPT ![p] = Append(@, l)]
          /\ UNCHANGED m_SendCondition
       \/ /\ mode = "Write" /\ Full(p)
          /\ m_SendCondition' = [m_SendCondition EXCEPT ![p] = Append(@, l)]
          /\ UNCHANGED m_ReceiveCondition
    /\ received' = NULL
    /\ UNCHANGED <<queueVars, m_Next, content, cacheVars, handle, call>>

\* The group takes its node back when its wait ends for another reason.
DetachListener(l, p) ==
    /\ l \in Linked(m_SendCondition[p]) \cup Linked(m_ReceiveCondition[p])
    /\ m_SendCondition' = [m_SendCondition EXCEPT ![p] = Detatch(@, l)]
    /\ m_ReceiveCondition' = [m_ReceiveCondition EXCEPT ![p] = Detatch(@, l)]
    /\ received' = NULL
    /\ UNCHANGED <<queueVars, m_Next, content, cacheVars, handle, call>>

-----------------------------------------------------------------------------
Create(p) == /\ handle[p] = "gone"
             /\ handle' = [handle EXCEPT ![p] = "open"]
             /\ m_FirstMsg' = [m_FirstMsg EXCEPT ![p] = NULL]
             /\ m_LastMsg' = [m_LastMsg EXCEPT ![p] = NULL]
             /\ m_MessageCount' = [m_MessageCount EXCEPT ![p] = 0]
             /\ received' = NULL
             /\ UNCHANGED <<waitVars, m_Next, content, cacheVars, call>>

\* kmessage_port_delete: calls that are under way keep the port.
Delete(p) == /\ handle[p] = "open"
             /\ handle' = [handle EXCEPT ![p] = "deleted"]
             /\ received' = NULL
             /\ UNCHANGED <<queueVars, waitVars, m_Next, content, cacheVars, call>>

\* The last reference goes: the destructor starts.
LastReferenceGone(p) ==
    /\ handle[p] = "deleted" /\ Inside(p) = {}
    /\ handle' = [handle EXCEPT ![p] = "dying"]
    /\ received' = NULL
    /\ UNCHANGED <<queueVars, waitVars, m_Next, content, cacheVars, call>>

\* One round of the loop of ~KMessagePort; other ports use the cache in between.
DestructorFree(p) ==
    /\ handle[p] = "dying" /\ m_FirstMsg[p] # NULL
    /\ m_FirstMsg' = [m_FirstMsg EXCEPT ![p] = m_Next[@]]
    /\ FreeMessage(m_FirstMsg[p])
    /\ received' = NULL
    /\ UNCHANGED <<m_LastMsg, m_MessageCount, waitVars, handle, call>>

\* The condition variables are destroyed, which unlinks every node left in them.
DestroyConditions(p) ==
    /\ handle[p] = "dying" /\ m_FirstMsg[p] = NULL
    /\ handle' = [handle EXCEPT ![p] = "gone"]
    /\ m_SendCondition' = [m_SendCondition EXCEPT ![p] = <<>>]
    /\ m_ReceiveCondition' = [m_ReceiveCondition EXCEPT ![p] = <<>>]
    /\ received' = NULL
    /\ UNCHANGED <<queueVars, m_Next, content, cacheVars, call>>

PortStep(p) == LastReferenceGone(p) \/ DestructorFree(p) \/ DestroyConditions(p)

Next == \/ \E t \in Threads : \/ \E c \in Calls : Enter(t, c)
                              \/ Resume(t)
                              \/ DeadlinePasses(t)
                              \/ Expire(t)
        \/ \E p \in Ports, l \in Listeners : \/ \E mode \in {"Read", "Write"} : AddListener(l, p, mode)
                                            \/ DetachListener(l, p)
        \/ \E p \in Ports : Create(p) \/ Delete(p) \/ PortStep(p)

Spec == Init /\ [][Next]_vars

(***************************************************************************)
(* Threads inside a call are scheduled, deadlines pass, and a port that    *)
(* nobody can reach any more is destroyed.                                 *)
(***************************************************************************)
Fairness == /\ \A t \in Threads : /\ WF_vars(Resume(t))
                                  /\ WF_vars(DeadlinePasses(t))
                                  /\ WF_vars(Expire(t))
            /\ \A p \in Ports : WF_vars(PortStep(p))

FairSpec == Spec /\ Fairness

-----------------------------------------------------------------------------
\* The buffers reached from head in n steps along m_Next.
Chain(head, n) ==
    LET at[i \in 1..n] == IF i = 1 THEN head
                          ELSE IF at[i-1] = NULL THEN NULL ELSE m_Next[at[i-1]]
    IN  at

ChainSet(head, n) == {Chain(head, n)[i] : i \in 1..n}

TypeOK == /\ m_FirstMsg \in [Ports -> Blocks \cup {NULL}]
          /\ m_LastMsg \in [Ports -> Blocks \cup {NULL}]
          /\ m_MessageCount \in [Ports -> Nat]
          /\ m_Next \in [Blocks -> Blocks \cup {NULL}]
          /\ content \in [Blocks -> Messages \cup {NULL}]
          /\ gk_FirstCachedMessage \in Blocks \cup {NULL}
          /\ gk_CachedMessageCount \in 0..MAX_CACHED_MESSAGE_COUNT
          /\ heap \subseteq Blocks
          /\ handle \in [Ports -> {"open", "deleted", "dying", "gone"}]
          /\ call \in [Threads -> Calls \cup {NoCall}]
          /\ received \in Messages \cup {NULL}

(***************************************************************************)
(* The list of an existing port has m_MessageCount buffers and ends at     *)
(* m_LastMsg; the cache has gk_CachedMessageCount, within its limit; and   *)
(* no buffer is in two of the lists, free as well as queued, or lost.      *)
(***************************************************************************)
BuffersAccounted ==
    LET cached == ChainSet(gk_FirstCachedMessage, gk_CachedMessageCount)
        queued(p) == IF handle[p] \in {"open", "deleted"}
                     THEN ChainSet(m_FirstMsg[p], m_MessageCount[p])
                     ELSE ChainSet(m_FirstMsg[p], m_MaxCount[p]) \ {NULL}
    IN  /\ TypeOK
        /\ NULL \notin cached /\ Cardinality(cached) = gk_CachedMessageCount
        /\ \A p \in Ports : handle[p] \in {"open", "deleted"} =>
               /\ NULL \notin queued(p) /\ Cardinality(queued(p)) = m_MessageCount[p]
               /\ m_MessageCount[p] = 0 => m_FirstMsg[p] = NULL /\ m_LastMsg[p] = NULL
               /\ m_MessageCount[p] > 0 =>
                      /\ m_LastMsg[p] = Chain(m_FirstMsg[p], m_MessageCount[p])[m_MessageCount[p]]
                      /\ m_Next[m_LastMsg[p]] = NULL
        /\ cached \cap heap = {}
        /\ \A p \in Ports : queued(p) \cap (heap \cup cached) = {}
        /\ \A p, q \in Ports : p # q => queued(p) \cap queued(q) = {}
        /\ Blocks = heap \cup cached \cup UNION {queued(p) : p \in Ports}

(***************************************************************************)
(* Nobody sleeps beside work: a sender, or a wait group that waits to      *)
(* write, is in the queue of a full port only, a receiver or reading group *)
(* in that of an empty one.                                                *)
(***************************************************************************)
WaitersMustWait ==
    \A p \in Ports : handle[p] \in {"open", "deleted"} =>
        /\ m_SendCondition[p] # <<>> => Full(p)
        /\ m_ReceiveCondition[p] # <<>> => m_MessageCount[p] = 0

(***************************************************************************)
(* Every port is a bounded FIFO channel: what is sent is received once,    *)
(* whole and in order, whatever buffers it travels in.                     *)
(***************************************************************************)
Contents(p) ==
    IF handle[p] \in {"open", "deleted"}
    THEN [i \in 1..m_MessageCount[p] |-> content[Chain(m_FirstMsg[p], m_MessageCount[p])[i]]]
    ELSE <<>>

Channel == INSTANCE BoundedChannel WITH
              chan <- [p \in Ports |-> Contents(p)], got <- received,
              MaxCount <- m_MaxCount, NoMessage <- NULL

ImplementsChannel == Channel!Spec

\* A timed call returns, however many others compete for the port.
TimedCallReturns ==
    \A t \in Threads : call[t] # NoCall /\ call[t].deadline # "infinit" ~> call[t] = NoCall
=============================================================================
