----------------------------- MODULE WaitQueue -----------------------------
(***************************************************************************)
(* Wait lists of the kernel (KThreadWaitList): the threads whose stack-    *)
(* allocated wait node is linked, in the order they will be woken.  A      *)
(* thread has at most one node in a given list.                            *)
(***************************************************************************)
EXTENDS Integers, Sequences

Linked(queue) == {queue[i] : i \in DOMAIN queue}

\* KThreadWaitNode::Detatch: unlink t's node, if it is linked.
Detatch(queue, t) ==
    IF t \notin Linked(queue) THEN queue
    ELSE LET n == CHOOSE n \in DOMAIN queue : queue[n] = t
         IN  [i \in 1..(Len(queue) - 1) |-> IF i < n THEN queue[i] ELSE queue[i + 1]]

\* Those of a list that are in a set, in their order.
Those(list, set) ==
    LET upTo[n \in 0..Len(list)] ==
            IF n = 0 THEN <<>>
            ELSE IF list[n] \in set THEN Append(upTo[n-1], list[n]) ELSE upTo[n-1]
    IN  upTo[Len(list)]

(***************************************************************************)
(* wakeup_wait_queue: the first maxCount nodes are unlinked (all of them   *)
(* if maxCount is 0), whether or not their thread is still asleep.         *)
(***************************************************************************)
PopCount(queue, maxCount) ==
    IF maxCount = 0 \/ maxCount > Len(queue) THEN Len(queue) ELSE maxCount
Popped(queue, maxCount) == {queue[i] : i \in 1..PopCount(queue, maxCount)}
Remaining(queue, maxCount) == SubSeq(queue, PopCount(queue, maxCount) + 1, Len(queue))

\* The thread states after it: those popped that slept or waited are ready.
Woken(state, threads) ==
    [t \in DOMAIN state |->
        IF t \in threads /\ state[t] \in {"Waiting", "Sleeping"} THEN "Ready"
                                                                ELSE state[t]]
=============================================================================
