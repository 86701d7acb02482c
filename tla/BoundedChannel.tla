--------------------------- MODULE BoundedChannel ---------------------------
(***************************************************************************)
(* What a message port promises: a bounded first-in first-out channel.  A  *)
(* message is appended whole when there is room, and handed to exactly one *)
(* receiver, in order; only the end of the port may drop messages.         *)
(***************************************************************************)
EXTENDS Naturals, Sequences

CONSTANTS Ports, MaxCount, Messages, NoMessage

VARIABLES chan,     \* the messages in each port, oldest first
          got       \* the message this step handed to a receiver, if any

vars == <<chan, got>>

Init == chan = [p \in Ports |-> <<>>] /\ got = NoMessage

Send(p, m) == /\ Len(chan[p]) < MaxCount[p]
              /\ chan' = [chan EXCEPT ![p] = Append(@, m)]
              /\ got' = NoMessage

Receive(p) == /\ chan[p] # <<>>
              /\ got' = Head(chan[p])
              /\ chan' = [chan EXCEPT ![p] = Tail(@)]

Destroy(p) == chan' = [chan EXCEPT ![p] = <<>>] /\ got' = NoMessage

\* The receiver goes on with the message.
Taken == got' = NoMessage /\ UNCHANGED chan

Next == \/ \E p \in Ports : \/ \E m \in Messages : Send(p, m)
                            \/ Receive(p)
                            \/ Destroy(p)
        \/ Taken

Spec == Init /\ [][Next]_vars
=============================================================================
