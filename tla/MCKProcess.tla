----------------------------- MODULE MCKProcess -----------------------------
(* KProcess for TLC: parent starts child, which has two threads and starts grandchild. *)
EXTENDS KProcess

CONSTANTS parent, child, grandchild, p1, a1, a2, b1

Owners == [t \in Threads |-> IF t = p1 THEN parent ELSE IF t = b1 THEN grandchild ELSE child]
Mains == [q \in User |-> IF q = parent THEN p1 ELSE IF q = grandchild THEN b1 ELSE a1]
Line == [q \in User |-> IF q = parent THEN {child} ELSE IF q = child THEN {grandchild} ELSE {}]

\* The parent waits for every change of its child, the child for the exit of any child.
Exits == [id : {ANY}, options : {{"EXITED"}, {"EXITED", "NOHANG"}}]
Changes == [id : {child}, options : {{"EXITED", "STOPPED", "CONTINUED"}}]
LineWaits == [q \in User |-> IF q = parent THEN Changes ELSE IF q = child THEN Exits ELSE {}]
=============================================================================
