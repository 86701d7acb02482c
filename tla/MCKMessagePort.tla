-------------------------- MODULE MCKMessagePort ---------------------------
EXTENDS KMessagePort
CONSTANTS p, q
Capacities == [x \in Ports |-> IF x = p THEN 2 ELSE 1]
=============================================================================
