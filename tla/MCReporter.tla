----------------------------- MODULE MCReporter -----------------------------
\* Two transmitters and one slot: a list of changes that is full, and a slot
\* used again by a node the tables have no room for.
EXTENDS Reporter

CONSTANTS a, b
MCNodeOf == [e \in {1, 2} |-> IF e = 1 THEN a ELSE b]
=============================================================================
