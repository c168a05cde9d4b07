------------------------------ MODULE MCQueue ------------------------------
(* Queue on small instances, in which every task has the same name.        *)
EXTENDS Queue

CONSTANT n1

MCOneName == [t \in Tasks |-> n1]
=============================================================================
