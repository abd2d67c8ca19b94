------------------------------ MODULE MCDotlock ------------------------------
EXTENDS Dotlock

\* All process slots on one machine.
OneNode == [p \in Procs |-> CHOOSE n \in Nodes : TRUE]
=============================================================================
