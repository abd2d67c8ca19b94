-------------------------------- MODULE Lock --------------------------------
(***************************************************************************)
(* What a lock file promises to the programs that use it: a process gets   *)
(* the lock only while nobody has it, and has it until it gives it back or *)
(* dies; the next one may then get it, whatever the dead one left behind.  *)
(*                                                                         *)
(* The promise may be broken once, for instance by a race that the         *)
(* implementation accepts.  From then on several may have the lock.        *)
(***************************************************************************)
CONSTANT Procs

VARIABLES
  holders,  \* the processes that have the lock
  broken    \* the promise does not hold any more

Init == holders = {} /\ broken = FALSE

Acquire(p) ==
  /\ holders = {} \/ broken
  /\ holders' = holders \cup {p}
  /\ broken' = broken

\* The holder releases the lock or dies.
Release(p) ==
  /\ holders' = holders \ {p}
  /\ broken' = broken

\* The event that breaks the promise; a holder may die of it.
Break ==
  /\ broken' = TRUE
  /\ holders' \in SUBSET holders

Next == Break \/ \E p \in Procs : Acquire(p) \/ Release(p)

Spec == Init /\ [][Next]_<<holders, broken>>
=============================================================================
