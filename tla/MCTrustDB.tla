------------------------------ MODULE MCTrustDB ------------------------------
(***************************************************************************)
(* An instance of TrustDB for TLC: all keys fall into one hash slot, so    *)
(* that fingerprints, like processes, are interchangeable.                 *)
(***************************************************************************)
EXTENDS TrustDB, TLC

OneSlot(f) == "s"

\* A damaged database is not followed any further: the properties say nothing
\* about it.
Undamaged == ~Damaged

Symmetry == Permutations(Procs) \cup Permutations(Fprs)
=============================================================================
