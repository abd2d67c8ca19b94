---------------------------- MODULE MCAgentCache ----------------------------
(* Instances of AgentCache for TLC. *)
EXTENDS AgentCache, TLC

\* The default, and no limit of its own (gpg-preset-passphrase).
DefaultAndNone == {0, -1}

Symmetry == Permutations(Slots) \cup Permutations(Keys)
=============================================================================
