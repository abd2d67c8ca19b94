------------------------------- MODULE Lists -------------------------------
(***************************************************************************)
(* Removal from the linked lists of the daemons: the list is walked from   *)
(* its head, and what is not removed keeps its order.                      *)
(***************************************************************************)
EXTENDS Naturals, Sequences

\* What is kept of the first i elements of list s if those in X are removed.
KeptUpTo(s, X) ==
  LET kept[i \in 0..Len(s)] ==
        IF i = 0 THEN <<>>
        ELSE IF s[i] \in X THEN kept[i - 1] ELSE Append(kept[i - 1], s[i])
  IN  kept

\* The list s without the elements of X.
Without(s, X) == KeptUpTo(s, X)[Len(s)]
=============================================================================
