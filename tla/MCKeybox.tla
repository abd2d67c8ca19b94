------------------------------ MODULE MCKeybox ------------------------------
(***************************************************************************)
(* Instances of Keybox for TLC.                                            *)
(***************************************************************************)
EXTENDS Keybox

CONSTANTS k1, k2

\* No file yet, or two keys: deleting the first one and compressing moves the
\* second one to its place.
SomeFiles == {<<>>, <<k1, k2>>}
=============================================================================
