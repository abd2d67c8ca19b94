----------------------------- MODULE MCCardApp -----------------------------
EXTENDS CardApp, TLC

Symmetry == Permutations(Sessions)

\* The token is known from an earlier connection, the card is not yet.
TokenKnown == <<"y">>

\* A token with two applications and a card with one.
TokenAndCard == [y |-> <<"openpgp", "piv">>, g |-> <<"openpgp">>]

Cmd(cmd, app, sn, all) == [cmd |-> cmd, app |-> app, sn |-> sn, all |-> all]

\* Commands with the arguments that make a difference.
SomeCmds ==
    { Cmd("serialno", None, None, TRUE), Cmd("serialno", "piv", "y", FALSE),
      Cmd("serialno", None, "g", FALSE),
      Cmd("op", "openpgp", None, FALSE), Cmd("op", None, None, FALSE),
      Cmd("keyop", "piv", "y", FALSE), Cmd("keyinfo", "piv", "y", FALSE),
      Cmd("apdu", None, None, FALSE), Cmd("switchapp", "piv", None, FALSE),
      Cmd("apps", None, None, FALSE), Cmd("allapps", None, None, FALSE),
      Cmd("switchcard", None, "g", FALSE),
      Cmd("restart", None, None, FALSE), Cmd("reset", None, None, FALSE) }
=============================================================================
