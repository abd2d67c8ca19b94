CONSTANTS
  s1 = s1
  s2 = s2
  k1 = k1
  k2 = k2
  Slots = {s1, s2}
  Keys = {k1, k2}
  Sessions = {0}
  Modes = {"user", "pin"}
  TTLs <- DefaultAndNone
  DefTTL = 1
  DefTTLData = 1
  MaxTTL = 2
  UnusedTTL = 1
  TPS = 2
  Encrypts = {TRUE, FALSE}
  MaxLate = 1
  LoopFirst = TRUE
  MaxTime = 6
SPECIFICATION Spec
CHECK_DEADLOCK FALSE
SYMMETRY Symmetry
INVARIANTS TypeOK TimersAccurate SecretsHaveTimers MaxLifetime
PROPERTY PinsDoNotExpire
