CONSTANTS
  s1 = s1
  s2 = s2
  k1 = k1
  k2 = k2
  Slots = {s1, s2}
  Keys = {k1, k2}
  Sessions = {0}
  Modes = {"normal"}
  TTLs = {2}
  DefTTL = 1
  DefTTLData = 1
  MaxTTL = 2
  UnusedTTL = 1
  TPS = 1
  Encrypts = {TRUE}
  MaxLate = 1
  LoopFirst = FALSE
  MaxTime = 3
SPECIFICATION Spec
CHECK_DEADLOCK FALSE
INVARIANT SecretsHaveTimers
