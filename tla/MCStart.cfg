CONSTANTS
  c1 = c1
  a1 = a1
  a2 = a2
  None = None
  Clients = {c1}
  Agents = {a1, a2}
  MaxStops = 1
  MaxOdd = 0
SPECIFICATION FairSpec
CHECK_DEADLOCK FALSE
PROPERTY ShutdownEnds
