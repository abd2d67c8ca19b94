CONSTANTS
  Owners = {11, 12}
  Timeouts <- MCTimeouts
  Jitter = 36
  MaxLooks = 12
  c1 = c1
  c2 = c2
  a1 = a1
  a2 = a2
  a3 = a3
  None = None
  Clients = {c1, c2}
  Agents = {a1, a2, a3}
  MaxStops = 1
  MaxOdd = 1
SPECIFICATION BothSpec
CHECK_DEADLOCK FALSE
INVARIANT SleepsExactlyTimeout
PROPERTIES TimedTakeReturns SocketKept ClientServed OrphansEnd
