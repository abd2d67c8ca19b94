CONSTANTS
  p1 = p1
  p2 = p2
  p3 = p3
  n1 = n1
  Procs = {p1, p2, p3}
  Nodes = {n1}
  Node <- OneNode
  MaxInodes = 1
  MaxFaults = 1
  NoIno = NoIno
SPECIFICATION FairSpec
INVARIANTS TypeOK MutexWithoutFaults CleanExit RaceNeedsTwoCleaners
PROPERTIES StaleLockRemoved LockUntilFault LockUntilRace
