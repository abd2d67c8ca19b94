CONSTANTS
  s1 = s1
  s2 = s2
  Sessions = {s1, s2}
  MaxCtxs = 3
  MaxDaemons = 2
  Faults = {"thread", "homedir", "kill"}
SPECIFICATION FairSpec
INVARIANTS TypeOK OneUser NoUseAfterRelease NoDeadContext NoLeak PrimaryOpen
PROPERTY DeadDaemonForgotten
