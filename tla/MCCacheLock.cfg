CONSTANTS
  Procs = {p1, p2, p3}
  None = None
  MaxCrashes = 2
SPECIFICATION FairLockSpec
INVARIANT ExclusiveUnlessRobbed
PROPERTY EveryoneServed
CHECK_DEADLOCK FALSE
