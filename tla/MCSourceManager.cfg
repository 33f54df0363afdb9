CONSTANTS
  Callers = {c1, c2}
  CallInfos = {i1, i2}
  MaxHandlers = 2
SPECIFICATION FairSpec
INVARIANT CountsExact
INVARIANT ReleaseWaits
INVARIANT NoPanic
PROPERTY ReleaseReturns
PROPERTY HandlersEnd
CHECK_DEADLOCK FALSE
