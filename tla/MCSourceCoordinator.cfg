CONSTANTS
  Threads = {t1, t2, t3}
  None = None
  Names <- MCNames
  toFold <- MCtoFold
  sourceURL <- MCsourceURL
  Asked <- Paths
SPECIFICATION FairCoordinatorSpec
INVARIANT NoPanic
INVARIANT WaitedFor
INVARIANT OneGateway
PROPERTY EveryoneAnswered
CHECK_DEADLOCK FALSE
