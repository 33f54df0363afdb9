CONSTANTS
  MaxFaults = 2
  Devices = {TRUE, FALSE}
SPECIFICATION Spec
INVARIANT SuccessMeansWritten
INVARIANT OldBackInPlace
INVARIANT OldSurvives
INVARIANT DotGitFollows
CHECK_DEADLOCK FALSE
