CONSTANTS
  Projects = {1, 2, 3, 4}
  Versions = {1, 2, 3}
  Revisions = {3}
  PkgNames = {1, 2}
  Sources = {0, 1}
  CaseFold <- MCFold
  Worlds <- RunWorlds
SPECIFICATION FairSpec
INVARIANT SolveInv
INVARIANT SolutionSound
INVARIANT SelectedAllowed
INVARIANT DepsMirrorSelection
INVARIANT RequiredCovered
INVARIANT OneCaseVariant
PROPERTY Termination
CHECK_DEADLOCK FALSE
