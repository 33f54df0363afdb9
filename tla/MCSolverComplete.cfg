CONSTANTS
  Projects = {1, 2, 3}
  Versions = {1, 2}
  Revisions = {}
  PkgNames = {1, 2}
  Sources = {0}
  CaseFold <- MCFold
  Worlds <- GeneralWorlds
SPECIFICATION Spec
INVARIANT FailureJustified
CHECK_DEADLOCK FALSE
