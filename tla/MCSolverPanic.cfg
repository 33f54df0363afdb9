CONSTANTS
  Projects = {1, 2, 3, 4}
  Versions = {1, 2, 3}
  Revisions = {}
  PkgNames = {1, 2}
  Sources = {0, 1}
  CaseFold <- MCFold
  Worlds <- StaleWorlds
SPECIFICATION Spec
INVARIANT NoPanic
CHECK_DEADLOCK FALSE
