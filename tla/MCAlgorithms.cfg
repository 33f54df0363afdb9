CONSTANTS
  ImportRoot <- MCRoot
  Inputs <- MCInputs
  HiddenNames = {"_b"}
  LongerNames <- MCLongerNames
  VersionLists <- MCVersionLists
  Constraints <- MCConstraints
  OtherVersions <- MCOtherVersions
  Orders <- MCOrders
  Locks <- MCLocks
  Trees <- MCTrees
  PackageSets <- MCPackageSets
SPECIFICATION ASpec
INVARIANT ReachRight
INVARIANT VersionsRight
INVARIANT DiffRight
INVARIANT PruneRight
CHECK_DEADLOCK FALSE
