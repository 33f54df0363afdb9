CONSTANTS
  r1 = r1
  r2 = r2
  m1 = m1
  t1 = t1
  t2 = t2
  l1 = l1
  Versions = {u1}
  Revs = {r1, r2}
  TreesOf <- MCTreesOf
  InfosOf <- MCInfosOf
  NoLock = NoLock
  Miss = Miss
  MaxClock = 1
  MaxFaults = 1
SPECIFICATION Spec
INVARIANT LevelsAgree
PROPERTY IsPersistentCache
CHECK_DEADLOCK FALSE
