CONSTANTS
  Versions = {v1}
  Revs = {r1, r2}
  Roots = {p1}
  GopkginMajor = {v1}
  Kinds = {"git", "gopkgin", "hg"}
  Miss = Miss
  MaxChanges = 1
  MaxFaults = 1
  MaxCrashes = 1
SYMMETRY Symmetry
SPECIFICATION Spec
INVARIANT BitsTrue
INVARIANT ListFresh
INVARIANT TreesTrue
PROPERTY Answered
CHECK_DEADLOCK FALSE
