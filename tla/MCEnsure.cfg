CONSTANTS
  a = a
  b = b
  ImportRoot = ImportRoot
  Projects = {a, b}
  Versions = {1, 2}
  Commands <- MCCommands
  Edits <- MCEdits
  MaxCommands = 3
  MaxFaults = 2
  concurrentWriters = 1
SPECIFICATION Spec
INVARIANT EnsureGetsInSync
INVARIANT AddTakesEffect
PROPERTY VendorWhole
PROPERTY LockPutBack
PROPERTY CommandsEnd
CHECK_DEADLOCK FALSE
