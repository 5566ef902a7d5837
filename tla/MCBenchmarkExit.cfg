\* One client whose query outlives the grace period.
SPECIFICATION Spec
CONSTANTS
  c1 = c1
  Client = {c1}
  MergeWindow = 1
  Interval = 2
  TestDuration = 2
  Grace = 1
  IdGiven = TRUE
  MaxTime = 4
  MaxOps = 2
INVARIANT
  FileBeforeExit
