\* One client that leaves within the merge window of its last collection.
SPECIFICATION Spec
CONSTANTS
  c1 = c1
  Client = {c1}
  MergeWindow = 2
  Interval = 3
  TestDuration = 4
  Grace = 1
  IdGiven = TRUE
  MaxTime = 6
  MaxOps = 2
INVARIANT
  TotalTimeIsSumOfIntervals
