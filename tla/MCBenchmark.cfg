\* Two clients, two ticks before the test ends, two operations each; a collection
\* one unit after the last is merged into it. Any step may come late; with no grace
\* period main may return at any time after the test.
SPECIFICATION FairSpec
CONSTANTS
  c1 = c1
  c2 = c2
  Client = {c1, c2}
  MergeWindow = 2
  Interval = 2
  TestDuration = 4
  Grace = 0
  IdGiven = FALSE
  MaxTime = 4
  MaxOps = 2
INVARIANTS
  TypeOK
  Conservation
  OneIntervalPerTick
  ReportComplete
  TotalWithinRun
  TotalIsSumOfIntervals
  IntervalsTile
  RowsAgreeWithTotal
PROPERTY
  Terminates
