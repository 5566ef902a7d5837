\* Both ways to load, with and without updates. A client that sends the tables
\* stops for good when it comes to the customers, so deadlock is not checked.
SPECIFICATION FairSpec
CONSTANT
  Schedules <- MCSchedules
  Inputs <- MCInputs
INVARIANTS
  TypeOK
  SentInOrder
  SplitHasRegions
  BenchmarkHasData
  StartFollowsSettings
PROPERTIES
  LoadEnds
  ImplementsLoadOutcome
CHECK_DEADLOCK FALSE
