\* A client that sends the tables to PostgreSQL never gets to its benchmark.
SPECIFICATION FairSpec
CONSTANT
  Schedules <- MCSchedules
  Inputs <- MCInputs
PROPERTY
  LoadAndSendEnds
CHECK_DEADLOCK FALSE
