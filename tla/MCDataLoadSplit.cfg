\* The updates may be split before the orders are built.
SPECIFICATION Spec
CONSTANT
  Schedules <- MCSchedules
  Inputs <- MCInputs
INVARIANT
  SplitReadsBuiltTables
CHECK_DEADLOCK FALSE
