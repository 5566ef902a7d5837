\* The same system; queries may run before the views are ready.
SPECIFICATION Spec
CONSTANTS
  Q3Dates = 2
  Q5Years = 2
  Q14Years = 2
  DefaultViews <- MCDefaultViews
  Configurations <- MCConfigurations
INVARIANT
  ViewsReadyBeforeQueries
