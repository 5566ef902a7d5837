\* Three goroutines for q3, of which it waits for two, and two each for q5 and q14.
SPECIFICATION FairSpec
CONSTANTS
  Q3Dates = 2
  Q5Years = 2
  Q14Years = 2
  DefaultViews <- MCDefaultViews
  Configurations <- MCConfigurations
INVARIANTS
  TypeOK
  AwaitedAreCreated
  ReportIsHonest
  MissingViewsAreExplained
PROPERTY
  EveryoneFinishes
