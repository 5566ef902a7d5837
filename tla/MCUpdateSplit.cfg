\* Three routines and regions: shares of no, one and two orders, taken from one
\* region, from two, and across a region that is empty.
SPECIFICATION FairSpec
CONSTANTS
  NRegions = 3
  Routines = 3
  FirstRegion = 1
  MaxOrders = 3
  MaxLong = 5
  MaxSize = 2
  Files <- MCFiles
INVARIANTS
  TypeOK
  DealtByRegion
  SharesEven
  ItemsFollowOrders
  LocalFilesSplitWell
PROPERTY
  SplitEnds
