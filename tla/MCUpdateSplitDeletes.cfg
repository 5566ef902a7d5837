\* The same split: the keys to delete are not grouped by region.
SPECIFICATION Spec
CONSTANTS
  NRegions = 3
  Routines = 3
  FirstRegion = 1
  MaxOrders = 3
  MaxLong = 3
  MaxSize = 1
  Files <- MCFiles
INVARIANT
  DeletesGrouped
