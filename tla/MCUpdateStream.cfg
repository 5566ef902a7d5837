\* Shares of up to five orders with one or three items each; updates one at a
\* time and in batches of two and of three.
SPECIFICATION Spec
CONSTANTS
  CycleSizes = {1, 2, 3}
  Layouts <- MCLayouts
  MaxOrders = 5
  LineSizes = {1, 3}
INVARIANTS
  TypeOK
  BatchInRange
  WindowAligned
PROPERTIES
  NoRepeatInWalk
  WalkComplete
