\* Two clients, updates and queries one at a time and two at a time; three
\* operations of the first: enough for its walk to start again; one of the other.
\* The operations are bounded and a panic ends the process, so the system stops.
SPECIFICATION Spec
CONSTANTS
  Clients = {1, 2}
  Updaters = {1, 2}
  Shares <- MCShares
  DeleteKeys <- MCDeleteKeys
  NoOrder = NoOrder
  ZeroItems = 1
  BaseItems <- MCBaseItems
  CycleSizes = {1, 2}
  NQueries = 3
  MaxOps <- MCMaxOps
CHECK_DEADLOCK FALSE
INVARIANTS
  TypeOK
  ItemsAllOrNone
  SumIsOfItems
  ReportNeverUnderstates
  ReportMatchesTables
  QueriesRotate
PROPERTIES
  WalksFollowUpdateStream
  OperationsEnd
