---------------------------- MODULE UpdateStream ----------------------------
(***************************************************************************)
(* How a client walks through its share of the updates (singleUpdateHelper *)
(* and multiUpdateHelper in pgQuery.go): a cursor over its orders, OrderI, *)
(* and a window over the items of all of them, LineI to LineF, which no    *)
(* index ties to the orders, only sums of LineSizes. At the end the walk   *)
(* starts again.                                                           *)
(*                                                                         *)
(* A layout is a client's share: its n orders and, for each i, the number  *)
(* of items of the first i of them, so that the sum of LineSizes[a:b] is a *)
(* difference of two entries.                                              *)
(***************************************************************************)
EXTENDS Integers

CONSTANTS
  CycleSizes,   \* the values QUERIES_PER_CYCLE may be configured to
  Layouts       \* the shares a client may be given

\* Every order has a number of items, none of them negative.
IsLayout(l) ==
  /\ l.n \in Nat
  /\ l.start \in [0..l.n -> Nat]
  /\ l.start[0] = 0
  /\ \A i \in 0..l.n, j \in 0..l.n : i <= j => l.start[i] <= l.start[j]

ASSUME CycleSizesAssumption == CycleSizes \subseteq Nat \ {0}
ASSUME LayoutsAssumption == \A l \in Layouts : IsLayout(l)

VARIABLES
  perCycle,      \* QUERIES_PER_CYCLE
  layout,        \* client.UpdData
  orderI,        \* OrderI
  lineI, lineF,  \* LineI, LineF
  seen           \* history: the orders sent since the walk last started

config == <<perCycle, layout>>
vars == <<config, orderI, lineI, lineF, seen>>

\* Bug-seeded: the sum is taken the wrong way round.
ItemsIn_Swapped(a, b) == layout.start[a] - layout.start[b]

\* The sum of LineSizes[a:b].
ItemsIn(a, b) == layout.start[b] - layout.start[a]

\* The orders of the next update.
Batch == orderI..(orderI + perCycle - 1)

\* A client with fewer orders than QUERIES_PER_CYCLE does not come this far:
\* the sum of its first LineSizes is out of range.
Init ==
  /\ perCycle \in CycleSizes
  /\ layout \in {l \in Layouts : perCycle <= l.n}
  /\ orderI = 0
  /\ lineI = 0 /\ lineF = ItemsIn(0, perCycle)
  /\ seen = {}

\* The orders of the batch go out with the update.
Sent == seen' = IF orderI = 0 THEN Batch ELSE seen \cup Batch

\* Bug-seeded: the window is not taken back when the walk starts again.
RestartSingle_KeepsWindow ==
  /\ orderI' = 0 /\ lineI' = lineF /\ lineF' = lineF + ItemsIn(0, 1)

\* Bug-seeded: the walk starts again at the second order.
RestartSingle_SkipsFirst ==
  /\ orderI' = 1 /\ lineI' = 0 /\ lineF' = ItemsIn(0, 1)

RestartSingle ==
  /\ orderI' = 0 /\ lineI' = 0 /\ lineF' = ItemsIn(0, 1)

\* singleUpdateHelper, for QUERIES_PER_CYCLE = 1.
SingleUpdate ==
  /\ perCycle = 1
  /\ Sent
  /\ IF orderI + 1 = layout.n
       THEN RestartSingle
       ELSE /\ orderI' = orderI + 1
            /\ lineI' = lineF
            /\ lineF' = lineF + ItemsIn(orderI + 1, orderI + 2)
  /\ UNCHANGED config

\* Bug-seeded: the walk starts again after every other batch.
MultiRestarts_TooEarly == orderI + 3 * perCycle >= layout.n

\* The walk starts again when the next batch does not fit, and already when
\* it fits exactly: the last batch is left out.
MultiRestarts == orderI + 2 * perCycle >= layout.n

\* Bug-seeded: batches overlap by one order.
Advanced_Overlaps == orderI + perCycle - 1

Advanced == orderI + perCycle

\* multiUpdateHelper, for any other QUERIES_PER_CYCLE.
MultiUpdate ==
  /\ perCycle # 1
  /\ Sent
  /\ IF MultiRestarts
       THEN orderI' = 0 /\ lineI' = 0 /\ lineF' = ItemsIn(0, perCycle)
       ELSE /\ orderI' = Advanced
            /\ lineI' = lineF
            /\ lineF' = lineF + ItemsIn(Advanced, Advanced + perCycle)
  /\ UNCHANGED config

Next == SingleUpdate \/ MultiUpdate

Spec == Init /\ [][Next]_vars

-----------------------------------------------------------------------------

TypeOK ==
  /\ perCycle \in CycleSizes /\ layout \in Layouts
  /\ orderI \in Nat /\ lineI \in Nat /\ lineF \in Nat
  /\ seen \subseteq 0..(layout.n - 1)

\* Every slice an update takes of its share is in range: the next batch of
\* orders exists, in the first walk and in every later one.
BatchInRange == orderI + perCycle <= layout.n

\* The items of the next update are the items of its orders: no order is sent
\* with another one's items, however often the walk has started again.
WindowAligned ==
  /\ lineI = layout.start[orderI]
  /\ lineF = layout.start[orderI + perCycle]

\* No order is sent twice in one walk (it would violate the key of orders).
NoRepeatInWalk == [][orderI # 0 => Batch \cap seen = {}]_vars

\* When the walk starts again every order has been sent, but for at most the
\* last QUERIES_PER_CYCLE of them if updates are batched.
WalkComplete ==
  [][orderI' = 0 =>
       \A o \in (0..(layout.n - 1)) \ seen' : perCycle > 1 /\ o >= layout.n - perCycle]_vars
=============================================================================
