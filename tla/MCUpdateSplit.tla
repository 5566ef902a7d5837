--------------------------- MODULE MCUpdateSplit ---------------------------
(* UpdateSplit over every file of a few orders, and over longer ones whose  *)
(* orders are of one and two line items in turn and come with a key of the  *)
(* same region or of the next.                                              *)
EXTENDS UpdateSplit

CONSTANTS MaxOrders, MaxSize, MaxLong

MCOrder == [region : 0..(NRegions - 1), size : 1..MaxSize,
            delRegion : {NoRegion} \cup 0..(NRegions - 1)]

Short(n) == [1..n -> MCOrder]

LongFile(n, reg, shift) ==
  [i \in 1..n |-> [region |-> reg[i], size |-> 1 + (i % MaxSize),
                   delRegion |-> (reg[i] + shift[i]) % NRegions]]

Long(n) == {LongFile(n, reg, shift) : reg \in [1..n -> 0..(NRegions - 1)],
                                      shift \in [1..n -> {0, 1}]}

MCFiles == UNION {Short(n) : n \in 1..MaxOrders} \cup
           UNION {Long(n) : n \in (MaxOrders + 1)..MaxLong}
=============================================================================
