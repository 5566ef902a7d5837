--------------------------- MODULE MCUpdateStream ---------------------------
(* UpdateStream over every share of up to MaxOrders orders.                 *)
EXTENDS UpdateStream

LOCAL INSTANCE FiniteSetsExt

CONSTANTS
  MaxOrders,    \* bound: the orders of a share
  LineSizes     \* bound: the numbers of items of an order

\* The share with the given numbers of items: entry i sums the first i sizes.
LayoutOf(n, sizes) ==
  [n |-> n, start |-> [i \in 0..n |-> MapThenSumSet(LAMBDA j : sizes[j], 1..i)]]

MCLayouts ==
  UNION {{LayoutOf(n, sizes) : sizes \in [1..n -> LineSizes]} : n \in 1..MaxOrders}
=============================================================================
