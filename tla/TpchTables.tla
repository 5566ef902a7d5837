----------------------------- MODULE TpchTables -----------------------------
(***************************************************************************)
(* The tables of orders and of their items as the clients' updates see     *)
(* them: what PostgreSQL does with an insert or a delete, given the keys,  *)
(* references and trigger the repository declares. There are two ways to   *)
(* have the tables: SendCreateTables (pgDataLoad.go) makes deletes of      *)
(* orders cascade to their items, alterTables.sql does not.                *)
(*                                                                         *)
(* A statement is applied as a whole or not at all. One that violates a    *)
(* key or a reference is refused.                                          *)
(***************************************************************************)
EXTENDS Integers, FiniteSetsExt

\* The rows of line_items are pairs of an order and a number.
OrderOf(i) == i[1]

ItemsOf(o, is) == {i \in is : OrderOf(i) = o}

\* The sum of the quantities, here the numbers, of some items.
Quantity(is) == SumFunction([i \in is |-> i[2]])

\* Bug-seeded: the trigger fires once for each statement.
Triggered_PerStatement(d, is) ==
  [o \in DOMAIN d.sum |->
     IF ItemsOf(o, is) = {} THEN d.sum[o]
       ELSE d.sum[o] + (CHOOSE i \in ItemsOf(o, is) : TRUE)[2]]

\* update_sum_quantity, FOR EACH ROW that is inserted.
Triggered(d, is) ==
  [o \in DOMAIN d.sum |->
     IF ItemsOf(o, is) = {} THEN d.sum[o] ELSE d.sum[o] + Quantity(ItemsOf(o, is))]

\* INSERT INTO orders: refused if a key is taken. A new order has the sum 0.
WithOrders(d, os) ==
  IF os \cap d.orders = {}
    THEN [orders |-> d.orders \cup os, items |-> d.items,
          sum |-> [o \in DOMAIN d.sum |-> IF o \in os THEN 0 ELSE d.sum[o]]]
    ELSE d

\* INSERT INTO line_items: refused if a key is taken or an order is missing.
WithItems(d, is) ==
  IF is \cap d.items = {} /\ \A i \in is : OrderOf(i) \in d.orders
    THEN [orders |-> d.orders, items |-> d.items \cup is, sum |-> Triggered(d, is)]
    ELSE d

\* Bug-seeded: the items stay when their orders go.
WithoutOrders_KeepsItems(d, os, cascade) == [d EXCEPT !.orders = @ \ os]

\* DELETE FROM orders: takes their items along, or is refused if there are any.
WithoutOrders(d, os, cascade) ==
  LET gone == {i \in d.items : OrderOf(i) \in os} IN
  IF cascade \/ gone = {}
    THEN [orders |-> d.orders \ os, items |-> d.items \ gone, sum |-> d.sum]
    ELSE d
=============================================================================
