---------------------------- MODULE UpdateSplit ----------------------------
(***************************************************************************)
(* splitUpdatesPerRoutineAndRegion (pgDataLoad.go): the orders of the      *)
(* update files, with their line items, line sizes and orders to delete,   *)
(* are grouped by region, and the groups, one region after the other, are  *)
(* dealt to the clients ("routines") in shares of the same size.           *)
(*                                                                         *)
(* An order is its place in the file, and so is the key to delete that     *)
(* goes with it. The slices of keys are the one place where the code       *)
(* appends to one slice and assigns to another, so those are modelled as   *)
(* Go has them: an array and a length, arrays shared when slices are.      *)
(***************************************************************************)
EXTENDS Integers, Sequences, SequencesExt

CONSTANTS
  NRegions,    \* nRegions, 5 in the code
  Routines,    \* N_CLIENTS
  FirstRegion, \* ID % nRegions
  Files        \* the contents of the update files

NoRegion == -1

RegionIds == 0..(NRegions - 1)

\* What matters of an order: its region, how many line items it has, and the
\* region of the order to delete, NoRegion above 1500000.
Order == [region : RegionIds, size : Nat, delRegion : {NoRegion} \cup RegionIds]

ASSUME SplitAssumption ==
  /\ NRegions \in Nat \ {0, 1} /\ Routines \in Nat \ {0}
  /\ FirstRegion \in RegionIds
  /\ \A f \in Files : f \in Seq(Order)

VARIABLES
  file,        \* the orders of the update files
  phase,
  pos,         \* i, the orders grouped so far
  startItem,   \* currStartItem
  orders, items, sizes,   \* ordersPerRegion, itemsPerRegion, lineSizesPerRegion
  dels,        \* deletesPerRegion: slices [arr, len]
  heap,        \* the arrays behind these slices
  routine,     \* i, the routine a share is dealt to
  region,      \* currRegion
  start, lineStart,       \* orderStart = orderFinish, lineStart = lineFinish
  left,        \* leftForRoutine
  dealt        \* routineOrders, routineItems, routineLineSizes, routineDelete

grouping == <<pos, startItem, orders, items, sizes, dels, heap>>
dealing == <<routine, region, start, lineStart, left, dealt>>
vars == <<file, phase, grouping, dealing>>

NOrders == Len(file)

\* lineItemUpds: the line items in the order of the file.
LineItemUpds ==
  FlattenSeq([i \in 1..NOrders |-> [k \in 1..file[i].size |-> <<i, k>>]])

\* make([]int32, 0, n): an array of zeros. A key is never zero.
Zeros(n) == [k \in 1..n |-> 0]

Cap(slice) == Len(heap[slice.arr])

\* Growing an array of few int32: at least two, and twice as many.
Grown(cap) == IF cap = 0 THEN 2 ELSE 2 * cap

Init ==
  /\ file \in Files
  /\ phase = "grouping"
  /\ pos = 0 /\ startItem = 0
  /\ orders = [r \in RegionIds |-> <<>>] /\ items = [r \in RegionIds |-> <<>>]
  /\ sizes = [r \in RegionIds |-> <<>>]
  /\ dels = [r \in RegionIds |-> [arr |-> r + 1, len |-> 0]]
  /\ heap = [r \in 1..NRegions |-> Zeros(Len(file) \div (NRegions - 1))]
  /\ routine = 0 /\ region = FirstRegion
  /\ start = 0 /\ lineStart = 0 /\ left = 0
  /\ dealt = [r \in 0..(Routines - 1) |->
                [orders |-> <<>>, items |-> <<>>, sizes |-> <<>>, dels |-> <<>>]]

-----------------------------------------------------------------------------
(* First, group by regions. *)

\* Bug-seeded: the array grows without what it held.
AppendKey_LosesOld(to, from, key) ==
  LET s == dels[from] IN
  IF s.len < Cap(s)
  THEN /\ heap' = [heap EXCEPT ![s.arr][s.len + 1] = key]
       /\ dels' = [dels EXCEPT ![to] = [s EXCEPT !.len = @ + 1]]
  ELSE /\ heap' = Append(heap, [Zeros(Grown(Cap(s))) EXCEPT ![s.len + 1] = key])
       /\ dels' = [dels EXCEPT ![to] = [arr |-> Len(heap) + 1, len |-> s.len + 1]]

\* deletesPerRegion[to] = append(deletesPerRegion[from], key)
AppendKey(to, from, key) ==
  LET s == dels[from] IN
  IF s.len < Cap(s)
  THEN /\ heap' = [heap EXCEPT ![s.arr][s.len + 1] = key]
       /\ dels' = [dels EXCEPT ![to] = [s EXCEPT !.len = @ + 1]]
  ELSE /\ heap' = Append(heap, SubSeq(heap[s.arr], 1, s.len) \o <<key>> \o
                                  Zeros(Grown(Cap(s)) - s.len - 1))
       /\ dels' = [dels EXCEPT ![to] = [arr |-> Len(heap) + 1, len |-> s.len + 1]]

\* Bug-seeded: the next order's items start one late.
NextItem_Skips(n) == startItem + n + 1

NextItem(n) == startItem + n

\* Bug-seeded: a region's newest order is put first.
Grouped_Reversed(seq, new) == new \o seq

Grouped(seq, new) == seq \o new

GroupOrder ==
  /\ phase = "grouping" /\ pos < NOrders
  /\ LET o == file[pos + 1]
         mine == SubSeq(LineItemUpds, startItem + 1, startItem + o.size)
     IN /\ orders' = [orders EXCEPT ![o.region] = Grouped(@, <<pos + 1>>)]
        /\ items' = [items EXCEPT ![o.region] = @ \o mine]
        /\ sizes' = [sizes EXCEPT ![o.region] = Append(@, o.size)]
        /\ startItem' = NextItem(o.size)
        /\ IF o.delRegion = NoRegion THEN UNCHANGED <<dels, heap>>
           ELSE AppendKey(o.delRegion, o.region, pos + 1)
  /\ pos' = pos + 1
  /\ UNCHANGED <<file, phase, dealing>>

EndGrouping ==
  /\ phase = "grouping" /\ pos = NOrders
  /\ phase' = "dealing"
  /\ UNCHANGED <<file, grouping, dealing>>

-----------------------------------------------------------------------------
(* Splitting by routines. *)

\* Bug-seeded: the last routine gets all of the remainder.
Share_LastTakesRest(r) ==
  NOrders \div Routines + (IF r = Routines - 1 THEN NOrders % Routines ELSE 0)

\* What a routine is to get.
Share(r) == NOrders \div Routines + (IF r < NOrders % Routines THEN 1 ELSE 0)

\* Orders a share still lacks when its region is exhausted.
LeftOver(wanted) ==
  IF wanted > Len(orders[region]) THEN wanted - Len(orders[region]) ELSE 0

\* Bug-seeded: every share takes its line items from the first one.
LineStart_Zero(finish, lineFinish) == 0

\* lineStart for the next share: at the start when it is from the next region.
LineStart(finish, lineFinish) == IF finish = Len(orders[region]) THEN 0 ELSE lineFinish

\* Bug-seeded: the last region is never come to.
NextRegion_OneShort(finish) ==
  IF finish = Len(orders[region]) THEN (region + 1) % (NRegions - 1) ELSE region

\* currRegion moves on when the region is exhausted.
NextRegion(finish) ==
  IF finish = Len(orders[region]) THEN (region + 1) % NRegions ELSE region

\* Deal orders from the current region until wanted, or until its end. Slicing
\* the keys past their length, within the array, is no error in Go.
Deal(wanted) ==
  LET finish == wanted - LeftOver(wanted)
      lineFinish == lineStart + SumFunction(SubSeq(sizes[region], start + 1, finish))
      s == dels[region]
      share == [orders |-> SubSeq(orders[region], start + 1, finish),
                items  |-> SubSeq(items[region], lineStart + 1, lineFinish),
                sizes  |-> SubSeq(sizes[region], start + 1, finish),
                dels   |-> SubSeq(heap[s.arr], start + 1, finish)]
      exhausted == finish = Len(orders[region])
  IN IF finish > Cap(s)
     THEN phase' = "panicked" /\ UNCHANGED <<file, grouping, dealing>>
     ELSE /\ dealt' = [dealt EXCEPT ![routine] =
                         [f \in DOMAIN share |-> @[f] \o share[f]]]
          /\ region' = NextRegion(finish)
          /\ start' = IF exhausted THEN 0 ELSE finish
          /\ lineStart' = LineStart(finish, lineFinish)
          /\ left' = LeftOver(wanted)
          /\ routine' = IF left' = 0 THEN routine + 1 ELSE routine
          /\ UNCHANGED <<file, phase, grouping>>

\* The first part of a routine's share.
DealShare ==
  /\ phase = "dealing" /\ routine < Routines /\ left = 0
  /\ Deal(start + Share(routine))

\* for leftForRoutine > 0
DealMore ==
  /\ phase = "dealing" /\ left > 0
  /\ Deal(start + left)

EndDealing ==
  /\ phase = "dealing" /\ routine = Routines
  /\ phase' = "done"
  /\ UNCHANGED <<file, grouping, dealing>>

Ended == phase \in {"done", "panicked"} /\ UNCHANGED vars

Next == GroupOrder \/ EndGrouping \/ DealShare \/ DealMore \/ EndDealing \/ Ended

Spec == Init /\ [][Next]_vars

\* One goroutine that calls nothing that blocks.
FairSpec == Spec /\ WF_vars(Next)

-----------------------------------------------------------------------------

TypeOK ==
  /\ phase \in {"grouping", "dealing", "done", "panicked"}
  /\ pos \in 0..NOrders /\ startItem \in 0..Len(LineItemUpds)
  /\ \A r \in RegionIds :
       /\ orders[r] \in Seq(1..NOrders) /\ Len(sizes[r]) = Len(orders[r])
       /\ dels[r].arr \in DOMAIN heap /\ dels[r].len \in 0..Cap(dels[r])
  /\ routine \in 0..Routines /\ region \in RegionIds
  /\ start \in 0..NOrders /\ lineStart \in 0..Len(LineItemUpds) /\ left \in 0..NOrders
  /\ DOMAIN dealt = 0..(Routines - 1)

\* The parts dealt to the routines, one after the other.
AllDealt(part) == FlattenSeq([r \in 1..Routines |-> dealt[r - 1][part]])

\* The orders of a region, in the order of the file.
OfRegion(r) ==
  FlattenSeq([i \in 1..NOrders |-> IF file[i].region = r THEN <<i>> ELSE <<>>])

\* The orders of the file, region by region from the first one.
ByRegion ==
  FlattenSeq([k \in 1..NRegions |-> OfRegion((FirstRegion + k - 1) % NRegions)])

\* Every order of the file is dealt to exactly one routine, and the regions are
\* dealt in turn: at any time, what is dealt is a beginning of ByRegion.
DealtByRegion ==
  /\ phase \in {"dealing", "done"} => IsPrefix(AllDealt("orders"), ByRegion)
  /\ phase = "done" => AllDealt("orders") = ByRegion

\* No routine has over one order more than another, and the first ones have it.
SharesEven ==
  phase = "done" =>
    \A r, t \in 0..(Routines - 1) :
      r < t => Len(dealt[r].orders) - Len(dealt[t].orders) \in {0, 1}

\* Whatever region it comes from, a routine's k-th line size is that of its
\* k-th order and its line items are those of its orders, in their order:
\* what the update stream of a client relies on to find an order's items.
ItemsFollowOrders ==
  \A r \in 0..(Routines - 1) :
    LET mine == dealt[r].orders IN
    /\ dealt[r].sizes = [k \in 1..Len(mine) |-> file[mine[k]].size]
    /\ dealt[r].items =
         FlattenSeq([k \in 1..Len(mine) |->
                       [n \in 1..file[mine[k]].size |-> <<mine[k], n>>]])

\* When each order comes with a key of its own region (what a dataset modified
\* for locality may be, README.md:84), the split does not panic and a routine's
\* k-th key is the one that came with its k-th order.
LocalFilesSplitWell ==
  (\A i \in 1..NOrders : file[i].delRegion = file[i].region) =>
    /\ phase # "panicked"
    /\ \A r \in 0..(Routines - 1) : dealt[r].dels = dealt[r].orders

\* The split ends, however many regions a share is taken from.
SplitEnds == <>(phase \in {"done", "panicked"})

\* After the grouping, the keys to delete are grouped by the regions of their
\* orders, each once and in order (pgDataLoad.go:449: "First, group by
\* regions"). Not so: the key is appended to the slice of the new order's
\* region and the result assigned to the region of the order to delete.
DeletesGrouped ==
  phase = "dealing" =>
    \A r \in RegionIds :
      SubSeq(heap[dels[r].arr], 1, dels[r].len) =
        SelectSeq([i \in 1..NOrders |-> i], LAMBDA i : file[i].delRegion = r)
=============================================================================
