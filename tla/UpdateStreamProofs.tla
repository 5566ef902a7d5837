------------------------- MODULE UpdateStreamProofs -------------------------
(* The walk of a client through its updates, for every share of the updates *)
(* and every QUERIES_PER_CYCLE.                                             *)
EXTENDS UpdateStream, TLAPS

\* The cursor is in range, the window is on the cursor, and what has been sent
\* since the walk started is exactly what lies before the cursor.
IInv ==
  /\ TypeOK
  /\ perCycle \in Nat \ {0}
  /\ IsLayout(layout)
  /\ BatchInRange
  /\ WindowAligned
  /\ orderI # 0 => seen = 0..(orderI - 1)

\* The sum of LineSizes[a:b] takes the window from entry a to entry b.
LEMMA ItemsInRange ==
  ASSUME IsLayout(layout), NEW a \in 0..layout.n, NEW b \in 0..layout.n, a <= b
  PROVE  /\ layout.start[a] \in Nat /\ layout.start[b] \in Nat
         /\ ItemsIn(a, b) \in Nat
         /\ layout.start[a] + ItemsIn(a, b) = layout.start[b]
<1>1. layout.start[a] \in Nat /\ layout.start[b] \in Nat /\ layout.start[a] <= layout.start[b]
  BY DEF IsLayout
<1> QED BY <1>1 DEF ItemsIn

\* The batch of a step, and all that is sent before it, are orders of the share.
LEMMA SentInRange ==
  ASSUME IInv, Sent
  PROVE  seen' = 0..(orderI + perCycle - 1) /\ seen' \subseteq 0..(layout.n - 1)
<1>1. /\ orderI \in Nat /\ perCycle \in Nat \ {0} /\ layout.n \in Nat
      /\ orderI + perCycle <= layout.n
  BY DEF IInv, TypeOK, BatchInRange, IsLayout
<1>2. seen' = 0..(orderI + perCycle - 1)
  <2>1. CASE orderI = 0
    BY <2>1 DEF Sent, Batch
  <2>2. CASE orderI # 0
    <3>1. seen' = (0..(orderI - 1)) \cup (orderI..(orderI + perCycle - 1))
      BY <2>2 DEF Sent, Batch, IInv
    <3> QED BY <1>1, <3>1
  <2> QED BY <2>1, <2>2
<1> QED BY <1>1, <1>2

\* A step to position p of the walk, with the window there, keeps IInv.
LEMMA MoveTo ==
  ASSUME IInv, Sent, UNCHANGED config,
         NEW p \in Nat, p + perCycle <= layout.n,
         orderI' = p, p # 0 => p = orderI + perCycle,
         lineI' = layout.start[p], lineF' = lineI' + ItemsIn(p, p + perCycle)
  PROVE  IInv'
<1>1. perCycle' = perCycle /\ layout' = layout /\ IsLayout(layout)
  BY DEF config, IInv
<1>2. p \in 0..layout.n /\ p + perCycle \in 0..layout.n /\ p <= p + perCycle
  BY DEF IInv, IsLayout
<1>3. /\ layout.start[p] \in Nat /\ layout.start[p + perCycle] \in Nat
      /\ lineF' = layout.start[p + perCycle]
  BY <1>1, <1>2, ItemsInRange
<1>4. seen' = 0..(orderI + perCycle - 1) /\ seen' \subseteq 0..(layout.n - 1)
  BY SentInRange
<1>5. TypeOK'
  BY <1>1, <1>3, <1>4 DEF IInv, TypeOK
<1>6. BatchInRange' /\ WindowAligned'
  BY <1>1, <1>3 DEF BatchInRange, WindowAligned
<1>7. orderI' # 0 => seen' = 0..(orderI' - 1)
  <2>1. orderI \in Nat /\ perCycle \in Nat /\ orderI' \in Nat
    BY DEF IInv, TypeOK
  <2> QED BY <1>4, <2>1
<1>8. (perCycle \in Nat \ {0})' /\ IsLayout(layout)'
  BY <1>1 DEF IInv, IsLayout
<1> QED BY <1>5, <1>6, <1>7, <1>8 DEF IInv

\* The three parts of an inductive invariant.
LEMMA InitIInv == Init => IInv
<1> SUFFICES ASSUME Init PROVE IInv OBVIOUS
<1>1. perCycle \in Nat \ {0} /\ layout \in Layouts /\ IsLayout(layout) /\ perCycle <= layout.n
  BY CycleSizesAssumption, LayoutsAssumption DEF Init
<1>2. 0 \in 0..layout.n /\ perCycle \in 0..layout.n /\ 0 <= perCycle /\ layout.start[0] = 0
  BY <1>1 DEF IsLayout
<1>3. lineF \in Nat /\ lineF = layout.start[perCycle]
  BY <1>1, <1>2, ItemsInRange DEF Init
<1> QED BY <1>1, <1>2, <1>3 DEF Init, IInv, TypeOK, BatchInRange, WindowAligned

\* Both kinds of update move the cursor as MoveTo does.
LEMMA StepIInv == IInv /\ [Next]_vars => IInv'
<1> SUFFICES ASSUME IInv, [Next]_vars PROVE IInv' OBVIOUS
<1>1. /\ orderI \in Nat /\ perCycle \in Nat \ {0} /\ layout.n \in Nat
      /\ orderI + perCycle <= layout.n /\ lineF = layout.start[orderI + perCycle]
      /\ layout.start[0] = 0 /\ IsLayout(layout)
  BY DEF IInv, TypeOK, BatchInRange, WindowAligned, IsLayout
<1>2. CASE SingleUpdate
  <2>1. perCycle = 1 /\ Sent /\ UNCHANGED config
    BY <1>2 DEF SingleUpdate
  <2>2. CASE orderI + 1 = layout.n
    <3>1. orderI' = 0 /\ lineI' = 0 /\ lineF' = ItemsIn(0, 1)
      BY <1>2, <2>2 DEF SingleUpdate, RestartSingle
    <3>2. ItemsIn(0, 1) \in Nat
      BY <1>1, <2>2, ItemsInRange
    <3> QED BY <1>1, <2>1, <2>2, <3>1, <3>2, MoveTo
  <2>3. CASE orderI + 1 # layout.n
    <3>1. /\ orderI' = orderI + 1 /\ lineI' = lineF
          /\ lineF' = lineF + ItemsIn(orderI + 1, orderI + 2)
      BY <1>2, <2>3 DEF SingleUpdate
    <3> QED BY <1>1, <2>1, <2>3, <3>1, MoveTo
  <2> QED BY <2>2, <2>3
<1>3. CASE MultiUpdate
  <2>1. Sent /\ UNCHANGED config
    BY <1>3 DEF MultiUpdate
  <2>2. CASE MultiRestarts
    <3>1. orderI' = 0 /\ lineI' = 0 /\ lineF' = ItemsIn(0, perCycle)
      BY <1>3, <2>2 DEF MultiUpdate
    <3>2. ItemsIn(0, perCycle) \in Nat
      BY <1>1, ItemsInRange
    <3> QED BY <1>1, <2>1, <3>1, <3>2, MoveTo
  <2>3. CASE ~MultiRestarts
    <3>1. /\ orderI' = orderI + perCycle /\ lineI' = lineF
          /\ lineF' = lineF + ItemsIn(orderI + perCycle, orderI + perCycle + perCycle)
      BY <1>3, <2>3 DEF MultiUpdate, Advanced
    <3>2. orderI + perCycle + perCycle <= layout.n
      BY <1>1, <2>3 DEF MultiRestarts
    <3> QED BY <1>1, <2>1, <3>1, <3>2, MoveTo
  <2> QED BY <2>2, <2>3
<1>4. CASE UNCHANGED vars
  BY <1>4 DEF vars, config, IInv, TypeOK, BatchInRange, WindowAligned
<1> QED BY <1>2, <1>3, <1>4 DEF Next

\* IInv holds in every reachable state.
THEOREM Invariance == Spec => []IInv
BY InitIInv, StepIInv, PTL DEF Spec

\* The variables keep their types.
THEOREM TypeCorrect == Spec => []TypeOK
<1>1. IInv => TypeOK
  BY DEF IInv
<1> QED BY <1>1, Invariance, PTL

\* No update slices its share out of range.
THEOREM BatchAlwaysInRange == Spec => []BatchInRange
<1>1. IInv => BatchInRange
  BY DEF IInv
<1> QED BY <1>1, Invariance, PTL

\* No order is ever sent with the items of another one.
THEOREM WindowAlwaysAligned == Spec => []WindowAligned
<1>1. IInv => WindowAligned
  BY DEF IInv
<1> QED BY <1>1, Invariance, PTL

\* No order is sent twice in one walk.
THEOREM NoRepeat == Spec => NoRepeatInWalk
<1>1. IInv => (orderI # 0 => Batch \cap seen = {})
  BY DEF IInv, TypeOK, Batch
<1>2. IInv /\ [Next]_vars => [orderI # 0 => Batch \cap seen = {}]_vars
  BY <1>1
<1> QED BY <1>2, Invariance, PTL DEF Spec, NoRepeatInWalk

\* A walk that ends has sent every order; in batches, all but at most the last
\* QUERIES_PER_CYCLE of them.
THEOREM WalksComplete == Spec => WalkComplete
<1> DEFINE Complete ==
      orderI' = 0 =>
        \A o \in (0..(layout.n - 1)) \ seen' : perCycle > 1 /\ o >= layout.n - perCycle
<1>1. IInv /\ [Next]_vars => [Complete]_vars
  <2> SUFFICES ASSUME IInv, Next, orderI' = 0,
                      NEW o \in (0..(layout.n - 1)) \ seen'
               PROVE  perCycle > 1 /\ o >= layout.n - perCycle
    OBVIOUS
  <2>1. /\ orderI \in Nat /\ perCycle \in Nat \ {0} /\ layout.n \in Nat
        /\ orderI + perCycle <= layout.n
    BY DEF IInv, TypeOK, BatchInRange, IsLayout
  <2>2. Sent
    BY DEF Next, SingleUpdate, MultiUpdate
  <2>3. o > orderI + perCycle - 1
    BY <2>1, <2>2, SentInRange
  <2>4. CASE SingleUpdate
    <3>1. perCycle = 1 /\ orderI + 1 = layout.n
      BY <2>1, <2>4 DEF SingleUpdate
    <3> QED BY <2>1, <2>3, <3>1
  <2>5. CASE MultiUpdate
    <3>1. MultiRestarts /\ perCycle # 1
      BY <2>1, <2>5 DEF MultiUpdate, Advanced
    <3> QED BY <2>1, <2>3, <3>1 DEF MultiRestarts
  <2> QED BY <2>4, <2>5 DEF Next
<1> QED BY <1>1, Invariance, PTL DEF Spec, WalkComplete
=============================================================================
