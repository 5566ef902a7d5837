-------------------------- MODULE ClientOpsProofs --------------------------
(* The clients' operations, for every number of clients, every share and    *)
(* every number of operations.                                              *)
EXTENDS ClientOps, SumTheorems

\* The cursor of a client before its next update.
Cursor(o, from, to) == [order |-> o, from |-> from, to |-> to]

\* Each walk is a cursor whose window is that of its orders.
WalkInv ==
  /\ perCycle \in CycleSizes
  /\ walk = [c \in Updaters |-> Cursor(walk[c].order, walk[c].from, walk[c].to)]
  /\ \A c \in Updaters :
       /\ walk[c].order \in Nat /\ walk[c].order + perCycle <= Shares[c].n
       /\ walk[c].from = Shares[c].start[walk[c].order]
       /\ walk[c].to = Shares[c].start[walk[c].order + perCycle]
  /\ seen = [c \in Updaters |-> seen[c]]

\* What is assumed of a client's share.
LEMMA ShareFacts ==
  ASSUME NEW c \in Updaters, WalkInv
  PROVE  /\ c \in Clients /\ perCycle \in Nat \ {0} /\ Shares[c].n \in Nat /\ perCycle <= Shares[c].n
         /\ Shares[c].start[0] = 0
         /\ \A i \in 0..Shares[c].n : Shares[c].start[i] \in Nat
         /\ \A i, j \in 0..Shares[c].n : i <= j => Shares[c].start[i] <= Shares[c].start[j]
BY ClientsAssumption, NumbersAssumption, SharesAssumption DEF WalkInv

\* The cursor after an update.
LEMMA AdvancedIs ==
  ASSUME NEW c \in Updaters, WalkInv
  PROVE  \E o \in Nat :
           /\ o + perCycle <= Shares[c].n
           /\ Advanced(c) = Cursor(o, Shares[c].start[o], Shares[c].start[o + perCycle])
<1> DEFINE w == walk[c]
           o == w.order + perCycle
           again == IF perCycle = 1 THEN o = Shares[c].n ELSE o + perCycle >= Shares[c].n
<1>1. /\ w.order \in Nat /\ perCycle \in Nat \ {0} /\ Shares[c].n \in Nat /\ o <= Shares[c].n
      /\ perCycle <= Shares[c].n
      /\ Shares[c].start[0] = 0 /\ w.to = Shares[c].start[o]
      /\ \A i \in 0..Shares[c].n : Shares[c].start[i] \in Nat
  BY ShareFacts DEF WalkInv
<1>2. CASE again
  <2>1. Advanced(c) = Cursor(0, 0, ItemsIn(c, 0, perCycle))
    BY <1>2 DEF Advanced, Cursor
  <2>2. ItemsIn(c, 0, perCycle) = Shares[c].start[perCycle]
    <3>1. Shares[c].start[perCycle] \in Nat
      BY <1>1
    <3> QED BY <1>1, <3>1 DEF ItemsIn
  <2> QED BY <1>1, <2>1, <2>2
<1>3. CASE ~again
  <2>1. Advanced(c) = Cursor(o, w.to, w.to + ItemsIn(c, o, o + perCycle))
    BY <1>3 DEF Advanced, Cursor
  <2>2. o + perCycle <= Shares[c].n
    BY <1>1, <1>3
  <2>3. Shares[c].start[o] \in Nat /\ Shares[c].start[o + perCycle] \in Nat
    BY <1>1, <2>2
  <2>4. w.to + ItemsIn(c, o, o + perCycle) = Shares[c].start[o + perCycle]
    BY <1>1, <2>3 DEF ItemsIn
  <2>5. o \in Nat /\ Advanced(c) = Cursor(o, Shares[c].start[o], Shares[c].start[o + perCycle])
    BY <1>1, <2>1, <2>4
  <2> HIDE DEF o
  <2> QED BY <2>2, <2>5
<1> QED BY <1>2, <1>3

\* At first each cursor is at the beginning, with the window of the first batch.
LEMMA InitWalkInv == Init => WalkInv
<1> SUFFICES ASSUME Init PROVE WalkInv OBVIOUS
<1>1. perCycle \in CycleSizes /\ walk = [c \in Updaters |-> Cursor(0, 0, ItemsIn(c, 0, perCycle))]
  BY DEF Init, Cursor
<1>2. ASSUME NEW c \in Updaters
      PROVE  perCycle \in Nat /\ perCycle <= Shares[c].n /\ Shares[c].start[0] = 0
             /\ ItemsIn(c, 0, perCycle) = Shares[c].start[perCycle]
  <2>1. Shares[c].n \in Nat /\ perCycle \in Nat /\ perCycle <= Shares[c].n
    BY <1>1, SharesAssumption, NumbersAssumption
  <2>2. Shares[c].start[0] = 0 /\ Shares[c].start[perCycle] \in Nat
    BY <2>1, SharesAssumption
  <2> QED BY <2>1, <2>2 DEF ItemsIn
<1>3. \A c \in Updaters : walk[c] = Cursor(0, 0, Shares[c].start[perCycle])
  BY <1>1, <1>2
<1> QED BY <1>1, <1>2, <1>3 DEF WalkInv, Init, Cursor

\* Only the end of an update moves a cursor, to that of AdvancedIs.
LEMMA StepWalkInv == WalkInv /\ [Next]_vars => WalkInv'
<1> SUFFICES ASSUME WalkInv, [Next]_vars PROVE WalkInv' OBVIOUS
<1>1. CASE UNCHANGED <<perCycle, walk, seen>>
  BY <1>1 DEF WalkInv
<1>2. ASSUME NEW c \in Clients, EndUpdate(c) PROVE WalkInv'
  <2>1. CASE c \in Updaters
    <3>1. PICK o \in Nat :
            /\ o + perCycle <= Shares[c].n
            /\ Advanced(c) = Cursor(o, Shares[c].start[o], Shares[c].start[o + perCycle])
      BY <2>1, AdvancedIs
    <3>2. perCycle' = perCycle /\ walk' = [walk EXCEPT ![c] = Advanced(c)] /\ DOMAIN seen' = DOMAIN seen
      BY <1>2 DEF EndUpdate, config
    <3>3. /\ walk' = [d \in Updaters |-> walk'[d]] /\ seen' = [d \in Updaters |-> seen'[d]]
          /\ \A d \in Updaters : walk'[d] = IF d = c THEN Advanced(c) ELSE walk[d]
      BY <1>2, <3>2 DEF WalkInv, EndUpdate
    <3>4. ASSUME NEW d \in Updaters
          PROVE  /\ walk'[d] = Cursor(walk'[d].order, walk'[d].from, walk'[d].to)
                 /\ walk'[d].order \in Nat /\ walk'[d].order + perCycle' <= Shares[d].n
                 /\ walk'[d].from = Shares[d].start[walk'[d].order]
                 /\ walk'[d].to = Shares[d].start[walk'[d].order + perCycle']
      <4>1. CASE d = c
        BY <3>1, <3>2, <3>3, <4>1 DEF Cursor
      <4>2. CASE d # c
        <5>1. walk'[d] = walk[d]
          BY <3>3, <4>2
        <5>2. walk[d] = Cursor(walk[d].order, walk[d].from, walk[d].to)
          BY DEF WalkInv
        <5> QED BY <5>1, <5>2, <3>2 DEF WalkInv
      <4> QED BY <4>1, <4>2
    <3>5. walk' = [d \in Updaters |-> Cursor(walk'[d].order, walk'[d].from, walk'[d].to)]
      BY <3>3, <3>4
    <3> QED BY <3>2, <3>3, <3>4, <3>5 DEF WalkInv
  <2>2. CASE c \notin Updaters
    <3>1. walk' = walk /\ seen' = seen /\ perCycle' = perCycle
      BY <1>2, <2>2 DEF EndUpdate, WalkInv, config
    <3> QED BY <3>1 DEF WalkInv
  <2> QED BY <2>1, <2>2
<1>3. CASE Next
  <2>1. PICK c \in Clients : \/ StartUpdate(c) \/ Execute(c) \/ EndUpdate(c)
                             \/ StartQuery(c) \/ EndQuery(c) \/ Break(c)
    BY <1>3 DEF Next
  <2> QED BY <2>1, <1>1, <1>2 DEF StartUpdate, Execute, StartQuery, EndQuery, Break, config, client
<1> QED BY <1>1, <1>3 DEF vars, config, client

\* Every updating client stands at a batch that lies in its share, with the window
\* that holds just the items of that batch (singleUpdateHelper, multiUpdateHelper).
THEOREM WalkInvariant == Spec => []WalkInv
BY InitWalkInv, StepWalkInv, PTL DEF Spec

-----------------------------------------------------------------------------

\* Position k is that of an item of order o if it lies between o's entries.
LEMMA OwnerIs ==
  ASSUME NEW c \in Updaters, WalkInv, NEW o \in 0..(Shares[c].n - 1),
         NEW k \in (Shares[c].start[o] + 1)..Shares[c].start[o + 1]
  PROVE  OwnerOf(c, k) = o
<1> DEFINE start == Shares[c].start
           Owns(i) == start[i] < k /\ k <= start[i + 1]
<1>1. /\ Shares[c].n \in Nat
      /\ \A i \in 0..Shares[c].n : start[i] \in Nat
      /\ \A i, j \in 0..Shares[c].n : i <= j => start[i] <= start[j]
  BY ShareFacts
<1>2. Owns(o) /\ k \in Int
  BY <1>1
<1>3. ASSUME NEW i \in 0..(Shares[c].n - 1), Owns(i), i # o PROVE FALSE
  <2>1. /\ i \in 0..Shares[c].n /\ i + 1 \in 0..Shares[c].n /\ o \in 0..Shares[c].n /\ o + 1 \in 0..Shares[c].n
        /\ start[i] \in Nat /\ start[i + 1] \in Nat /\ start[o] \in Nat /\ start[o + 1] \in Nat
    BY <1>1
  <2>2. CASE i + 1 <= o
    <3>1. start[i + 1] <= start[o]
      BY <1>1, <2>1, <2>2
    <3> QED BY <1>2, <1>3, <2>1, <3>1
  <2>3. CASE o + 1 <= i
    <3>1. start[o + 1] <= start[i]
      BY <1>1, <2>1, <2>3
    <3> QED BY <1>2, <1>3, <2>1, <3>1
  <2> QED BY <1>1, <1>3, <2>2, <2>3
<1> QED BY <1>2, <1>3 DEF OwnerOf

\* The items of a single update are those of its order.
LEMMA ItemsOfUpdateIs ==
  ASSUME NEW c \in Updaters, WalkInv, perCycle = 1
  PROVE  ItemsOfUpdate(c) = ItemsOfOrder(c, walk[c].order)
<1> DEFINE o == walk[c].order
<1>1. /\ o \in 0..(Shares[c].n - 1)
      /\ walk[c].from = Shares[c].start[o] /\ walk[c].to = Shares[c].start[o + 1]
  BY ShareFacts, SMTT(30) DEF WalkInv
<1>2. ItemsOfUpdate(c) = {<<<<c, OwnerOf(c, k)>>, k>> : k \in (Shares[c].start[o] + 1)..Shares[c].start[o + 1]}
  BY <1>1 DEF ItemsOfUpdate
<1>3. \A k \in (Shares[c].start[o] + 1)..Shares[c].start[o + 1] : OwnerOf(c, k) = o
  BY <1>1, OwnerIs
<1> QED BY <1>2, <1>3 DEF ItemsOfOrder

\* What a statement may be: new orders are a client's and deletes are not.
Sendable ==
  [kind : {"orders"}, rows : SUBSET ClientOrders] \cup
  [kind : {"deletes"}, rows : SUBSET (BaseOrders \cup {NoOrder})] \cup
  {Statement("items", is) : is \in {{}} \cup {ItemsOfOrder(o[1], o[2]) : o \in ClientOrders}}

\* The statements of an update are of that kind.
LEMMA StatementsOfType ==
  ASSUME NEW c \in Updaters, WalkInv
  PROVE  StatementsOf(c) \in Seq(Sendable)
<1>1. /\ walk[c].order \in Nat /\ perCycle \in Nat \ {0} /\ Shares[c].n \in Nat
      /\ walk[c].order + perCycle <= Shares[c].n
  BY ShareFacts DEF WalkInv
<1>2. Batch(c) \subseteq 0..(Shares[c].n - 1)
  BY <1>1 DEF Batch
<1>3. \A i \in 0..(Shares[c].n - 1) : <<c, i>> \in ClientOrders
  BY DEF ClientOrders, OrdersOfClient
<1>4. Statement("orders", {<<c, i>> : i \in Batch(c)}) \in Sendable
  BY <1>2, <1>3 DEF Statement, Sendable
<1>5. Statement("deletes", DeletesOfUpdate(c)) \in Sendable
  <2>1. DeletesOfUpdate(c) \subseteq BaseOrders \cup {NoOrder}
    BY <1>2, KeysAssumption DEF DeletesOfUpdate
  <2> QED BY <2>1 DEF Statement, Sendable
<1>6. Statement("items", ItemsOfUpdate(c)) \in Sendable
  <2>1. CASE perCycle = 1
    <3>1. <<c, walk[c].order>> \in ClientOrders
      BY <1>1, <1>3, <2>1
    <3>2. ItemsOfUpdate(c) \in {ItemsOfOrder(o[1], o[2]) : o \in ClientOrders}
      BY <2>1, <3>1, ItemsOfUpdateIs
    <3> QED BY <3>2 DEF Sendable
  <2>2. CASE perCycle # 1
    BY <2>2 DEF Sendable, ItemsOfUpdate
  <2> QED BY <2>1, <2>2
<1> HIDE DEF Sendable
<1>7. CASE redirect BY <1>4, <1>5, <1>6, <1>7 DEF StatementsOf
<1>8. CASE ~redirect BY <1>4, <1>6, <1>8 DEF StatementsOf
<1> QED BY <1>7, <1>8

\* Tables whose items have their orders and come in whole orders.
Whole(d) ==
  /\ \A i \in d.items : OrderOf(i) \in d.orders
  /\ \A o \in ClientOrders : ItemsOf(o, d.items) \in {{}, ItemsOfOrder(o[1], o[2])}

\* All items of an order are of that order.
LEMMA ItemsOfOne ==
  ASSUME NEW o \in ClientOrders
  PROVE  \A i \in ItemsOfOrder(o[1], o[2]) : OrderOf(i) = o
BY DEF ClientOrders, OrdersOfClient, ItemsOfOrder, OrderOf

\* No statement makes tables that are whole into tables that are not.
LEMMA AfterIsWhole ==
  ASSUME Whole(db), NEW s \in Sendable
  PROVE  Whole(After(s))
<1> DEFINE d == After(s)
<1>1. CASE s.kind = "orders"
  <2>1. d.items = db.items /\ db.orders \subseteq d.orders
    BY <1>1 DEF After, WithOrders
  <2> QED BY <2>1 DEF Whole
<1>2. CASE s.kind = "deletes"
  <2>1. CASE d = db
    BY <2>1
  <2>2. CASE d # db
    <3>1. /\ d.orders = db.orders \ s.rows
          /\ d.items = {i \in db.items : OrderOf(i) \notin s.rows}
      BY <1>2, <2>2 DEF After, WithoutOrders
    <3>2. ASSUME NEW o \in ClientOrders
          PROVE  ItemsOf(o, d.items) \in {{}, ItemsOf(o, db.items)}
      BY <3>1 DEF ItemsOf
    <3> QED BY <3>1, <3>2 DEF Whole
  <2> QED BY <2>1, <2>2
<1>3. CASE s.kind = "items"
  <2>1. CASE d = db
    BY <2>1
  <2>2. CASE d # db
    <3>1. /\ d.orders = db.orders /\ d.items = db.items \cup s.rows
          /\ s.rows \cap db.items = {} /\ \A i \in s.rows : OrderOf(i) \in db.orders
      BY <1>3, <2>2 DEF After, WithItems
    <3>2. CASE s.rows = {}
      BY <3>1, <3>2 DEF Whole
    <3>3. CASE s.rows # {}
      <4>1. PICK p \in ClientOrders : s.rows = ItemsOfOrder(p[1], p[2])
        BY <1>3, <3>3 DEF Sendable, Statement
      <4>2. ASSUME NEW o \in ClientOrders
            PROVE  ItemsOf(o, d.items) \in {{}, ItemsOfOrder(o[1], o[2])}
        <5>1. CASE o = p
          <6>1. ItemsOf(p, s.rows) = s.rows
            BY <4>1, ItemsOfOne DEF ItemsOf
          <6>2. ItemsOf(p, db.items) = {}
            BY <3>1, <3>3, <4>1, <6>1 DEF Whole, ItemsOf
          <6> QED BY <3>1, <4>1, <5>1, <6>1, <6>2 DEF ItemsOf
        <5>2. CASE o # p
          <6>1. ItemsOf(o, d.items) = ItemsOf(o, db.items)
            BY <3>1, <4>1, <5>2, ItemsOfOne DEF ItemsOf
          <6> QED BY <6>1 DEF Whole
        <5> QED BY <5>1, <5>2
      <4> QED BY <3>1, <4>2 DEF Whole
    <3> QED BY <3>2, <3>3
  <2> QED BY <2>1, <2>2
<1> QED BY <1>1, <1>2, <1>3 DEF Sendable, Statement

\* The tables are whole, and what is still to be executed keeps them so.
TablesInv == Whole(db) /\ todo \in [Clients -> Seq(Sendable)]

\* No order of a client is in the tables at first.
LEMMA InitTablesInv == Init => TablesInv
<1> SUFFICES ASSUME Init PROVE TablesInv OBVIOUS
<1>1. db.orders = BaseOrders /\ db.items = BaseItems
  BY DEF Init
<1>2. \A o \in ClientOrders : ItemsOf(o, db.items) = {}
  BY <1>1, LoadedAssumption DEF BaseOrders, ItemsOf
<1>3. Whole(db)
  BY <1>1, <1>2 DEF Whole, BaseOrders
<1> QED BY <1>3 DEF Init, TablesInv

\* Tables stay whole: an update only has statements of whole orders.
LEMMA StepTablesInv == WalkInv /\ TablesInv /\ [Next]_vars => TablesInv'
<1> SUFFICES ASSUME WalkInv, TablesInv, [Next]_vars PROVE TablesInv' OBVIOUS
<1> USE DEF TablesInv
<1>1. CASE UNCHANGED <<db, todo>>
  BY <1>1 DEF Whole
<1>2. ASSUME NEW c \in Clients, StartUpdate(c) PROVE TablesInv'
  <2>1. db' = db /\ (todo' = todo \/ todo' = [todo EXCEPT ![c] = StatementsOf(c)]) /\ c \in Updaters
    BY <1>2 DEF StartUpdate
  <2>2. StatementsOf(c) \in Seq(Sendable)
    BY <2>1, StatementsOfType
  <2> QED BY <2>1, <2>2 DEF Whole
<1>3. ASSUME NEW c \in Clients, Execute(c) PROVE TablesInv'
  <2>1. todo[c] \in Seq(Sendable) /\ todo[c] # <<>> /\ todo' = [todo EXCEPT ![c] = Tail(@)]
    BY <1>3 DEF Execute
  <2>2. Head(todo[c]) \in Sendable /\ Tail(todo[c]) \in Seq(Sendable)
    BY <2>1
  <2>3. db' \in {db, After(Head(todo[c]))}
    BY <1>3 DEF Execute
  <2>4. Whole(db')
    BY <2>2, <2>3, AfterIsWhole
  <2> QED BY <2>1, <2>2, <2>4 DEF Whole
<1>4. CASE Next
  <2>1. PICK c \in Clients : \/ StartUpdate(c) \/ Execute(c) \/ EndUpdate(c)
                             \/ StartQuery(c) \/ EndQuery(c) \/ Break(c)
    BY <1>4 DEF Next
  <2>2. StartUpdate(c) \/ Execute(c) \/ UNCHANGED <<db, todo>>
    BY <2>1 DEF EndUpdate, StartQuery, EndQuery, Break, client
  <2> QED BY <2>2, <1>1, <1>2, <1>3
<1>5. CASE UNCHANGED vars
  BY <1>1, <1>5 DEF vars, client
<1> QED BY <1>4, <1>5

\* No order of a client is ever in the tables with a part of its items only.
THEOREM OrdersStayWhole == Spec => []ItemsAllOrNone
<1>1. TablesInv => ItemsAllOrNone
  BY DEF TablesInv, Whole, ItemsAllOrNone
<1> QED BY <1>1, InitTablesInv, StepTablesInv, WalkInvariant, PTL DEF Spec

-----------------------------------------------------------------------------

\* A client's walk starts as UpdateStream's does.
LEMMA InitWalks == ASSUME Init, NEW c \in Updaters PROVE Walk(c)!Init
<1>1. WalkInv
  BY InitWalkInv
<1>2. walk[c] = Cursor(0, 0, ItemsIn(c, 0, perCycle)) /\ seen[c] = {} /\ perCycle \in CycleSizes
  BY DEF Init, Cursor
<1>3. perCycle <= Shares[c].n
  BY <1>1, ShareFacts
<1> QED BY <1>2, <1>3 DEF Walk!Init, Walk!ItemsIn, ItemsIn, Cursor

\* A step of the clients moves each walk as UpdateStream says, or not at all.
LEMMA StepWalks ==
  ASSUME WalkInv, [Next]_vars, NEW d \in Updaters
  PROVE  [Walk(d)!Next]_(Walk(d)!vars)
<1>1. CASE UNCHANGED <<perCycle, walk, seen>>
  BY <1>1 DEF Walk!vars, Walk!config
<1>2. ASSUME NEW c \in Clients, EndUpdate(c) PROVE [Walk(d)!Next]_(Walk(d)!vars)
  <2>1. CASE c # d
    BY <1>2, <2>1 DEF EndUpdate, WalkInv, Walk!vars, Walk!config, config
  <2>2. CASE c = d
    <3>1. /\ perCycle' = perCycle /\ walk'[d] = Advanced(d)
          /\ seen'[d] = IF walk[d].order = 0 THEN Batch(d) ELSE seen[d] \cup Batch(d)
      BY <1>2, <2>2 DEF EndUpdate, WalkInv, config
    <3>2. Walk(d)!Sent /\ UNCHANGED Walk(d)!config
      BY <3>1 DEF Walk!Sent, Walk!Batch, Batch, Walk!config
    <3>3. CASE perCycle = 1
      <4>1. (walk[d].order + 1) + 1 = walk[d].order + 2
        BY DEF WalkInv
      <4>2. CASE walk[d].order + 1 = Shares[d].n
        BY <3>1, <3>2, <3>3, <4>2
           DEF Walk!Next, Walk!SingleUpdate, Walk!RestartSingle, Walk!ItemsIn, Advanced, ItemsIn
      <4>3. CASE walk[d].order + 1 # Shares[d].n
        BY <3>1, <3>2, <3>3, <4>1, <4>3
           DEF Walk!Next, Walk!SingleUpdate, Walk!ItemsIn, Advanced, ItemsIn
      <4> QED BY <4>2, <4>3
    <3>4. CASE perCycle # 1
      <4>1. walk[d].order \in Nat /\ perCycle \in Nat /\ Shares[d].n \in Nat
        BY ShareFacts DEF WalkInv
      <4>2. Walk(d)!MultiRestarts <=> walk[d].order + perCycle + perCycle >= Shares[d].n
        BY <4>1 DEF Walk!MultiRestarts
      <4> QED BY <3>1, <3>2, <3>4, <4>2 DEF Walk!Next, Walk!MultiUpdate, Walk!Advanced, Walk!ItemsIn, Advanced, ItemsIn
    <3> QED BY <3>3, <3>4
  <2> QED BY <2>1, <2>2
<1>3. CASE Next
  <2>1. PICK c \in Clients : \/ StartUpdate(c) \/ Execute(c) \/ EndUpdate(c)
                             \/ StartQuery(c) \/ EndQuery(c) \/ Break(c)
    BY <1>3 DEF Next
  <2>2. EndUpdate(c) \/ UNCHANGED <<perCycle, walk, seen>>
    BY <2>1 DEF StartUpdate, Execute, StartQuery, EndQuery, Break, config, client
  <2> QED BY <2>2, <1>1, <1>2
<1>4. CASE UNCHANGED vars
  BY <1>1, <1>4 DEF vars, config, client
<1> QED BY <1>3, <1>4

\* The clients implement UpdateStream, each of them and whatever the others,
\* the server and the connections do (singleUpdateHelper, multiUpdateHelper).
THEOREM ImplementsUpdateStream == Spec => WalksFollowUpdateStream
<1> DEFINE WalksInit == \A c \in Updaters : Walk(c)!Init
           WalksNext == \A c \in Updaters : [Walk(c)!Next]_(Walk(c)!vars)
<1>1. Init => WalksInit
  BY InitWalks
<1>2. WalkInv /\ [Next]_vars => WalksNext
  BY StepWalks
<1>3. (\A c \in Updaters : Walk(c)!Init) <=> WalksInit
  OBVIOUS
<1> HIDE DEF WalksInit, WalksNext
<1>4. Spec => WalksInit /\ [][WalksNext]_vars
  BY <1>1, <1>2, WalkInvariant, PTL DEF Spec
<1> QED BY <1>4 DEF WalksFollowUpdateStream, WalksInit, WalksNext

-----------------------------------------------------------------------------
(* Types, and the sums that the trigger keeps. *)

\* A set of consecutive numbers is finite.
LEMMA IntervalFinite ==
  ASSUME NEW a \in Int, NEW b \in Int
  PROVE  IsFiniteSet(a..b)
BY FS_Interval

\* The items of an order are finitely many, with numbers as quantities.
LEMMA ItemsOfOrderIs ==
  ASSUME NEW o \in ClientOrders
  PROVE  IsFiniteSet(ItemsOfOrder(o[1], o[2])) /\ \A i \in ItemsOfOrder(o[1], o[2]) : i[2] \in Nat
<1>1. PICK c \in Updaters : \E n \in 0..(Shares[c].n - 1) : o = <<c, n>>
  BY DEF ClientOrders, OrdersOfClient
<1>2. PICK n \in 0..(Shares[c].n - 1) : o = <<c, n>>
  BY <1>1
<1> DEFINE K == (Shares[c].start[n] + 1)..Shares[c].start[n + 1]
           f == [k \in K |-> <<<<c, n>>, k>>]
<1>3. ItemsOfOrder(o[1], o[2]) = {<<<<c, n>>, k>> : k \in K}
  BY <1>2 DEF ItemsOfOrder
<1>4. Shares[c].start[n] \in Nat /\ Shares[c].start[n + 1] \in Nat
  <2>1. Shares[c].n \in Nat /\ Shares[c].start \in [0..Shares[c].n -> Nat]
    BY SharesAssumption
  <2>2. n \in 0..Shares[c].n /\ n + 1 \in 0..Shares[c].n
    BY <2>1
  <2> QED BY <2>1, <2>2
<1>5. IsFiniteSet(K)
  BY <1>4, IntervalFinite
<1>6. f \in Surjection(K, {<<<<c, n>>, k>> : k \in K})
  BY DEF Surjection
<1>7. IsFiniteSet({<<<<c, n>>, k>> : k \in K})
  <2> HIDE DEF K, f
  <2> QED BY <1>5, <1>6, FS_Surjection
<1>8. \A k \in K : k \in Nat
  BY <1>4
<1> QED BY <1>3, <1>7, <1>8

\* The quantities of finitely many items add up to a number, which is 0 if
\* there are none.
LEMMA QuantityType ==
  ASSUME NEW is, IsFiniteSet(is), \A i \in is : i[2] \in Nat
  PROVE  Quantity(is) \in Nat
<1> DEFINE f == [i \in is |-> i[2]]
<1>1. \A i \in is : f[i] \in Nat
  OBVIOUS
<1>2. Quantity(is) = SumFunctionOnSet(f, is)
  BY DEF Quantity, SumFunction
<1> HIDE DEF f
<1> QED BY <1>1, <1>2, SumType

\* No items have the quantity 0.
LEMMA QuantityEmpty == Quantity({}) = 0
BY SumEmpty DEF Quantity, SumFunction

\* Tables with the orders, the items and the sums there may be.
TablesTyped(d) ==
  /\ d.orders \subseteq BaseOrders \cup ClientOrders
  /\ d.sum \in [BaseOrders \cup ClientOrders -> Nat]

\* The sums of the clients' orders are those of their items; those of the loaded
\* ones too, if the trigger was there when they were.
SumsKept(d) ==
  \A o \in d.orders :
    o \in ClientOrders \/ cascade => d.sum[o] = Quantity(ItemsOf(o, d.items))

\* What a statement of items inserts: some items with numbers as quantities.
LEMMA ItemsOfStatement ==
  ASSUME NEW s \in Sendable, s.kind = "items", NEW o
  PROVE  Quantity(ItemsOf(o, s.rows)) \in Nat
<1>1. IsFiniteSet(s.rows) /\ \A i \in s.rows : i[2] \in Nat
  <2>1. CASE s.rows = {}
    BY <2>1, FS_EmptySet
  <2>2. CASE s.rows # {}
    <3>1. PICK p \in ClientOrders : s.rows = ItemsOfOrder(p[1], p[2])
      BY <2>2 DEF Sendable, Statement
    <3> QED BY <3>1, ItemsOfOrderIs
  <2> QED BY <2>1, <2>2
<1>2. IsFiniteSet(ItemsOf(o, s.rows)) /\ \A i \in ItemsOf(o, s.rows) : i[2] \in Nat
  BY <1>1, FS_Subset DEF ItemsOf
<1> QED BY <1>2, QuantityType

\* A statement keeps the types of the tables.
LEMMA AfterIsTyped ==
  ASSUME TablesTyped(db), NEW s \in Sendable
  PROVE  TablesTyped(After(s))
<1> DEFINE d == After(s)
<1>1. CASE s.kind = "orders"
  <2>1. s.rows \subseteq ClientOrders
    BY <1>1 DEF Sendable, Statement
  <2> QED BY <1>1, <2>1 DEF After, WithOrders, TablesTyped
<1>2. CASE s.kind = "deletes"
  BY <1>2 DEF After, WithoutOrders, TablesTyped
<1>3. CASE s.kind = "items"
  <2>1. \A o : Quantity(ItemsOf(o, s.rows)) \in Nat
    BY <1>3, ItemsOfStatement
  <2>2. Triggered(db, s.rows) \in [BaseOrders \cup ClientOrders -> Nat]
    BY <2>1 DEF Triggered, TablesTyped
  <2> QED BY <1>3, <2>2 DEF After, WithItems, TablesTyped
<1> QED BY <1>1, <1>2, <1>3 DEF Sendable, Statement

\* A statement keeps the sums: a new order has no items, items come to an order
\* that has none, and go with it.
LEMMA AfterKeepsSums ==
  ASSUME Whole(db), TablesTyped(db), SumsKept(db), NEW s \in Sendable
  PROVE  SumsKept(After(s))
<1> DEFINE d == After(s)
           Kept(o) == o \in ClientOrders \/ cascade
<1>1. CASE d = db
  BY <1>1
<1>2. CASE d # db /\ s.kind = "orders"
  <2>1. /\ d.orders = db.orders \cup s.rows /\ d.items = db.items /\ s.rows \cap db.orders = {}
        /\ d.sum = [o \in DOMAIN db.sum |-> IF o \in s.rows THEN 0 ELSE db.sum[o]]
    BY <1>2 DEF After, WithOrders
  <2>2. ASSUME NEW o \in s.rows
        PROVE  d.sum[o] = Quantity(ItemsOf(o, d.items))
    <3>1. o \in ClientOrders
      BY <1>2 DEF Sendable, Statement
    <3>2. ItemsOf(o, d.items) = {}
      BY <2>1, <2>2 DEF Whole, ItemsOf
    <3>3. d.sum[o] = 0
      BY <2>1, <2>2, <3>1 DEF TablesTyped
    <3> QED BY <3>2, <3>3, QuantityEmpty
  <2>3. ASSUME NEW o \in db.orders, Kept(o)
        PROVE  d.sum[o] = Quantity(ItemsOf(o, d.items))
    <3>1. d.sum[o] = db.sum[o]
      BY <2>1, <2>3 DEF TablesTyped
    <3> QED BY <2>1, <2>3, <3>1 DEF SumsKept
  <2> QED BY <2>1, <2>2, <2>3 DEF SumsKept
<1>3. CASE d # db /\ s.kind = "deletes"
  <2>1. /\ d.orders = db.orders \ s.rows /\ d.sum = db.sum
        /\ d.items = {i \in db.items : OrderOf(i) \notin s.rows}
    BY <1>3 DEF After, WithoutOrders
  <2>2. ASSUME NEW o \in d.orders
        PROVE  ItemsOf(o, d.items) = ItemsOf(o, db.items) /\ o \in db.orders
    BY <2>1, <2>2 DEF ItemsOf
  <2> QED BY <2>1, <2>2 DEF SumsKept
<1>4. CASE d # db /\ s.kind = "items"
  <2>1. /\ d.orders = db.orders /\ d.items = db.items \cup s.rows
        /\ s.rows \cap db.items = {} /\ \A i \in s.rows : OrderOf(i) \in db.orders
        /\ d.sum = Triggered(db, s.rows)
    BY <1>4 DEF After, WithItems
  <2>2. ASSUME NEW o \in db.orders, Kept(o), ItemsOf(o, s.rows) = {}
        PROVE  d.sum[o] = Quantity(ItemsOf(o, d.items))
    <3>1. d.sum[o] = db.sum[o]
      BY <2>1, <2>2 DEF Triggered, TablesTyped
    <3>2. ItemsOf(o, d.items) = ItemsOf(o, db.items)
      BY <2>1, <2>2 DEF ItemsOf
    <3> QED BY <2>2, <3>1, <3>2 DEF SumsKept
  <2>3. ASSUME NEW o \in db.orders, ItemsOf(o, s.rows) # {}
        PROVE  d.sum[o] = Quantity(ItemsOf(o, d.items))
    <3>1. PICK p \in ClientOrders : s.rows = ItemsOfOrder(p[1], p[2])
      BY <1>4, <2>3 DEF Sendable, Statement, ItemsOf
    <3>2. p = o
      BY <2>3, <3>1, ItemsOfOne DEF ItemsOf
    <3>3. ItemsOf(o, s.rows) = s.rows /\ s.rows # {}
      BY <2>3, <3>1, <3>2, ItemsOfOne DEF ItemsOf
    <3>4. ItemsOf(o, db.items) = {}
      <4>1. ItemsOf(o, db.items) \in {{}, s.rows} /\ ItemsOf(o, db.items) \subseteq db.items
        BY <3>1, <3>2 DEF Whole, ItemsOf
      <4> QED BY <2>1, <3>3, <4>1
    <3>5. db.sum[o] = 0
      BY <2>3, <3>2, <3>4, QuantityEmpty DEF SumsKept
    <3>6. d.sum[o] = db.sum[o] + Quantity(ItemsOf(o, s.rows))
      BY <2>1, <2>3 DEF Triggered, TablesTyped
    <3>7. ItemsOf(o, d.items) = ItemsOf(o, s.rows)
      BY <2>1, <3>4 DEF ItemsOf
    <3>8. Quantity(ItemsOf(o, s.rows)) \in Nat
      BY <1>4, ItemsOfStatement
    <3> QED BY <3>5, <3>6, <3>7, <3>8
  <2> QED BY <2>1, <2>2, <2>3 DEF SumsKept
<1> QED BY <1>1, <1>2, <1>3, <1>4 DEF Sendable, Statement

\* What a client may count.
Counts == [newOrders : Nat, newItems : Nat, delOrders : Nat, delItems : Nat, queries : Nat]

\* The types that WalkInv and TablesInv do not have, with the sums. Only a
\* client that has updates is in one.
StateInv ==
  /\ redirect \in BOOLEAN /\ cascade \in BOOLEAN
  /\ TablesTyped(db) /\ SumsKept(db)
  /\ pc \in [Clients -> {"loop", "update", "query"}]
  /\ \A c \in Clients : pc[c] = "update" => c \in Updaters
  /\ sent \in [Clients -> BOOLEAN] /\ up \in [Clients -> BOOLEAN]
  /\ \A c \in Updaters : seen[c] \subseteq 0..(Shares[c].n - 1)
  /\ currQi \in [Clients -> 0..(NQueries - 1)]
  /\ called \in [Clients -> [0..(NQueries - 1) -> Nat]]
  /\ count \in [Clients -> Counts]
  /\ ops \in [Clients -> Nat] /\ \A c \in Clients : ops[c] <= MaxOps[c]
  /\ failed \in BOOLEAN /\ panicked \in BOOLEAN

\* With the other two, StateInv has every type and the sums.
LEMMA TypesTogether == WalkInv /\ TablesInv /\ StateInv => TypeOK /\ SumIsOfItems
<1> SUFFICES ASSUME WalkInv, TablesInv, StateInv PROVE TypeOK /\ SumIsOfItems OBVIOUS
<1>1. ASSUME NEW c \in Updaters
      PROVE  /\ walk[c].order + perCycle <= Shares[c].n
             /\ walk[c].from <= walk[c].to /\ walk[c].to <= Shares[c].start[Shares[c].n]
  <2>1. /\ walk[c].order \in Nat /\ perCycle \in Nat \ {0} /\ Shares[c].n \in Nat
        /\ walk[c].order + perCycle <= Shares[c].n
        /\ walk[c].from = Shares[c].start[walk[c].order]
        /\ walk[c].to = Shares[c].start[walk[c].order + perCycle]
        /\ \A i, j \in 0..Shares[c].n : i <= j => Shares[c].start[i] <= Shares[c].start[j]
    BY ShareFacts DEF WalkInv
  <2>2. /\ walk[c].order \in 0..Shares[c].n /\ walk[c].order + perCycle \in 0..Shares[c].n
        /\ Shares[c].n \in 0..Shares[c].n /\ walk[c].order <= walk[c].order + perCycle
    BY <2>1
  <2> QED BY <2>1, <2>2
<1>2. \A c \in Clients : \A f \in DOMAIN count[c] : count[c][f] \in Nat
  <2>1. ASSUME NEW r \in Counts, NEW f \in DOMAIN r PROVE r[f] \in Nat
    <3>1. f \in {"newOrders", "newItems", "delOrders", "delItems", "queries"}
      BY DEF Counts
    <3>2. /\ r["newOrders"] \in Nat /\ r["newItems"] \in Nat /\ r["delOrders"] \in Nat
          /\ r["delItems"] \in Nat /\ r["queries"] \in Nat
      BY DEF Counts
    <3> QED BY <3>1, <3>2
  <2>2. \A c \in Clients : count[c] \in Counts
    BY DEF StateInv
  <2> QED BY <2>1, <2>2
<1>3. \A c \in Clients : ops[c] \in 0..MaxOps[c]
  BY NumbersAssumption DEF StateInv
<1>4. /\ db.orders \subseteq BaseOrders \cup ClientOrders
      /\ \A i \in db.items : OrderOf(i) \in db.orders
      /\ db.sum \in [BaseOrders \cup ClientOrders -> Nat]
      /\ todo \in [Clients -> Seq(Statements)]
  <2>1. \A T, S : S \subseteq T => [Clients -> Seq(S)] \subseteq [Clients -> Seq(T)]
    OBVIOUS
  <2>2. Sendable \subseteq Statements
    BY DEF Sendable, Statements
  <2>3. todo \in [Clients -> Seq(Sendable)]
    BY DEF TablesInv
  <2>4. todo \in [Clients -> Seq(Statements)]
    <3> HIDE DEF Sendable, Statements
    <3> QED BY <2>1, <2>2, <2>3
  <2> QED BY <2>4 DEF StateInv, TablesInv, Whole, TablesTyped
<1>5. SumIsOfItems
  BY DEF StateInv, SumsKept, SumIsOfItems
<1> HIDE DEF Sendable, Statements
<1> QED BY <1>1, <1>2, <1>3, <1>4, <1>5 DEF TypeOK, StateInv, WalkInv

\* The loaded orders have their sums, and the clients' orders are not there yet.
LEMMA InitStateInv == Init => StateInv
<1> SUFFICES ASSUME Init PROVE StateInv OBVIOUS
<1>1. /\ db.orders = BaseOrders
      /\ db.sum = [o \in BaseOrders \cup ClientOrders |->
                     IF cascade THEN Quantity(ItemsOf(o, BaseItems))
                                ELSE Cardinality(ItemsOf(o, BaseItems))]
  BY DEF Init
<1>2. ASSUME NEW o
      PROVE  Quantity(ItemsOf(o, BaseItems)) \in Nat /\ Cardinality(ItemsOf(o, BaseItems)) \in Nat
  <2>1. IsFiniteSet(ItemsOf(o, BaseItems)) /\ \A i \in ItemsOf(o, BaseItems) : i[2] \in Nat
    BY LoadedAssumption, FS_Subset DEF ItemsOf
  <2> QED BY <2>1, QuantityType, FS_CardinalityType
<1>3. TablesTyped(db) /\ SumsKept(db)
  BY <1>1, <1>2, LoadedAssumption DEF TablesTyped, SumsKept, Init
<1>4. count \in [Clients -> Counts]
  BY DEF Init, Counts
<1>5. /\ currQi \in [Clients -> 0..(NQueries - 1)]
      /\ called \in [Clients -> [0..(NQueries - 1) -> Nat]]
      /\ ops \in [Clients -> Nat] /\ \A c \in Clients : ops[c] <= MaxOps[c]
  BY NumbersAssumption DEF Init
<1>6. /\ pc = [c \in Clients |-> "loop"] /\ sent = [c \in Clients |-> FALSE]
      /\ up = [c \in Clients |-> redirect] /\ redirect \in BOOLEAN /\ cascade \in BOOLEAN
      /\ failed = FALSE /\ panicked = FALSE /\ seen = [c \in Updaters |-> {}]
  BY DEF Init
<1> QED BY <1>3, <1>4, <1>5, <1>6 DEF StateInv

\* The loaded items of an order are as many as ItemsPerOrder says, and none for a
\* key of 0, whatever it says of that.
LEMMA ItemsPerOrderIs ==
  ASSUME NEW o \in BaseOrders \cup {NoOrder}
  PROVE  /\ ItemsPerOrder(o) \in Nat
         /\ IsFiniteSet(ItemsOf(o, BaseItems))
         /\ Cardinality(ItemsOf(o, BaseItems)) <= ItemsPerOrder(o)
         /\ o # NoOrder => Cardinality(ItemsOf(o, BaseItems)) = ItemsPerOrder(o)
<1>1. IsFiniteSet(ItemsOf(o, BaseItems))
  BY LoadedAssumption, FS_Subset DEF ItemsOf
<1>2. Cardinality(ItemsOf(o, BaseItems)) \in Nat
  BY <1>1, FS_CardinalityType
<1>3. CASE o = NoOrder
  <2>1. ItemsOf(o, BaseItems) = {}
    BY <1>3, KeysAssumption DEF ItemsOf, BaseOrders
  <2> QED BY <1>1, <1>3, <2>1, FS_EmptySet, KeysAssumption DEF ItemsPerOrder
<1>4. CASE o # NoOrder
  BY <1>1, <1>2, <1>4 DEF ItemsPerOrder
<1> QED BY <1>3, <1>4

\* What an update adds to each counter is a number.
LEMMA GainType ==
  ASSUME WalkInv, redirect \in BOOLEAN, NEW c \in Updaters
  PROVE  Gain(c, redirect) \in Counts /\ Gain(c, redirect).queries = 0
<1>1. /\ walk[c].order \in Nat /\ perCycle \in Nat \ {0} /\ Shares[c].n \in Nat
      /\ walk[c].order + perCycle <= Shares[c].n
      /\ walk[c].from = Shares[c].start[walk[c].order]
      /\ walk[c].to = Shares[c].start[walk[c].order + perCycle]
      /\ \A i \in 0..Shares[c].n : Shares[c].start[i] \in Nat
      /\ \A i, j \in 0..Shares[c].n : i <= j => Shares[c].start[i] <= Shares[c].start[j]
  BY ShareFacts DEF WalkInv
<1>2. walk[c].order \in 0..Shares[c].n /\ walk[c].order + perCycle \in 0..Shares[c].n
  BY <1>1
<1>3. walk[c].to - walk[c].from \in Nat
  BY <1>1, <1>2
<1> DEFINE f == [i \in Batch(c) |-> ItemsPerOrder(DeleteKeys[c][i])]
<1>4. SumFunction(f) \in Nat
  <2>1. IsFiniteSet(Batch(c)) /\ Batch(c) \subseteq 0..(Shares[c].n - 1)
    BY <1>1, IntervalFinite DEF Batch
  <2>2. \A i \in Batch(c) : f[i] \in Nat
    BY <2>1, KeysAssumption, ItemsPerOrderIs
  <2>3. SumFunction(f) = SumFunctionOnSet(f, Batch(c))
    BY DEF SumFunction
  <2> HIDE DEF f
  <2> QED BY <2>1, <2>2, <2>3, SumType
<1>5. Gain(c, redirect) =
        [newOrders |-> perCycle, newItems |-> walk[c].to - walk[c].from,
         delOrders |-> IF redirect THEN perCycle ELSE 0,
         delItems |-> IF redirect THEN SumFunction(f) ELSE 0, queries |-> 0]
  BY DEF Gain
<1> HIDE DEF f
<1> QED BY <1>1, <1>3, <1>4, <1>5 DEF Counts

\* The counters of a client after an update, each by itself.
LEMMA CountedType ==
  ASSUME WalkInv, StateInv, NEW c \in Updaters
  PROVE  /\ Counted(c) \in Counts
         /\ \A f \in {"newOrders", "newItems", "delOrders", "delItems", "queries"} :
              Counted(c)[f] = count[c][f] + Gain(c, redirect)[f]
<1> DEFINE F == {"newOrders", "newItems", "delOrders", "delItems", "queries"}
           r == count[c]
           g == Gain(c, redirect)
<1>1. r \in Counts /\ g \in Counts
  BY GainType, ClientsAssumption DEF StateInv
<1>2. DOMAIN r = F
  BY <1>1 DEF Counts
<1>3. Counted(c) = [f \in F |-> r[f] + g[f]]
  BY <1>2 DEF Counted
<1> HIDE DEF r, g
<1>4. \A f \in F : r[f] \in Nat /\ g[f] \in Nat
  BY <1>1 DEF Counts
<1>5. [f \in F |-> r[f] + g[f]] =
        [newOrders |-> r.newOrders + g.newOrders, newItems |-> r.newItems + g.newItems,
         delOrders |-> r.delOrders + g.delOrders, delItems |-> r.delItems + g.delItems,
         queries |-> r.queries + g.queries]
  OBVIOUS
<1>6. Counted(c) \in Counts
  BY <1>3, <1>4, <1>5 DEF Counts
<1> QED BY <1>3, <1>6 DEF r, g

\* The functions called are counted by numbers.
LEMMA CallsOfType ==
  ASSUME NEW f \in [0..(NQueries - 1) -> Nat], NEW q, NEW n \in Nat
  PROVE  CallsOf(f, q, n) \in [0..(NQueries - 1) -> Nat]
<1>1. \A g : IsFiniteSet({i \in 0..(n - 1) : Rotated(q, i) = g})
  BY IntervalFinite, FS_Subset
<1> DEFINE times(g) == Cardinality({i \in 0..(n - 1) : Rotated(q, i) = g})
<1>2. \A g : times(g) \in Nat
  BY <1>1, FS_CardinalityType
<1>3. CallsOf(f, q, n) = [g \in 0..(NQueries - 1) |-> f[g] + times(g)]
  BY DEF CallsOf
<1> HIDE DEF times
<1> QED BY <1>2, <1>3

\* Types and sums are kept, by every operation of a client and every statement.
LEMMA StepStateInv == WalkInv /\ TablesInv /\ StateInv /\ [Next]_vars => StateInv'
<1> SUFFICES ASSUME WalkInv, TablesInv, StateInv, [Next]_vars PROVE StateInv' OBVIOUS
<1>1. ASSUME NEW c \in Clients, StartUpdate(c) PROVE StateInv'
  <2>1. ops[c] < MaxOps[c] /\ ops' = [ops EXCEPT ![c] = @ + 1]
    BY <1>1 DEF StartUpdate, Round
  <2>2. ops' \in [Clients -> Nat] /\ \A d \in Clients : ops'[d] <= MaxOps[d]
    <3>1. MaxOps[c] \in Nat /\ ops[c] \in Nat
      BY NumbersAssumption DEF StateInv
    <3>2. ops[c] + 1 \in Nat /\ ops[c] + 1 <= MaxOps[c]
      BY <2>1, <3>1
    <3> QED BY <2>1, <3>2 DEF StateInv
  <2>3. sent' \in [Clients -> BOOLEAN]
    BY <1>1 DEF StartUpdate, Send, StateInv
  <2>4. /\ pc' \in [Clients -> {"loop", "update", "query"}]
        /\ \A d \in Clients : pc'[d] = "update" => d \in Updaters
    BY <1>1 DEF StartUpdate, StateInv
  <2>5. panicked' \in BOOLEAN /\ failed' \in BOOLEAN
    BY <1>1 DEF StartUpdate, StateInv
  <2>6. UNCHANGED <<redirect, cascade, db, up, seen, currQi, called, count>>
    BY <1>1 DEF StartUpdate, config
  <2> QED BY <2>2, <2>3, <2>4, <2>5, <2>6 DEF StateInv, TablesTyped, SumsKept
<1>2. ASSUME NEW c \in Clients, Execute(c) PROVE StateInv'
  <2>1. Head(todo[c]) \in Sendable
    BY <1>2 DEF Execute, TablesInv
  <2>2. db' \in {db, After(Head(todo[c]))}
    BY <1>2 DEF Execute
  <2>3. TablesTyped(db') /\ SumsKept(db')
    BY <2>1, <2>2, AfterIsTyped, AfterKeepsSums DEF StateInv, TablesInv
  <2>4. /\ failed' \in BOOLEAN
        /\ UNCHANGED <<redirect, cascade, pc, sent, up, seen, currQi, called, count, ops, panicked>>
    BY <1>2 DEF Execute, config, StateInv
  <2> QED BY <2>3, <2>4 DEF StateInv, TablesTyped, SumsKept
<1>3. ASSUME NEW c \in Clients, EndUpdate(c) PROVE StateInv'
  <2>1. c \in Updaters
    BY <1>3 DEF EndUpdate, StateInv
  <2>2. Counted(c) \in Counts /\ count' = [count EXCEPT ![c] = Counted(c)]
    BY <1>3, <2>1, CountedType DEF EndUpdate
  <2>3. Batch(c) \subseteq 0..(Shares[c].n - 1)
    <3>1. /\ walk[c].order \in Nat /\ perCycle \in Nat /\ Shares[c].n \in Nat
          /\ walk[c].order + perCycle <= Shares[c].n
      BY <2>1, ShareFacts DEF WalkInv
    <3> QED BY <3>1 DEF Batch
  <2>4. \A d \in Updaters : seen'[d] \subseteq 0..(Shares[d].n - 1)
    BY <1>3, <2>3 DEF EndUpdate, StateInv, WalkInv
  <2>5. /\ pc' \in [Clients -> {"loop", "update", "query"}]
        /\ \A d \in Clients : pc'[d] = "update" => d \in Updaters
    BY <1>3 DEF EndUpdate, StateInv
  <2>6. UNCHANGED <<redirect, cascade, db, sent, up, currQi, called, ops, failed, panicked>>
    BY <1>3 DEF EndUpdate, config
  <2> QED BY <2>2, <2>4, <2>5, <2>6 DEF StateInv, TablesTyped, SumsKept
<1>4. ASSUME NEW c \in Clients, StartQuery(c) PROVE StateInv'
  <2>1. ops[c] < MaxOps[c] /\ ops' = [ops EXCEPT ![c] = @ + 1]
    BY <1>4 DEF StartQuery, Round
  <2>2. ops' \in [Clients -> Nat] /\ \A d \in Clients : ops'[d] <= MaxOps[d]
    <3>1. MaxOps[c] \in Nat /\ ops[c] \in Nat
      BY NumbersAssumption DEF StateInv
    <3>2. ops[c] + 1 \in Nat /\ ops[c] + 1 <= MaxOps[c]
      BY <2>1, <3>1
    <3> QED BY <2>1, <3>2 DEF StateInv
  <2>3. sent' \in [Clients -> BOOLEAN]
    BY <1>4 DEF StartQuery, Send, StateInv
  <2>4. /\ pc' \in [Clients -> {"loop", "update", "query"}]
        /\ \A d \in Clients : pc'[d] = "update" => d \in Updaters
    BY <1>4 DEF StartQuery, StateInv
  <2>5. called' = [called EXCEPT ![c] = CallsOf(called[c], currQi[c], perCycle)]
    BY <1>4 DEF StartQuery
  <2>6. CallsOf(called[c], currQi[c], perCycle) \in [0..(NQueries - 1) -> Nat]
    BY CallsOfType, NumbersAssumption DEF StateInv, WalkInv
  <2>7. panicked' \in BOOLEAN
    BY <1>4 DEF StartQuery, StateInv
  <2>8. UNCHANGED <<redirect, cascade, db, up, seen, currQi, count, failed>>
    BY <1>4 DEF StartQuery, config
  <2> QED BY <2>2, <2>3, <2>4, <2>5, <2>6, <2>7, <2>8 DEF StateInv, TablesTyped, SumsKept
<1>5. ASSUME NEW c \in Clients, EndQuery(c) PROVE StateInv'
  <2>1. \A q, n \in Int : Rotated(q, n) \in 0..(NQueries - 1)
    BY NumbersAssumption DEF Rotated
  <2>2. Rotated(currQi[c], perCycle) \in 0..(NQueries - 1)
    BY <2>1, NumbersAssumption DEF StateInv, WalkInv
  <2>3. currQi' \in [Clients -> 0..(NQueries - 1)]
    BY <1>5, <2>2 DEF EndQuery, StateInv
  <2>4. count' \in [Clients -> Counts]
    <3>1. count' = count \/ count' = [count EXCEPT ![c].queries = @ + 1]
      BY <1>5 DEF EndQuery, QueriesCounted
    <3>2. count[c] \in Counts
      BY DEF StateInv
    <3>3. [count[c] EXCEPT !.queries = @ + 1] \in Counts
      BY <3>2 DEF Counts
    <3> HIDE DEF Counts
    <3> QED BY <3>1, <3>3 DEF StateInv
  <2>5. /\ pc' \in [Clients -> {"loop", "update", "query"}]
        /\ \A d \in Clients : pc'[d] = "update" => d \in Updaters
    BY <1>5 DEF EndQuery, StateInv
  <2>6. panicked' \in BOOLEAN
    BY <1>5 DEF EndQuery, StateInv
  <2>7. UNCHANGED <<redirect, cascade, db, sent, up, seen, called, ops, failed>>
    BY <1>5 DEF EndQuery, config
  <2> QED BY <2>3, <2>4, <2>5, <2>6, <2>7 DEF StateInv, TablesTyped, SumsKept
<1>6. ASSUME NEW c \in Clients, Break(c) PROVE StateInv'
  BY <1>6 DEF Break, StateInv, TablesTyped, SumsKept, config, client
<1>7. CASE UNCHANGED vars
  BY <1>7 DEF vars, config, client, StateInv, TablesTyped, SumsKept
<1> QED BY <1>1, <1>2, <1>3, <1>4, <1>5, <1>6, <1>7 DEF Next

\* StateInv holds in every reachable state.
THEOREM StateInvariance == Spec => []StateInv
<1>1. Spec => []TablesInv
  BY InitTablesInv, StepTablesInv, WalkInvariant, PTL DEF Spec
<1> QED BY <1>1, InitStateInv, StepStateInv, WalkInvariant, PTL DEF Spec

\* The variables keep their types, whichever statements and connections fail.
THEOREM TypeCorrect == Spec => []TypeOK
<1>1. Spec => []TablesInv
  BY InitTablesInv, StepTablesInv, WalkInvariant, PTL DEF Spec
<1> QED BY <1>1, TypesTogether, StateInvariance, WalkInvariant, PTL

\* The sum the trigger keeps with a client's order is that of the items the order
\* has, after any statements, failures and repetitions (pgTriggers.go).
THEOREM SumsAreOfItems == Spec => []SumIsOfItems
<1>1. Spec => []TablesInv
  BY InitTablesInv, StepTablesInv, WalkInvariant, PTL DEF Spec
<1> QED BY <1>1, TypesTogether, StateInvariance, WalkInvariant, PTL

-----------------------------------------------------------------------------
(* The turns of the query functions. *)

\* The function after the last is the first.
LEMMA RotatedNext ==
  ASSUME NEW q \in 0..(NQueries - 1), NEW n \in Nat
  PROVE  /\ Rotated(q, n) \in 0..(NQueries - 1)
         /\ Rotated(q, n + 1) = IF Rotated(q, n) = NQueries - 1 THEN 0 ELSE Rotated(q, n) + 1
<1>1. \A N \in Nat \ {0}, a \in Nat :
        /\ a % N \in 0..(N - 1)
        /\ (a + 1) % N = IF a % N = N - 1 THEN 0 ELSE (a % N) + 1
  <2> TAKE N \in Nat \ {0}, a \in Nat
  <2> DEFINE k == a \div N
             r == a % N
             j == (a + 1) \div N
             s == (a + 1) % N
  <2>1. k \in Int /\ j \in Int /\ r \in 0..(N - 1) /\ s \in 0..(N - 1)
    OBVIOUS
  <2>2. a = N * k + r /\ a + 1 = N * j + s
    OBVIOUS
  <2> HIDE DEF k, r, j, s
  <2>3. r + 1 - s = N * (j - k)
    BY <2>1, <2>2
  <2>4. N * (j - k) <= N /\ N * (j - k) > -N
    BY <2>1, <2>3
  <2>5. j - k = 0 \/ j - k = 1
    <3>1. CASE j - k >= 2
      <4>1. N * (j - k) >= N * 2
        BY <2>1, <3>1
      <4> QED BY <2>1, <2>4, <4>1
    <3>2. CASE j - k <= -1
      <4>1. N * (j - k) <= N * (-1)
        BY <2>1, <3>2
      <4> QED BY <2>1, <2>4, <4>1
    <3> QED BY <2>1, <3>1, <3>2
  <2>6. s = IF r = N - 1 THEN 0 ELSE r + 1
    BY <2>1, <2>3, <2>5
  <2> QED BY <2>1, <2>6 DEF r, s
<1>2. NQueries \in Nat \ {0} /\ q + n \in Nat /\ q + (n + 1) = (q + n) + 1
  BY NumbersAssumption
<1> QED BY <1>1, <1>2 DEF Rotated

\* One call more is one more of the function whose turn it is.
LEMMA CallsOfNext ==
  ASSUME NEW f \in [0..(NQueries - 1) -> Nat], NEW q \in 0..(NQueries - 1), NEW n \in Nat
  PROVE  CallsOf(f, q, n + 1) =
           [g \in 0..(NQueries - 1) |->
              CallsOf(f, q, n)[g] + IF g = Rotated(q, n) THEN 1 ELSE 0]
<1> DEFINE at(g, m) == {i \in 0..(m - 1) : Rotated(q, i) = g}
<1>1. ASSUME NEW g
      PROVE  Cardinality(at(g, n + 1)) = Cardinality(at(g, n)) + (IF g = Rotated(q, n) THEN 1 ELSE 0)
             /\ Cardinality(at(g, n)) \in Nat
  <2>1. IsFiniteSet(at(g, n)) /\ n \notin at(g, n)
    BY IntervalFinite, FS_Subset
  <2>2. at(g, n + 1) = IF g = Rotated(q, n) THEN at(g, n) \cup {n} ELSE at(g, n)
    <3>1. 0..(n + 1 - 1) = 0..(n - 1) \cup {n}
      OBVIOUS
    <3> QED BY <3>1
  <2> HIDE DEF at
  <2>3. Cardinality(at(g, n)) \in Nat /\ Cardinality(at(g, n) \cup {n}) = Cardinality(at(g, n)) + 1
    BY <2>1, FS_AddElement, FS_CardinalityType
  <2>4. CASE g = Rotated(q, n)
    BY <2>2, <2>3, <2>4
  <2>5. CASE g # Rotated(q, n)
    BY <2>2, <2>3, <2>5
  <2> QED BY <2>3, <2>4, <2>5
<1>2. \A m : CallsOf(f, q, m) = [g \in 0..(NQueries - 1) |-> f[g] + Cardinality(at(g, m))]
  BY DEF CallsOf
<1> HIDE DEF at
<1>3. ASSUME NEW g \in 0..(NQueries - 1)
      PROVE  f[g] + Cardinality(at(g, n + 1)) =
               CallsOf(f, q, n)[g] + IF g = Rotated(q, n) THEN 1 ELSE 0
  <2>1. CallsOf(f, q, n)[g] = f[g] + Cardinality(at(g, n)) /\ f[g] \in Nat
    BY <1>2
  <2>2. CASE g = Rotated(q, n)
    BY <1>1, <2>1, <2>2
  <2>3. CASE g # Rotated(q, n)
    BY <1>1, <2>1, <2>3
  <2> QED BY <2>2, <2>3
<1> QED BY <1>2, <1>3

\* How often each function has been called when it is q's turn for the k-th time.
Turns(k, q) == [g \in 0..(NQueries - 1) |-> IF g < q THEN k + 1 ELSE k]

\* A helper goes on with the turns.
LEMMA CallsOfTurns ==
  ASSUME NEW k \in Nat, NEW q \in 0..(NQueries - 1), NEW n \in Nat
  PROVE  \E j \in Nat : CallsOf(Turns(k, q), q, n) = Turns(j, Rotated(q, n))
<1> DEFINE f == Turns(k, q)
           h(m) == CallsOf(f, q, m)
           T == {m \in Nat : \E j \in Nat : h(m) = Turns(j, Rotated(q, m))}
           Q == 0..(NQueries - 1)
<1>1. NQueries \in Nat \ {0}
  BY NumbersAssumption
<1>2. f \in [Q -> Nat]
  BY DEF Turns
<1>3. 0 \in T
  <2>1. Rotated(q, 0) = q
    <3>1. \A N \in Nat \ {0} : \A a \in 0..(N - 1) : a % N = a
      OBVIOUS
    <3> QED BY <1>1, <3>1 DEF Rotated
  <2>2. h(0) = f
    <3>1. \A g : {i \in 0..(0 - 1) : Rotated(q, i) = g} = {}
      OBVIOUS
    <3>2. h(0) = [g \in Q |-> f[g] + 0]
      BY <3>1, FS_EmptySet, <1>2 DEF CallsOf
    <3>3. \A g \in Q : f[g] + 0 = f[g]
      BY <1>2
    <3> HIDE DEF f, Q
    <3> QED BY <1>2, <3>2, <3>3
  <2> HIDE DEF h
  <2> QED BY <2>1, <2>2
<1>4. ASSUME NEW m \in Nat, m \in T PROVE m + 1 \in T
  <2> DEFINE r == Rotated(q, m)
  <2>1. PICK j \in Nat : h(m) = Turns(j, r)
    BY <1>4
  <2>2. r \in Q /\ Rotated(q, m + 1) = IF r = NQueries - 1 THEN 0 ELSE r + 1
    BY RotatedNext
  <2>3. h(m + 1) = [g \in Q |-> h(m)[g] + IF g = r THEN 1 ELSE 0]
    BY <1>2, CallsOfNext
  <2> HIDE DEF h, r, f
  <2>4. CASE r = NQueries - 1
    <3>1. \A g \in Q : h(m)[g] + (IF g = r THEN 1 ELSE 0) = Turns(j + 1, 0)[g]
      BY <1>1, <2>1, <2>2, <2>4 DEF Turns
    <3>2. h(m + 1) = Turns(j + 1, 0)
      BY <2>3, <3>1 DEF Turns
    <3> QED BY <2>2, <2>4, <3>2
  <2>5. CASE r # NQueries - 1
    <3>1. \A g \in Q : h(m)[g] + (IF g = r THEN 1 ELSE 0) = Turns(j, r + 1)[g]
      BY <1>1, <2>1, <2>2, <2>5 DEF Turns
    <3>2. h(m + 1) = Turns(j, r + 1)
      BY <2>3, <3>1 DEF Turns
    <3> QED BY <2>2, <2>5, <3>2
  <2> QED BY <2>4, <2>5
<1>5. Nat \subseteq T
  <2> HIDE DEF T
  <2> QED BY <1>3, <1>4, SetInduction
<1> QED BY <1>5

\* Each client's functions have been called in turns; the next is the one its
\* query function index says, or will say once the answer is there.
TurnsInv ==
  \A c \in Clients :
    \E k \in Nat, q \in 0..(NQueries - 1) :
      /\ called[c] = Turns(k, q)
      /\ ~panicked => q = IF pc[c] = "query" THEN Rotated(currQi[c], perCycle) ELSE currQi[c]

\* No function has been called at first.
LEMMA InitTurnsInv == Init => TurnsInv
<1> SUFFICES ASSUME Init, NEW c \in Clients
             PROVE  /\ called[c] = Turns(0, 0) /\ 0 \in 0..(NQueries - 1)
                    /\ 0 = IF pc[c] = "query" THEN Rotated(currQi[c], perCycle) ELSE currQi[c]
  BY DEF TurnsInv
<1>1. called[c] = [q \in 0..(NQueries - 1) |-> 0] /\ pc[c] = "loop" /\ currQi[c] = 0
  BY DEF Init
<1>2. called[c] = Turns(0, 0)
  BY <1>1 DEF Turns
<1> QED BY <1>1, <1>2, NumbersAssumption

\* Calls are made when a query starts; the index follows when it has its answer.
LEMMA StepTurnsInv == WalkInv /\ StateInv /\ TurnsInv /\ [Next]_vars => TurnsInv'
<1> SUFFICES ASSUME WalkInv, StateInv, TurnsInv, [Next]_vars, NEW d \in Clients
             PROVE  \E k \in Nat, q \in 0..(NQueries - 1) :
                      /\ called'[d] = Turns(k, q)
                      /\ ~panicked' =>
                           q = IF pc'[d] = "query" THEN Rotated(currQi'[d], perCycle') ELSE currQi'[d]
  BY DEF TurnsInv
<1>1. PICK k \in Nat :
        \E q \in 0..(NQueries - 1) :
          /\ called[d] = Turns(k, q)
          /\ ~panicked => q = IF pc[d] = "query" THEN Rotated(currQi[d], perCycle) ELSE currQi[d]
  BY DEF TurnsInv
<1>2. PICK q \in 0..(NQueries - 1) :
          /\ called[d] = Turns(k, q)
          /\ ~panicked => q = IF pc[d] = "query" THEN Rotated(currQi[d], perCycle) ELSE currQi[d]
  BY <1>1
<1>3. /\ pc \in [Clients -> {"loop", "update", "query"}] /\ currQi \in [Clients -> 0..(NQueries - 1)]
      /\ called \in [Clients -> [0..(NQueries - 1) -> Nat]] /\ perCycle \in Nat
  BY NumbersAssumption DEF StateInv, WalkInv
<1> DEFINE Kept == /\ UNCHANGED <<called, currQi, perCycle>>
                   /\ (pc'[d] = "query") <=> (pc[d] = "query")
                   /\ panicked => panicked'
<1>4. CASE Kept
  BY <1>2, <1>4
<1>5. ASSUME NEW c \in Clients, StartUpdate(c) PROVE Kept
  BY <1>3, <1>5 DEF StartUpdate, Round, config
<1>6. ASSUME NEW c \in Clients, EndUpdate(c) PROVE Kept
  BY <1>3, <1>6 DEF EndUpdate, config
<1>7. ASSUME NEW c \in Clients, Execute(c) \/ Break(c) PROVE Kept
  BY <1>7 DEF Execute, Break, config, client
<1>8. ASSUME NEW c \in Clients, c # d, StartQuery(c) \/ EndQuery(c)
      PROVE  /\ called'[d] = called[d] /\ currQi'[d] = currQi[d]
             /\ pc'[d] = pc[d] /\ perCycle' = perCycle /\ (panicked => panicked')
  BY <1>3, <1>8 DEF StartQuery, EndQuery, Round, config
<1>9. CASE StartQuery(d)
  <2>1. /\ ~panicked /\ pc[d] = "loop" /\ called'[d] = CallsOf(called[d], currQi[d], perCycle)
        /\ perCycle' = perCycle /\ currQi' = currQi
        /\ ~panicked' => pc'[d] = "query"
    BY <1>3, <1>9 DEF StartQuery, Round, config
  <2>2. q = currQi[d]
    BY <1>2, <2>1
  <2>3. PICK j \in Nat : called'[d] = Turns(j, Rotated(q, perCycle))
    BY <1>2, <1>3, <2>1, <2>2, CallsOfTurns
  <2>4. Rotated(q, perCycle) \in 0..(NQueries - 1)
    BY <1>3, RotatedNext
  <2> QED BY <2>1, <2>2, <2>3, <2>4
<1>10. CASE EndQuery(d)
  <2>1. CASE panicked'
    <3>1. called' = called
      BY <1>10 DEF EndQuery
    <3> QED BY <1>2, <2>1, <3>1
  <2>2. CASE ~panicked'
    <3>1. /\ ~panicked /\ pc[d] = "query" /\ pc'[d] = "loop" /\ called' = called
          /\ perCycle' = perCycle /\ currQi'[d] = Rotated(currQi[d], perCycle)
      BY <1>3, <1>10, <2>2 DEF EndQuery, config
    <3> QED BY <1>2, <3>1
  <2> QED BY <2>1, <2>2
<1>11. CASE UNCHANGED vars
  BY <1>2, <1>11 DEF vars, config, client
<1>12. CASE Next
  <2>1. PICK c \in Clients : \/ StartUpdate(c) \/ Execute(c) \/ EndUpdate(c)
                             \/ StartQuery(c) \/ EndQuery(c) \/ Break(c)
    BY <1>12 DEF Next
  <2>2. CASE StartQuery(c) \/ EndQuery(c)
    BY <1>2, <1>8, <1>9, <1>10, <2>2
  <2>3. CASE StartUpdate(c) \/ EndUpdate(c) \/ Execute(c) \/ Break(c)
    BY <1>4, <1>5, <1>6, <1>7, <2>3
  <2> QED BY <2>1, <2>2, <2>3
<1> QED BY <1>11, <1>12

\* TurnsInv holds in every reachable state.
THEOREM TurnsInvariance == Spec => []TurnsInv
BY InitTurnsInv, StepTurnsInv, StateInvariance, WalkInvariant, PTL DEF Spec

\* No query function of a client is ever two calls behind another, in batches as
\* one at a time (the loops over QueryFuncs in pgQuery.go).
THEOREM QueriesTakeTurns == Spec => []QueriesRotate
<1>1. TurnsInv => QueriesRotate
  <2> SUFFICES ASSUME TurnsInv, NEW c \in Clients, NEW p \in 0..(NQueries - 1), NEW r \in 0..(NQueries - 1)
               PROVE  called[c][p] <= called[c][r] + 1
    BY DEF QueriesRotate
  <2>1. \E k \in Nat, q \in 0..(NQueries - 1) : called[c] = Turns(k, q)
    BY DEF TurnsInv
  <2> QED BY <2>1 DEF Turns
<1> QED BY <1>1, TurnsInvariance, PTL
-----------------------------------------------------------------------------
(* The balance of what is reported and what is in the tables. It is kept     *)
(* order by order: each order of a client that was sent changes the tables   *)
(* at most so much, and adds to the counters what it was sent with.          *)

\* The orders among os that are client c's, and the keys that go with them.
Of(c, os) == {o \in os : o[1] = c}
Keys(os) == {KeyWith(o) : o \in os}

\* The orders of a client's next update.
SentBy(c) == {<<c, i>> : i \in Batch(c)}

\* The rows of the statements of one kind.
RowsOf(t, k) == UNION {t[j].rows : j \in {j \in DOMAIN t : t[j].kind = k}}

\* The counters that have to do with the tables, and those that are right if
\* nothing fails: the items of batches are counted and not sent.
Names == {"newOrders", "newItems", "delOrders", "delItems"}
Fields == {"newOrders", "delOrders", "delItems"} \cup (IF perCycle = 1 THEN {"newItems"} ELSE {})

\* What has changed in the tables, by the counter that says how much.
Changed ==
  [newOrders |-> Inserted,
   newItems  |-> db.items \ BaseItems,
   delOrders |-> Gone,
   delItems  |-> BaseItems \ db.items]

\* What the update of each order is to change.
Does ==
  [newOrders |-> [o \in ClientOrders |-> {o}],
   newItems  |-> [o \in ClientOrders |-> ItemsOfOrder(o[1], o[2])],
   delOrders |-> [o \in ClientOrders |-> IF redirect THEN {KeyWith(o)} ELSE {}],
   delItems  |-> [o \in ClientOrders |-> IF redirect THEN ItemsOf(KeyWith(o), BaseItems) ELSE {}]]

\* What the update of each order adds to the counters.
Weight ==
  [newOrders |-> [o \in ClientOrders |-> 1],
   newItems  |-> [o \in ClientOrders |-> ItemsIn(o[1], o[2], o[2] + 1)],
   delOrders |-> [o \in ClientOrders |-> IF redirect THEN 1 ELSE 0],
   delItems  |-> [o \in ClientOrders |-> IF redirect THEN ItemsPerOrder(KeyWith(o)) ELSE 0]]

Total(f, os) == SumFunctionOnSet(Weight[f], os)

\* What a client reports, with what its update under way will add.
Reported(c, f) == count[c][f] + IF pc[c] = "update" THEN Total(f, SentBy(c)) ELSE 0

\* The loaded items are in the tables with their orders, and others are not.
LoadedInv ==
  /\ IsFiniteSet(db.items)
  /\ \A i \in db.items : OrderOf(i) \in BaseOrders => i \in BaseItems
  /\ \A i \in BaseItems : OrderOf(i) \in db.orders => i \in db.items

\* Batches have no items.
BatchInv ==
  perCycle # 1 =>
    /\ db.items \subseteq BaseItems
    /\ \A c \in Clients : RowsOf(todo[c], "items") = {}

\* The orders U of the clients were sent: those in the tables and those still to
\* be inserted are among them, loaded orders go with some of them only, and all
\* of them are reported.
Sent(U) ==
  /\ Inserted \subseteq U
  /\ Gone \subseteq IF redirect THEN Keys(U) ELSE {}
  /\ \A c \in Clients :
       /\ RowsOf(todo[c], "orders") \subseteq U
       /\ RowsOf(todo[c], "deletes") \subseteq IF redirect THEN Keys(U) ELSE {}
       /\ \A f \in Fields : Total(f, Of(c, U)) <= Reported(c, f)

SentInv == \E U \in SUBSET ClientOrders : Sent(U)

\* What may be left to execute of an update with the orders b.
ItemsSent(b) == IF perCycle = 1 THEN UNION {ItemsOfOrder(o[1], o[2]) : o \in b} ELSE {}

Rests(b) ==
  LET o == Statement("orders", b)
      i == Statement("items", ItemsSent(b))
      d == Statement("deletes", Keys(b)) IN
  IF redirect THEN {<<o, i, d>>, <<i, d>>, <<d>>} ELSE {<<o, i>>, <<i>>}

LeftOf(c, b) == b \subseteq Of(c, ClientOrders) /\ b # {} /\ todo[c] \in Rests(b)

\* What is left to execute of each client: an update of its own that is under way,
\* or that it gave up when its connection broke. If nothing has failed its orders
\* are there when their statement has been executed.
PendingInv ==
  \A c \in Clients : todo[c] # <<>> =>
    /\ pc[c] = "update" \/ (redirect /\ ~up[c])
    /\ \E b : LeftOf(c, b) /\ (~failed /\ Head(todo[c]).kind # "orders" => b \subseteq db.orders)

\* As long as nothing has failed, a client's orders in the tables and those it is
\* about to insert are all that it reports.
ExactInv ==
  ~failed => \A c \in Clients : \A f \in Fields :
    Total(f, Of(c, Inserted)) + Total(f, RowsOf(todo[c], "orders")) = Reported(c, f)

\* As long as nothing has failed, an order that is in has its items and the order
\* that goes with it is deleted, or that is still to come; no others are deleted.
FollowInv ==
  ~failed =>
    /\ \A o \in Inserted :
         /\ redirect => KeyWith(o) \notin db.orders \/ KeyWith(o) \in RowsOf(todo[o[1]], "deletes")
         /\ perCycle = 1 => ItemsOfOrder(o[1], o[2]) \subseteq db.items \cup RowsOf(todo[o[1]], "items")
    /\ Gone \subseteq Keys(Inserted)

\* No step changes the configuration.
LEMMA ConfigStays == ASSUME [Next]_vars PROVE UNCHANGED config
<1>1. CASE Next
  BY <1>1 DEF Next, StartUpdate, Execute, EndUpdate, StartQuery, EndQuery, Break
<1> QED BY <1>1 DEF vars

\* What an order of a client is, and the key that goes with it.
LEMMA OrderIs ==
  ASSUME NEW o \in ClientOrders
  PROVE  /\ o[1] \in Updaters /\ o[1] \in Clients
         /\ o[2] \in 0..(Shares[o[1]].n - 1) /\ o = <<o[1], o[2]>>
         /\ KeyWith(o) \in BaseOrders \cup {NoOrder} /\ o \notin BaseOrders
<1>1. PICK c \in Updaters : o \in OrdersOfClient(c)
  BY DEF ClientOrders
<1>2. PICK i \in 0..(Shares[c].n - 1) : o = <<c, i>>
  BY <1>1 DEF OrdersOfClient
<1>3. DeleteKeys[c][i] \in BaseOrders \cup {NoOrder}
  BY KeysAssumption
<1> QED BY <1>1, <1>2, <1>3, LoadedAssumption, ClientsAssumption DEF KeyWith

\* The clients' orders are finitely many.
LEMMA OrdersFinite == ASSUME NEW os \in SUBSET ClientOrders PROVE IsFiniteSet(os)
<1>1. ASSUME NEW c \in Updaters PROVE IsFiniteSet(OrdersOfClient(c))
  <2> DEFINE I == 0..(Shares[c].n - 1)
             f == [i \in I |-> <<c, i>>]
  <2>1. IsFiniteSet(I)
    <3>1. Shares[c].n \in Nat
      BY SharesAssumption
    <3> QED BY <3>1, IntervalFinite
  <2>2. OrdersOfClient(c) = {f[i] : i \in I}
    BY DEF OrdersOfClient
  <2> HIDE DEF f, I
  <2> QED BY <2>1, <2>2, CardOfImage
<1> DEFINE g == [c \in Updaters |-> OrdersOfClient(c)]
<1>2. ClientOrders = UNION {g[c] : c \in Updaters} /\ \A c \in Updaters : IsFiniteSet(g[c])
  BY <1>1 DEF ClientOrders
<1>3. IsFiniteSet(Updaters)
  BY ClientsAssumption, FS_Subset
<1> HIDE DEF g
<1>4. IsFiniteSet({g[c] : c \in Updaters})
  BY <1>3, CardOfImage
<1>5. IsFiniteSet(UNION {g[c] : c \in Updaters})
  BY <1>2, <1>4, FS_UNION
<1> QED BY <1>2, <1>5, FS_Subset

\* Order i of a client has as many items as its share says.
LEMMA CardOfItems ==
  ASSUME NEW o \in ClientOrders
  PROVE  /\ IsFiniteSet(ItemsOfOrder(o[1], o[2]))
         /\ ItemsIn(o[1], o[2], o[2] + 1) \in Nat
         /\ Cardinality(ItemsOfOrder(o[1], o[2])) = ItemsIn(o[1], o[2], o[2] + 1)
<1> DEFINE c == o[1]
           n == o[2]
           a == Shares[c].start[n]
           z == Shares[c].start[n + 1]
           K == (a + 1)..z
           f == [k \in K |-> <<<<c, n>>, k>>]
<1>1. a \in Nat /\ z \in Nat /\ a <= z
  <2>1. /\ c \in Updaters /\ n \in 0..(Shares[c].n - 1)
        /\ Shares[c].n \in Nat /\ Shares[c].start \in [0..Shares[c].n -> Nat]
        /\ \A i \in 0..Shares[c].n, j \in 0..Shares[c].n : i <= j => Shares[c].start[i] <= Shares[c].start[j]
    BY OrderIs, SharesAssumption
  <2>2. n \in 0..Shares[c].n /\ n + 1 \in 0..Shares[c].n /\ n <= n + 1
    BY <2>1
  <2> QED BY <2>1, <2>2
<1>2. ItemsOfOrder(c, n) = {f[k] : k \in K} /\ \A x, y \in K : f[x] = f[y] => x = y
  BY DEF ItemsOfOrder
<1>3. ItemsIn(c, n, n + 1) = z - a
  BY DEF ItemsIn
<1> HIDE DEF a, z
<1>4. IsFiniteSet(K) /\ Cardinality(K) = z - a
  <2>1. \A i, j \in Int : IsFiniteSet(i..j) /\ Cardinality(i..j) = IF i > j THEN 0 ELSE j - i + 1
    BY FS_Interval
  <2>2. a + 1 \in Int /\ z \in Int
    BY <1>1
  <2>3. IsFiniteSet(K) /\ Cardinality(K) = IF a + 1 > z THEN 0 ELSE z - (a + 1) + 1
    BY <2>1, <2>2
  <2> QED BY <1>1, <2>3
<1> HIDE DEF K, f
<1>5. IsFiniteSet({f[k] : k \in K}) /\ Cardinality({f[k] : k \in K}) = Cardinality(K)
  BY <1>2, <1>4, CardOfImage
<1> HIDE DEF c, n
<1>6. /\ IsFiniteSet(ItemsOfOrder(c, n)) /\ ItemsIn(c, n, n + 1) \in Nat
      /\ Cardinality(ItemsOfOrder(c, n)) = ItemsIn(c, n, n + 1)
  BY <1>1, <1>2, <1>3, <1>4, <1>5
<1> QED BY <1>6 DEF c, n

\* What an order does to the tables is at most what it adds to the counters, and
\* just as much if its key is not 0.
LEMMA DoesIs ==
  ASSUME NEW o \in ClientOrders, NEW f \in Names
  PROVE  /\ Weight[f][o] \in Nat
         /\ IsFiniteSet(Does[f][o]) /\ Cardinality(Does[f][o]) <= Weight[f][o]
         /\ f \in {"newOrders", "newItems"} \/ KeyWith(o) # NoOrder =>
              Cardinality(Does[f][o]) = Weight[f][o]
<1>1. CASE f = "newOrders"
  <2>1. Does[f][o] = {o} /\ Weight[f][o] = 1
    BY <1>1 DEF Does, Weight
  <2>2. IsFiniteSet({o}) /\ Cardinality({o}) = 1
    BY FS_Singleton
  <2> QED BY <2>1, <2>2
<1>2. CASE f = "newItems"
  <2>1. Does[f][o] = ItemsOfOrder(o[1], o[2]) /\ Weight[f][o] = ItemsIn(o[1], o[2], o[2] + 1)
    BY <1>2 DEF Does, Weight
  <2> QED BY <2>1, CardOfItems
<1>3. CASE f = "delOrders"
  <2>1. Does[f][o] = (IF redirect THEN {KeyWith(o)} ELSE {}) /\ Weight[f][o] = IF redirect THEN 1 ELSE 0
    BY <1>3 DEF Does, Weight
  <2>2. IsFiniteSet({KeyWith(o)}) /\ Cardinality({KeyWith(o)}) = 1
    BY FS_Singleton
  <2>3. IsFiniteSet({}) /\ Cardinality({}) = 0
    BY FS_EmptySet
  <2>4. CASE redirect
    BY <2>1, <2>2, <2>4
  <2>5. CASE ~redirect
    BY <2>1, <2>3, <2>5
  <2> QED BY <2>4, <2>5
<1>4. CASE f = "delItems"
  <2> DEFINE k == KeyWith(o)
  <2>1. /\ Does[f][o] = (IF redirect THEN ItemsOf(k, BaseItems) ELSE {})
        /\ Weight[f][o] = IF redirect THEN ItemsPerOrder(k) ELSE 0
    BY <1>4 DEF Does, Weight
  <2>2. k \in BaseOrders \cup {NoOrder}
    BY OrderIs
  <2>3. /\ ItemsPerOrder(k) \in Nat /\ IsFiniteSet(ItemsOf(k, BaseItems))
        /\ Cardinality(ItemsOf(k, BaseItems)) <= ItemsPerOrder(k)
        /\ k # NoOrder => Cardinality(ItemsOf(k, BaseItems)) = ItemsPerOrder(k)
    BY <2>2, ItemsPerOrderIs
  <2>4. CASE redirect
    <3>1. Does[f][o] = ItemsOf(k, BaseItems) /\ Weight[f][o] = ItemsPerOrder(k)
      BY <2>1, <2>4
    <3>2. f \notin {"newOrders", "newItems"}
      BY <1>4
    <3>3. Weight[f][o] \in Nat /\ IsFiniteSet(Does[f][o]) /\ Cardinality(Does[f][o]) <= Weight[f][o]
      BY <2>3, <3>1
    <3>4. k # NoOrder => Cardinality(Does[f][o]) = Weight[f][o]
      BY <2>3, <3>1
    <3> QED BY <3>2, <3>3, <3>4
  <2>5. CASE ~redirect
    BY <2>1, <2>5, FS_EmptySet
  <2> QED BY <2>4, <2>5
<1> QED BY <1>1, <1>2, <1>3, <1>4 DEF Names

\* What orders add to a counter is a number.
LEMMA TotalType ==
  ASSUME NEW os \in SUBSET ClientOrders, NEW f \in Names
  PROVE  Total(f, os) \in Nat
<1>1. IsFiniteSet(os) /\ \A o \in os : Weight[f][o] \in Nat
  BY OrdersFinite, DoesIs
<1> QED BY <1>1, SumType DEF Total

\* The orders of a batch are the client's, and some.
LEMMA SentByIs ==
  ASSUME WalkInv, NEW c \in Updaters
  PROVE  /\ SentBy(c) \subseteq Of(c, ClientOrders) /\ SentBy(c) \in SUBSET ClientOrders
         /\ SentBy(c) # {} /\ IsFiniteSet(Batch(c)) /\ Cardinality(Batch(c)) = perCycle
         /\ Keys(SentBy(c)) = DeletesOfUpdate(c)
<1>1. /\ walk[c].order \in Nat /\ perCycle \in Nat \ {0} /\ Shares[c].n \in Nat
      /\ walk[c].order + perCycle <= Shares[c].n
  BY ShareFacts DEF WalkInv
<1>2. Batch(c) \subseteq 0..(Shares[c].n - 1) /\ walk[c].order \in Batch(c)
  BY <1>1 DEF Batch
<1>3. SentBy(c) \subseteq Of(c, ClientOrders) /\ SentBy(c) # {}
  <2>1. \A i \in Batch(c) : <<c, i>> \in ClientOrders /\ <<c, i>>[1] = c
    BY <1>2 DEF ClientOrders, OrdersOfClient
  <2> QED BY <1>2, <2>1 DEF SentBy, Of
<1>4. IsFiniteSet(Batch(c)) /\ Cardinality(Batch(c)) = perCycle
  <2> DEFINE a == walk[c].order
             b == walk[c].order + perCycle - 1
  <2>1. a \in Int /\ b \in Int /\ a <= b /\ Batch(c) = a..b /\ b - a + 1 = perCycle
    BY <1>1 DEF Batch
  <2> HIDE DEF a, b
  <2>2. IsFiniteSet(a..b) /\ Cardinality(a..b) = b - a + 1
    BY <2>1, FS_Interval
  <2> QED BY <2>1, <2>2
<1>5. Keys(SentBy(c)) = DeletesOfUpdate(c)
  <2>1. \A i : KeyWith(<<c, i>>) = DeleteKeys[c][i]
    BY DEF KeyWith
  <2>2. Keys(SentBy(c)) = {KeyWith(<<c, i>>) : i \in Batch(c)}
    BY DEF Keys, SentBy
  <2> QED BY <2>1, <2>2 DEF DeletesOfUpdate
<1> QED BY <1>3, <1>4, <1>5 DEF Of

\* An update adds to the counters what its orders do, but for the items of batches.
LEMMA GainIs ==
  ASSUME WalkInv, redirect \in BOOLEAN, NEW c \in Updaters, NEW f \in Fields
  PROVE  Gain(c, redirect)[f] = Total(f, SentBy(c))
<1> DEFINE S == SentBy(c)
           B == Batch(c)
           F == [i \in B |-> {<<c, i>>}]
<1>1. /\ S \in SUBSET ClientOrders /\ IsFiniteSet(S) /\ IsFiniteSet(B) /\ Cardinality(B) = perCycle
      /\ perCycle \in Nat
  BY SentByIs, OrdersFinite, ShareFacts
<1>2. /\ \A i \in B : F[i] = {<<c, i>>} /\ IsFiniteSet(F[i])
      /\ \A i, j \in B : i # j => F[i] \cap F[j] = {}
      /\ S = UNION {F[i] : i \in B}
  <2>1. \A i \in B : F[i] = {<<c, i>>}
    OBVIOUS
  <2>2. S = {<<c, i>> : i \in B}
    BY DEF SentBy
  <2> HIDE DEF F, B, S
  <2>3. \A i \in B : IsFiniteSet(F[i])
    BY <2>1, FS_Singleton
  <2>4. \A i, j \in B : i # j => F[i] \cap F[j] = {}
    BY <2>1
  <2>5. S = UNION {F[i] : i \in B}
    BY <2>1, <2>2
  <2> QED BY <2>1, <2>3, <2>4, <2>5
<1>3. \A i \in B : <<c, i>> \in S /\ <<c, i>>[1] = c /\ <<c, i>>[2] = i
  BY DEF SentBy
<1>4. \A o \in S : o \in ClientOrders /\ Weight[f][o] \in Nat
  BY <1>1, DoesIs DEF Fields, Names
<1> HIDE DEF S, B, F
\* A sum over the orders is one over the batch.
<1>5. ASSUME NEW g, \A i \in B : g[i] = Weight[f][<<c, i>>]
      PROVE  Total(f, S) = SumFunctionOnSet(g, B)
  <2> DEFINE w == Weight[f]
  <2>1. \A o \in S : w[o] \in Int
    BY <1>4
  <2>2. ASSUME NEW i \in B PROVE g[i] = SumFunctionOnSet(w, F[i])
    <3>1. w[<<c, i>>] \in Int
      BY <1>3, <2>1
    <3> HIDE DEF w
    <3>2. SumFunctionOnSet(w, {<<c, i>>}) = w[<<c, i>>]
      BY <3>1, SumSingleton
    <3>3. F[i] = {<<c, i>>}
      BY <1>2
    <3> QED BY <1>5, <3>2, <3>3 DEF w
  <2>3. \A i \in B : \A o \in F[i] : w[o] \in Int
    BY <1>2, <1>3, <2>1
  <2> HIDE DEF w
  <2>4. \A i \in B : IsFiniteSet(F[i]) /\ g[i] = SumFunctionOnSet(w, F[i])
    BY <1>2, <2>2
  <2>5. \A i, j \in B : i # j => F[i] \cap F[j] = {}
    BY <1>2
  <2>6. SumFunctionOnSet(w, UNION {F[i] : i \in B}) = SumFunctionOnSet(g, B)
    <3>1. IsFiniteSet(B)
      BY <1>1
    <3> QED BY <2>3, <2>4, <2>5, <3>1, SumOfUnion, SMTT(30)
  <2> QED BY <1>2, <2>6 DEF w, Total
<1>6. CASE f = "newOrders"
  <2> DEFINE g == [i \in B |-> 1]
  <2>1. \A i \in B : g[i] = 1
    OBVIOUS
  <2>2. \A i \in B : g[i] = Weight[f][<<c, i>>]
    BY <1>3, <1>4, <1>6 DEF Weight
  <2> HIDE DEF g
  <2>3. Total(f, S) = SumFunctionOnSet(g, B) /\ SumFunctionOnSet(g, B) = 1 * Cardinality(B)
    BY <1>1, <1>5, <2>1, <2>2, SumConst
  <2>4. Gain(c, redirect)[f] = perCycle
    BY <1>6 DEF Gain
  <2> QED BY <1>1, <2>3, <2>4 DEF S
<1>7. CASE f = "delOrders"
  <2> DEFINE k == IF redirect THEN 1 ELSE 0
             g == [i \in B |-> k]
  <2>1. k \in Int /\ \A i \in B : g[i] = k /\ Weight[f][<<c, i>>] = k
    BY <1>3, <1>4, <1>7 DEF Weight
  <2>2. Gain(c, redirect)[f] = k * perCycle
    BY <1>1, <1>7 DEF Gain
  <2> HIDE DEF g, k
  <2>3. Total(f, S) = SumFunctionOnSet(g, B)
    BY <1>5, <2>1
  <2>4. SumFunctionOnSet(g, B) = k * Cardinality(B)
    BY <1>1, <2>1, SumConst
  <2> QED BY <1>1, <2>2, <2>3, <2>4 DEF S
<1>8. CASE f = "newItems"
  <2> DEFINE o == walk[c].order
             g == [i \in B |-> ItemsIn(c, i, i + 1)]
  <2>1. perCycle = 1
    BY <1>8 DEF Fields
  <2>2. /\ o \in Nat /\ walk[c].from = Shares[c].start[o] /\ walk[c].to = Shares[c].start[o + 1]
    BY <2>1 DEF WalkInv
  <2>3. B = {o}
    BY <2>1, <2>2 DEF B, Batch
  <2>4. Gain(c, redirect)[f] = ItemsIn(c, o, o + 1)
    BY <1>8, <2>2 DEF Gain, ItemsIn
  <2>5. \A i \in B : g[i] = ItemsIn(c, i, i + 1) /\ Weight[f][<<c, i>>] = ItemsIn(c, i, i + 1)
    BY <1>3, <1>4, <1>8 DEF Weight
  <2> DEFINE k == ItemsIn(c, o, o + 1)
  <2>6. k \in Int /\ \A i \in B : g[i] = k
    BY <1>3, <1>4, <2>3, <2>5
  <2> HIDE DEF g, k, o
  <2>7. Total(f, S) = SumFunctionOnSet(g, B)
    BY <1>5, <2>5
  <2>8. SumFunctionOnSet(g, B) = k * Cardinality(B)
    BY <1>1, <2>6, SumConst
  <2> QED BY <1>1, <2>1, <2>4, <2>6, <2>7, <2>8 DEF S, k
<1>9. CASE f = "delItems" /\ redirect
  <2> DEFINE g == [i \in B |-> ItemsPerOrder(DeleteKeys[c][i])]
  <2>1. \A i \in B : g[i] = Weight[f][<<c, i>>]
    BY <1>3, <1>4, <1>9 DEF Weight, KeyWith
  <2>2. Gain(c, redirect)[f] = SumFunctionOnSet(g, B)
    BY <1>9 DEF Gain, SumFunction, B
  <2> HIDE DEF g
  <2> QED BY <1>5, <2>1, <2>2 DEF S
<1>10. CASE f = "delItems" /\ ~redirect
  <2> DEFINE g == [i \in B |-> 0]
  <2>1. \A i \in B : g[i] = 0
    OBVIOUS
  <2>2. \A i \in B : g[i] = Weight[f][<<c, i>>]
    BY <1>3, <1>4, <1>10 DEF Weight
  <2> HIDE DEF g
  <2>3. Total(f, S) = SumFunctionOnSet(g, B) /\ SumFunctionOnSet(g, B) = 0 * Cardinality(B)
    BY <1>1, <1>5, <2>1, <2>2, SumConst
  <2>4. Gain(c, redirect)[f] = 0
    BY <1>10 DEF Gain
  <2> QED BY <1>1, <2>3, <2>4 DEF S
<1>11. f \in {"newOrders", "newItems", "delOrders", "delItems"}
  BY DEF Fields
<1> QED BY <1>6, <1>7, <1>8, <1>9, <1>10, <1>11 DEF S

\* The orders of two sets that are one client's.
LEMMA OfIs ==
  /\ \A c, S, T : Of(c, S \cup T) = Of(c, S) \cup Of(c, T)
  /\ \A c, S : Of(c, S) \subseteq S
  /\ \A c, S, T : S \subseteq Of(c, T) => Of(c, S) = S /\ \A d : d # c => Of(d, S) = {}
  /\ \A S, T : Keys(S \cup T) = Keys(S) \cup Keys(T)
BY DEF Of, Keys

\* No statements have no rows.
LEMMA RowsOfNone == ASSUME NEW k PROVE RowsOf(<<>>, k) = {}
BY DEF RowsOf

\* Each statement adds its rows to those of its kind.
LEMMA RowsOfMore ==
  ASSUME NEW S, NEW t \in Seq(S), t # <<>>, NEW k
  PROVE  RowsOf(t, k) = (IF Head(t).kind = k THEN Head(t).rows ELSE {}) \cup RowsOf(Tail(t), k)
<1>1. /\ Len(t) \in Nat /\ Len(t) >= 1 /\ Head(t) = t[1] /\ DOMAIN t = 1..Len(t)
      /\ DOMAIN Tail(t) = 1..(Len(t) - 1) /\ \A j \in 1..(Len(t) - 1) : Tail(t)[j] = t[j + 1]
  OBVIOUS
<1>2. \A j \in DOMAIN t : j = 1 \/ (j - 1 \in DOMAIN Tail(t) /\ t[j] = Tail(t)[j - 1])
  BY <1>1
<1>3. \A j \in DOMAIN Tail(t) : j + 1 \in DOMAIN t /\ t[j + 1] = Tail(t)[j]
  BY <1>1
<1>4. ASSUME NEW r \in RowsOf(t, k)
      PROVE  r \in (IF Head(t).kind = k THEN Head(t).rows ELSE {}) \cup RowsOf(Tail(t), k)
  <2>1. PICK j \in DOMAIN t : t[j].kind = k /\ r \in t[j].rows
    BY DEF RowsOf
  <2> QED BY <1>1, <1>2, <2>1 DEF RowsOf
<1>5. ASSUME NEW r \in RowsOf(Tail(t), k) PROVE r \in RowsOf(t, k)
  <2>1. PICK j \in DOMAIN Tail(t) : Tail(t)[j].kind = k /\ r \in Tail(t)[j].rows
    BY DEF RowsOf
  <2> QED BY <1>3, <2>1 DEF RowsOf
<1>6. Head(t).kind = k => Head(t).rows \subseteq RowsOf(t, k)
  <2>1. 1 \in DOMAIN t
    BY <1>1
  <2> QED BY <1>1, <2>1 DEF RowsOf
<1> QED BY <1>4, <1>5, <1>6

\* The rows of one statement.
LEMMA RowsOfOne ==
  ASSUME NEW d, NEW k
  PROVE  RowsOf(<<d>>, k) = IF d.kind = k THEN d.rows ELSE {}
<1>1. <<d>> \in Seq({d}) /\ <<d>> # <<>> /\ Head(<<d>>) = d /\ Tail(<<d>>) = <<>>
  OBVIOUS
<1>2. RowsOf(<<d>>, k) = (IF d.kind = k THEN d.rows ELSE {}) \cup RowsOf(<<>>, k)
  BY <1>1, RowsOfMore
<1> QED BY <1>2, RowsOfNone

\* The rows of two statements.
LEMMA RowsOfTwo ==
  ASSUME NEW i, NEW d, NEW k
  PROVE  RowsOf(<<i, d>>, k) = (IF i.kind = k THEN i.rows ELSE {}) \cup RowsOf(<<d>>, k)
<1>1. <<i, d>> \in Seq({i, d}) /\ <<i, d>> # <<>> /\ Head(<<i, d>>) = i /\ Tail(<<i, d>>) = <<d>>
  OBVIOUS
<1> QED BY <1>1, RowsOfMore

\* The rows of three statements.
LEMMA RowsOfThree ==
  ASSUME NEW o, NEW i, NEW d, NEW k
  PROVE  RowsOf(<<o, i, d>>, k) = (IF o.kind = k THEN o.rows ELSE {}) \cup RowsOf(<<i, d>>, k)
<1>1. /\ <<o, i, d>> \in Seq({o, i, d}) /\ <<o, i, d>> # <<>> /\ Head(<<o, i, d>>) = o
      /\ Tail(<<o, i, d>>) = <<i, d>>
  OBVIOUS
<1>2. \A S : \A t \in Seq(S) : t # <<>> =>
        RowsOf(t, k) = (IF Head(t).kind = k THEN Head(t).rows ELSE {}) \cup RowsOf(Tail(t), k)
  BY RowsOfMore
<1> DEFINE t == <<o, i, d>>
<1> HIDE DEF t
<1>3. RowsOf(t, k) = (IF Head(t).kind = k THEN Head(t).rows ELSE {}) \cup RowsOf(Tail(t), k)
  BY <1>1, <1>2 DEF t
<1> QED BY <1>1, <1>3 DEF t

\* No statement gets rows by being executed, and its rows are among those of its kind.
LEMMA RowsOfTail ==
  ASSUME NEW t \in Seq(Sendable), t # <<>>
  PROVE  /\ \A k : RowsOf(Tail(t), k) \subseteq RowsOf(t, k)
         /\ Head(t).rows \subseteq RowsOf(t, Head(t).kind)
BY RowsOfMore

\* The rows of an update's statements.
LEMMA RowsOfUpdate ==
  ASSUME WalkInv, redirect \in BOOLEAN, NEW c \in Updaters
  PROVE  /\ RowsOf(StatementsOf(c), "orders") = SentBy(c)
         /\ RowsOf(StatementsOf(c), "items") = ItemsOfUpdate(c)
         /\ RowsOf(StatementsOf(c), "deletes") = IF redirect THEN Keys(SentBy(c)) ELSE {}
<1> DEFINE o == Statement("orders", SentBy(c))
           i == Statement("items", ItemsOfUpdate(c))
           d == Statement("deletes", Keys(SentBy(c)))
<1>1. StatementsOf(c) = IF redirect THEN <<o, i, d>> ELSE <<o, i>>
  BY SentByIs DEF StatementsOf, SentBy
<1>2. /\ o.kind = "orders" /\ o.rows = SentBy(c) /\ i.kind = "items" /\ i.rows = ItemsOfUpdate(c)
      /\ d.kind = "deletes" /\ d.rows = Keys(SentBy(c))
  BY DEF Statement
<1> HIDE DEF o, i, d
<1>3. ASSUME NEW k
      PROVE  /\ RowsOf(<<o, i>>, k) = (IF o.kind = k THEN o.rows ELSE {}) \cup
                                      (IF i.kind = k THEN i.rows ELSE {})
             /\ RowsOf(<<o, i, d>>, k) = (IF o.kind = k THEN o.rows ELSE {}) \cup
                                         (IF i.kind = k THEN i.rows ELSE {}) \cup
                                         (IF d.kind = k THEN d.rows ELSE {})
  <2>1. RowsOf(<<i>>, k) = (IF i.kind = k THEN i.rows ELSE {})
    BY RowsOfOne
  <2>2. RowsOf(<<d>>, k) = (IF d.kind = k THEN d.rows ELSE {})
    BY RowsOfOne
  <2>3. RowsOf(<<o, i>>, k) = (IF o.kind = k THEN o.rows ELSE {}) \cup RowsOf(<<i>>, k)
    BY RowsOfTwo
  <2>4. RowsOf(<<i, d>>, k) = (IF i.kind = k THEN i.rows ELSE {}) \cup RowsOf(<<d>>, k)
    BY RowsOfTwo
  <2>5. RowsOf(<<o, i, d>>, k) = (IF o.kind = k THEN o.rows ELSE {}) \cup RowsOf(<<i, d>>, k)
    BY RowsOfThree
  <2>6. RowsOf(<<o, i>>, k) = (IF o.kind = k THEN o.rows ELSE {}) \cup
                              (IF i.kind = k THEN i.rows ELSE {})
    BY <2>1, <2>3
  <2>7. RowsOf(<<o, i, d>>, k) = (IF o.kind = k THEN o.rows ELSE {}) \cup
                                 (IF i.kind = k THEN i.rows ELSE {}) \cup
                                 (IF d.kind = k THEN d.rows ELSE {})
    <3>1. \A A, B, C : A \cup (B \cup C) = A \cup B \cup C
      OBVIOUS
    <3> QED BY <2>2, <2>4, <2>5, <3>1
  <2> QED BY <2>6, <2>7
<1>4. CASE redirect
  <2>1. StatementsOf(c) = <<o, i, d>>
    BY <1>1, <1>4
  <2> QED BY <1>2, <1>3, <1>4, <2>1
<1>5. CASE ~redirect
  <2>1. StatementsOf(c) = <<o, i>>
    BY <1>1, <1>5
  <2> QED BY <1>2, <1>3, <1>5, <2>1
<1> QED BY <1>4, <1>5

-----------------------------------------------------------------------------
(* What the steps do. *)

\* Statement s has all the effect that it is to have.
Applied(s) ==
  \/ /\ s.kind = "orders" /\ s.rows \cap db.orders = {}
     /\ db'.orders = db.orders \cup s.rows /\ db'.items = db.items
  \/ /\ s.kind = "items"
     /\ db'.orders = db.orders /\ db'.items = db.items \cup s.rows
  \/ /\ s.kind = "deletes"
     /\ db'.orders = db.orders \ s.rows
     /\ db'.items = {i \in db.items : OrderOf(i) \notin s.rows}

\* The next statement of a client has its effect, or has none, which is a failure.
LEMMA ExecuteIs ==
  ASSUME TablesInv, NEW c \in Clients, Execute(c)
  PROVE  /\ todo[c] \in Seq(Sendable) /\ todo[c] # <<>> /\ Head(todo[c]) \in Sendable
         /\ todo' = [todo EXCEPT ![c] = Tail(@)]
         /\ UNCHANGED <<config, pc, up>> /\ (failed => failed')
         /\ \/ Applied(Head(todo[c]))
            \/ failed' /\ db'.orders = db.orders /\ db'.items = db.items
<1> DEFINE s == Head(todo[c])
<1>1. todo[c] \in Seq(Sendable) /\ todo[c] # <<>> /\ s \in Sendable
  BY DEF TablesInv, Execute
<1>2. /\ todo' = [todo EXCEPT ![c] = Tail(@)] /\ UNCHANGED <<config, pc, up>> /\ (failed => failed')
      /\ db' \in {db, After(s)} /\ (db' = db /\ HasEffect(s) => failed')
  BY DEF Execute
<1>3. s.kind \in {"orders", "items", "deletes"}
  BY <1>1 DEF Sendable, Statement
<1> HIDE DEF s
<1> DEFINE Result == Applied(s) \/ (failed' /\ db'.orders = db.orders /\ db'.items = db.items)
<1>4. ASSUME db' = db, HasEffect(s) PROVE Result
  BY <1>2, <1>4
<1>5. ASSUME db' = db, s.rows = {} PROVE Result
  <2>1. db.items = {i \in db.items : OrderOf(i) \notin s.rows} /\ db.orders = db.orders \ s.rows
    BY <1>5
  <2>2. s.rows \cap db.orders = {} /\ db.orders = db.orders \cup s.rows /\ db.items = db.items \cup s.rows
    BY <1>5
  <2> QED BY <1>3, <1>5, <2>1, <2>2 DEF Applied
<1>6. ASSUME db' = db, s.kind = "deletes", s.rows \cap db.orders = {} PROVE Result
  <2>1. \A i \in db.items : OrderOf(i) \in db.orders
    BY DEF TablesInv, Whole
  <2>2. db.items = {i \in db.items : OrderOf(i) \notin s.rows} /\ db.orders = db.orders \ s.rows
    BY <1>6, <2>1
  <2> QED BY <1>6, <2>2 DEF Applied
<1>7. ASSUME db' # db, s.kind = "orders" PROVE Result
  <2>1. db' = WithOrders(db, s.rows)
    BY <1>2, <1>7 DEF After
  <2> QED BY <1>7, <2>1 DEF WithOrders, Applied
<1>8. ASSUME db' # db, s.kind = "items" PROVE Result
  <2>1. db' = WithItems(db, s.rows)
    BY <1>2, <1>8 DEF After
  <2> QED BY <1>8, <2>1 DEF WithItems, Applied
<1>9. ASSUME db' # db, s.kind = "deletes" PROVE Result
  <2>1. db' = WithoutOrders(db, s.rows, cascade)
    BY <1>2, <1>9 DEF After
  <2>2. /\ db'.orders = db.orders \ s.rows
        /\ db'.items = db.items \ {i \in db.items : OrderOf(i) \in s.rows}
    BY <1>9, <2>1 DEF WithoutOrders
  <2>3. db'.items = {i \in db.items : OrderOf(i) \notin s.rows}
    BY <2>2
  <2> QED BY <1>9, <2>2, <2>3 DEF Applied
<1>10. db' = db => HasEffect(s) \/ s.rows = {} \/ (s.kind = "deletes" /\ s.rows \cap db.orders = {})
  BY DEF HasEffect
<1> HIDE DEF Result
<1>11. Result
  BY <1>3, <1>4, <1>5, <1>6, <1>7, <1>8, <1>9, <1>10
<1> QED BY <1>1, <1>2, <1>11 DEF s, Result

\* An update that starts is sent, or fails to be, or the client panics.
LEMMA StartIs ==
  ASSUME StateInv, NEW c \in Clients, StartUpdate(c)
  PROVE  /\ c \in Updaters /\ pc[c] = "loop"
         /\ UNCHANGED <<config, db, up, walk, count>> /\ (failed => failed')
         /\ \/ UNCHANGED <<pc, todo>>
            \/ /\ pc' = [pc EXCEPT ![c] = "update"]
               /\ \/ todo' = todo /\ failed'
                  \/ todo' = [todo EXCEPT ![c] = StatementsOf(c)] /\ (redirect => up[c])
<1>1. /\ c \in Updaters /\ pc[c] = "loop"
      /\ UNCHANGED <<config, db, up, walk, count>> /\ (failed => failed')
  BY DEF StartUpdate, Round
<1>2. CASE ~redirect /\ perCycle > 1
  BY <1>1, <1>2 DEF StartUpdate
<1>3. CASE ~redirect /\ ~(perCycle > 1)
  BY <1>1, <1>3 DEF StartUpdate
<1>4. CASE redirect
  <2>1. /\ pc' = [pc EXCEPT ![c] = "update"] /\ Send(c) /\ failed' = (failed \/ ~sent'[c])
        /\ todo' = IF ~sent'[c] THEN todo ELSE [todo EXCEPT ![c] = StatementsOf(c)]
    BY <1>4 DEF StartUpdate
  <2>2. sent'[c] => up[c]
    <3>1. PICK s \in {up[c], FALSE} : sent' = [sent EXCEPT ![c] = s]
      BY <2>1 DEF Send
    <3> QED BY <3>1 DEF StateInv
  <2>3. sent'[c] \in BOOLEAN
    BY <2>1 DEF Send, StateInv
  <2> QED BY <1>1, <2>1, <2>2, <2>3
<1> QED BY <1>2, <1>3, <1>4

\* The other steps leave the tables and the statements alone. A client's update
\* ends when all of it is executed or its connection is broken.
LEMMA OtherSteps ==
  ASSUME StateInv, [Next]_vars, \A c \in Clients : ~StartUpdate(c) /\ ~Execute(c)
  PROVE  /\ UNCHANGED <<config, db, todo, failed>>
         /\ \A d \in Clients : up'[d] => up[d]
         /\ \A d \in Clients : pc'[d] = "update" => pc[d] = "update"
         /\ \A d \in Clients : pc[d] = "update" /\ pc'[d] # "update" =>
              IF redirect THEN ~up[d] \/ todo[d] = <<>> ELSE todo[d] = <<>>
<1>1. CASE UNCHANGED vars
  BY <1>1 DEF vars, client
<1>2. ASSUME NEW c \in Clients, EndUpdate(c) \/ StartQuery(c) \/ EndQuery(c) \/ Break(c)
      PROVE  /\ UNCHANGED <<config, db, todo, failed>>
             /\ \A d \in Clients : up'[d] => up[d]
             /\ \A d \in Clients : pc'[d] = "update" => pc[d] = "update"
             /\ \A d \in Clients : pc[d] = "update" /\ pc'[d] # "update" =>
                  IF redirect THEN ~up[d] \/ todo[d] = <<>> ELSE todo[d] = <<>>
  <2>1. pc \in [Clients -> {"loop", "update", "query"}] /\ up \in [Clients -> BOOLEAN]
    BY DEF StateInv
  <2>2. CASE EndUpdate(c)
    <3>1. pc' = [pc EXCEPT ![c] = "loop"] /\ HasAnswer(c) /\ UNCHANGED <<config, db, todo, up, failed>>
      BY <2>2 DEF EndUpdate
    <3> QED BY <2>1, <3>1 DEF HasAnswer
  <2>3. CASE StartQuery(c)
    <3>1. /\ pc[c] = "loop" /\ (pc' = pc \/ pc' = [pc EXCEPT ![c] = "query"])
          /\ UNCHANGED <<config, db, todo, up, failed>>
      BY <2>3 DEF StartQuery, Round
    <3> QED BY <2>1, <3>1
  <2>4. CASE EndQuery(c)
    <3>1. /\ pc[c] = "query" /\ (pc' = pc \/ pc' = [pc EXCEPT ![c] = "loop"])
          /\ UNCHANGED <<config, db, todo, up, failed>>
      BY <2>4 DEF EndQuery
    <3> QED BY <2>1, <3>1
  <2>5. CASE Break(c)
    <3>1. pc' = pc /\ up' = [up EXCEPT ![c] = FALSE] /\ UNCHANGED <<config, db, todo, failed>>
      BY <2>5 DEF Break, client
    <3> QED BY <2>1, <3>1
  <2> QED BY <1>2, <2>2, <2>3, <2>4, <2>5
<1> QED BY <1>1, <1>2 DEF Next

\* What an order adds depends on the configuration only.
LEMMA SameWeights ==
  ASSUME UNCHANGED config
  PROVE  /\ Weight' = Weight /\ Fields' = Fields
         /\ \A f, os : Total(f, os)' = Total(f, os)
<1>1. Weight' = Weight /\ Fields' = Fields
  BY DEF Weight, Fields, config
<1> QED BY <1>1 DEF Total

\* What a client reports, with the update under way, only grows when an update
\* starts, and by what its orders add.
LEMMA ReportedIs ==
  ASSUME WalkInv, StateInv, [Next]_vars, NEW d \in Clients, NEW f \in Fields
  PROVE  /\ Reported(d, f) \in Nat
         /\ Reported(d, f)' = Reported(d, f) +
              IF pc[d] # "update" /\ pc'[d] = "update" THEN Total(f, SentBy(d)) ELSE 0
<1> DEFINE T == Total(f, SentBy(d))
           Goal == Reported(d, f)' = Reported(d, f) +
                     IF pc[d] # "update" /\ pc'[d] = "update" THEN T ELSE 0
<1>1. f \in Names /\ f # "queries"
  BY DEF Fields, Names
<1>2. /\ pc \in [Clients -> {"loop", "update", "query"}] /\ count \in [Clients -> Counts]
      /\ redirect \in BOOLEAN /\ \A c \in Clients : pc[c] = "update" => c \in Updaters
  BY DEF StateInv
<1>3. count[d][f] \in Nat
  BY <1>1, <1>2 DEF Counts, Names
<1>4. d \in Updaters => T \in Nat
  BY <1>1, SentByIs, TotalType
<1>5. Reported(d, f) \in Nat
  BY <1>2, <1>3, <1>4 DEF Reported
<1>6. UNCHANGED config
  BY ConfigStays
<1>7. walk'[d] = walk[d] => Total(f, SentBy(d))' = T
  <2>1. walk'[d] = walk[d] => SentBy(d)' = SentBy(d)
    BY <1>6 DEF SentBy, Batch, config
  <2>2. Weight' = Weight
    BY <1>6, SameWeights
  <2> QED BY <2>1, <2>2 DEF Total
<1>8. Reported(d, f)' = count'[d][f] + IF pc'[d] = "update" THEN Total(f, SentBy(d))' ELSE 0
  BY DEF Reported
<1>9. Reported(d, f) = count[d][f] + IF pc[d] = "update" THEN T ELSE 0
  BY DEF Reported
<1> HIDE DEF T
<1>10. ASSUME count'[d][f] = count[d][f], (pc'[d] = "update") <=> (pc[d] = "update"), walk'[d] = walk[d]
       PROVE  Goal
  <2>1. Reported(d, f)' = Reported(d, f)
    BY <1>7, <1>8, <1>9, <1>10
  <2> QED BY <1>5, <1>10, <2>1
<1>11. ASSUME NEW c \in Clients, StartUpdate(c) PROVE Goal
  <2>1. /\ pc[c] = "loop" /\ walk' = walk /\ count' = count /\ c \in Updaters
        /\ pc' = pc \/ pc' = [pc EXCEPT ![c] = "update"]
    BY <1>11, StartIs
  <2>2. CASE pc' = pc \/ c # d
    BY <1>2, <1>10, <2>1, <2>2
  <2>3. CASE c = d /\ pc' = [pc EXCEPT ![c] = "update"]
    <3>1. pc[d] = "loop" /\ pc'[d] = "update" /\ Total(f, SentBy(d))' = T /\ T \in Nat
      BY <1>2, <1>4, <1>7, <2>1, <2>3
    <3> QED BY <1>3, <1>8, <1>9, <2>1, <3>1
  <2> QED BY <2>1, <2>2, <2>3
<1>12. ASSUME NEW c \in Clients, EndUpdate(c) PROVE Goal
  <2>1. /\ pc[c] = "update" /\ pc' = [pc EXCEPT ![c] = "loop"]
        /\ count' = [count EXCEPT ![c] = Counted(c)] /\ walk' = [walk EXCEPT ![c] = Advanced(c)]
    BY <1>12 DEF EndUpdate
  <2>2. CASE c # d
    BY <1>2, <1>10, <2>1, <2>2
  <2>3. CASE c = d
    <3>1. d \in Updaters /\ pc[d] = "update" /\ pc'[d] = "loop" /\ count'[d] = Counted(d)
      BY <1>2, <2>1, <2>3
    <3>2. Counted(d)[f] = count[d][f] + Gain(d, redirect)[f]
      <4>1. f \in {"newOrders", "newItems", "delOrders", "delItems", "queries"}
        BY <1>1 DEF Names
      <4> QED BY <3>1, <4>1, CountedType
    <3>3. Gain(d, redirect)[f] = T
      BY <1>2, <3>1, GainIs DEF T
    <3> QED BY <1>3, <1>4, <1>8, <1>9, <3>1, <3>2, <3>3
  <2> QED BY <2>2, <2>3
<1>13. ASSUME NEW c \in Clients, EndQuery(c) PROVE Goal
  <2>1. /\ pc[c] = "query" /\ (pc' = pc \/ pc' = [pc EXCEPT ![c] = "loop"]) /\ walk' = walk
        /\ count' = count \/ count' = [count EXCEPT ![c].queries = @ + QueriesCounted]
    BY <1>13 DEF EndQuery
  <2>2. count'[d][f] = count[d][f]
    <3>1. count[d] \in Counts /\ f # "queries"
      BY <1>1, <1>2
    <3>2. count'[d] = count[d] \/ count'[d] = [count[d] EXCEPT !.queries = @ + QueriesCounted]
      BY <1>2, <2>1
    <3>3. CASE f = "newOrders"
      BY <3>1, <3>2, <3>3 DEF Counts
    <3>4. CASE f = "newItems"
      BY <3>1, <3>2, <3>4 DEF Counts
    <3>5. CASE f = "delOrders"
      BY <3>1, <3>2, <3>5 DEF Counts
    <3>6. CASE f = "delItems"
      BY <3>1, <3>2, <3>6 DEF Counts
    <3> QED BY <1>1, <3>3, <3>4, <3>5, <3>6 DEF Names
  <2> QED BY <1>2, <1>10, <2>1, <2>2
<1>14. ASSUME NEW c \in Clients, StartQuery(c) PROVE Goal
  <2>1. pc[c] = "loop" /\ (pc' = pc \/ pc' = [pc EXCEPT ![c] = "query"]) /\ walk' = walk /\ count' = count
    BY <1>14 DEF StartQuery, Round
  <2> QED BY <1>2, <1>10, <2>1
<1>15. ASSUME UNCHANGED <<pc, walk, count>> PROVE Goal
  BY <1>10, <1>15
<1>16. Goal
  BY <1>11, <1>12, <1>13, <1>14, <1>15 DEF Next, Execute, Break, vars, client
<1> QED BY <1>5, <1>16 DEF T

-----------------------------------------------------------------------------
(* Nothing happens to the tables that is not reported. *)

\* The loaded items are in the tables at first, and the clients have no statements.
LEMMA InitBalance == Init => LoadedInv /\ BatchInv
<1> SUFFICES ASSUME Init PROVE LoadedInv /\ BatchInv OBVIOUS
<1>1. db.orders = BaseOrders /\ db.items = BaseItems /\ \A c \in Clients : todo[c] = <<>>
  BY DEF Init
<1> QED BY <1>1, LoadedAssumption, RowsOfNone DEF LoadedInv, BatchInv

\* Orders and items that are inserted are the clients', items go with their orders.
LEMMA StepLoadedInv == TablesInv /\ LoadedInv /\ [Next]_vars => LoadedInv'
<1> SUFFICES ASSUME TablesInv, LoadedInv, [Next]_vars PROVE LoadedInv' OBVIOUS
<1>1. CASE db'.orders = db.orders /\ db'.items = db.items
  BY <1>1 DEF LoadedInv
<1>2. ASSUME NEW c \in Clients, Execute(c) PROVE LoadedInv'
  <2> DEFINE s == Head(todo[c])
  <2>1. s \in Sendable /\ (Applied(s) \/ (db'.orders = db.orders /\ db'.items = db.items))
    BY <1>2, ExecuteIs
  <2> HIDE DEF s
  <2>2. CASE s.kind = "orders" /\ db'.orders = db.orders \cup s.rows /\ db'.items = db.items
    <3>1. s.rows \subseteq ClientOrders
      BY <2>1, <2>2 DEF Sendable, Statement
    <3>2. \A i \in BaseItems : OrderOf(i) \in BaseOrders
      BY DEF BaseOrders
    <3>3. s.rows \cap BaseOrders = {}
      BY <3>1, LoadedAssumption
    <3> QED BY <2>2, <3>2, <3>3 DEF LoadedInv
  <2>3. CASE s.kind = "items" /\ db'.orders = db.orders /\ db'.items = db.items \cup s.rows
    <3>1. IsFiniteSet(s.rows) /\ \A i \in s.rows : OrderOf(i) \notin BaseOrders
      <4>1. CASE s.rows = {}
        BY <4>1, FS_EmptySet
      <4>2. CASE s.rows # {}
        <5>1. PICK p \in ClientOrders : s.rows = ItemsOfOrder(p[1], p[2])
          BY <2>1, <2>3, <4>2 DEF Sendable, Statement
        <5>2. p \notin BaseOrders
          BY LoadedAssumption
        <5> QED BY <5>1, <5>2, ItemsOfOne, ItemsOfOrderIs
      <4> QED BY <4>1, <4>2
    <3>2. IsFiniteSet(db'.items)
      BY <2>3, <3>1, FS_Union DEF LoadedInv
    <3> QED BY <2>3, <3>1, <3>2 DEF LoadedInv
  <2>4. CASE db'.orders = db.orders \ s.rows /\ db'.items = {i \in db.items : OrderOf(i) \notin s.rows}
    <3>1. IsFiniteSet(db'.items)
      BY <2>4, FS_Subset DEF LoadedInv
    <3> QED BY <2>4, <3>1 DEF LoadedInv
  <2> QED BY <1>1, <2>1, <2>2, <2>3, <2>4 DEF Applied
<1>3. CASE Next
  <2>1. PICK c \in Clients : \/ StartUpdate(c) \/ Execute(c) \/ EndUpdate(c)
                             \/ StartQuery(c) \/ EndQuery(c) \/ Break(c)
    BY <1>3 DEF Next
  <2>2. Execute(c) \/ db' = db
    BY <2>1 DEF StartUpdate, EndUpdate, StartQuery, EndQuery, Break
  <2> QED BY <1>1, <1>2, <2>2
<1> QED BY <1>1, <1>3 DEF vars

\* The update of a batch has no items.
LEMMA StepBatchInv == WalkInv /\ TablesInv /\ StateInv /\ BatchInv /\ [Next]_vars => BatchInv'
<1> SUFFICES ASSUME WalkInv, TablesInv, StateInv, BatchInv, [Next]_vars PROVE BatchInv' OBVIOUS
<1> SUFFICES ASSUME perCycle # 1
             PROVE  db'.items \subseteq BaseItems /\ \A d \in Clients : RowsOf(todo'[d], "items") = {}
  <2>1. UNCHANGED config
    BY ConfigStays
  <2>2. \A d : RowsOf(todo[d], "items")' = RowsOf(todo'[d], "items")
    BY DEF RowsOf
  <2> QED BY <2>1, <2>2 DEF BatchInv, config
<1>1. db.items \subseteq BaseItems /\ \A d \in Clients : RowsOf(todo[d], "items") = {}
  BY DEF BatchInv
<1>2. todo \in [Clients -> Seq(Sendable)]
  BY DEF TablesInv
<1>3. ASSUME NEW c \in Clients, StartUpdate(c)
      PROVE  db'.items \subseteq BaseItems /\ \A d \in Clients : RowsOf(todo'[d], "items") = {}
  <2>1. /\ c \in Updaters /\ db' = db
        /\ todo' = todo \/ todo' = [todo EXCEPT ![c] = StatementsOf(c)]
    BY <1>3, StartIs
  <2>2. RowsOf(StatementsOf(c), "items") = {}
    BY <2>1, RowsOfUpdate DEF StateInv, ItemsOfUpdate
  <2>3. \A d \in Clients : todo'[d] = todo[d] \/ todo'[d] = StatementsOf(c)
    BY <1>2, <2>1
  <2> QED BY <1>1, <2>1, <2>2, <2>3
<1>4. ASSUME NEW c \in Clients, Execute(c)
      PROVE  db'.items \subseteq BaseItems /\ \A d \in Clients : RowsOf(todo'[d], "items") = {}
  <2> DEFINE s == Head(todo[c])
  <2>1. /\ todo[c] \in Seq(Sendable) /\ todo[c] # <<>> /\ todo' = [todo EXCEPT ![c] = Tail(@)]
        /\ Applied(s) \/ db'.items = db.items
    BY <1>4, ExecuteIs
  <2>2. /\ RowsOf(Tail(todo[c]), "items") \subseteq RowsOf(todo[c], "items")
        /\ s.rows \subseteq RowsOf(todo[c], s.kind)
    BY <2>1, RowsOfTail
  <2>3. \A d \in Clients : todo'[d] = todo[d] \/ (d = c /\ todo'[d] = Tail(todo[c]))
    BY <1>2, <2>1
  <2> HIDE DEF s
  <2>4. db'.items \subseteq BaseItems
    BY <1>1, <2>1, <2>2 DEF Applied
  <2> QED BY <1>1, <2>2, <2>3, <2>4
<1>5. CASE \A c \in Clients : ~StartUpdate(c) /\ ~Execute(c)
  BY <1>1, <1>5, OtherSteps
<1> QED BY <1>3, <1>4, <1>5

\* Without updates no orders were sent.
LEMMA InitSentInv == Init => SentInv
<1> SUFFICES ASSUME Init PROVE Sent({})
  BY DEF SentInv
<1>1. /\ db.orders = BaseOrders /\ \A c \in Clients : todo[c] = <<>> /\ pc[c] = "loop"
      /\ \A c \in Clients : count[c] = [newOrders |-> 0, newItems |-> 0, delOrders |-> 0,
                                        delItems |-> 0, queries |-> 0]
  BY DEF Init
<1>2. ASSUME NEW c \in Clients, NEW f \in Fields PROVE Total(f, Of(c, {})) <= Reported(c, f)
  <2>1. Of(c, {}) = {} /\ f \in {"newOrders", "newItems", "delOrders", "delItems"}
    BY DEF Of, Fields
  <2>2. Total(f, Of(c, {})) = 0
    BY <2>1, SumEmpty DEF Total
  <2>3. Reported(c, f) = 0
    BY <1>1, <2>1 DEF Reported
  <2> QED BY <2>2, <2>3
<1> QED BY <1>1, <1>2, RowsOfNone DEF Sent, Inserted, Gone

\* What it takes for the orders V to be those sent after a step.
LEMMA SentAfter ==
  ASSUME [Next]_vars, NEW V \in SUBSET ClientOrders,
         db'.orders \ BaseOrders \subseteq V,
         BaseOrders \ db'.orders \subseteq IF redirect THEN Keys(V) ELSE {},
         \A c \in Clients :
           /\ RowsOf(todo'[c], "orders") \subseteq V
           /\ RowsOf(todo'[c], "deletes") \subseteq IF redirect THEN Keys(V) ELSE {}
           /\ \A f \in Fields : Total(f, Of(c, V)) <= Reported(c, f)'
  PROVE  SentInv'
<1>1. UNCHANGED config /\ redirect' = redirect
  BY ConfigStays DEF config
<1>2. Fields' = Fields /\ \A f, os : Total(f, os)' = Total(f, os)
  BY <1>1, SameWeights
<1>3. \A c : \A k : RowsOf(todo[c], k)' = RowsOf(todo'[c], k)
  BY DEF RowsOf
<1>4. \A c : \A f : Total(f, Of(c, V))' = Total(f, Of(c, V))
  <2>1. \A c : Of(c, V)' = Of(c, V)
    BY DEF Of
  <2> QED BY <1>2, <2>1
<1>5. Keys(V)' = Keys(V) /\ Inserted' = db'.orders \ BaseOrders /\ Gone' = BaseOrders \ db'.orders
  BY DEF Keys, KeyWith, Inserted, Gone
<1>6. ASSUME NEW c \in Clients
      PROVE  /\ RowsOf(todo[c], "orders")' \subseteq V
             /\ RowsOf(todo[c], "deletes")' \subseteq IF redirect' THEN Keys(V)' ELSE {}
             /\ \A f \in Fields' : Total(f, Of(c, V))' <= Reported(c, f)'
  BY <1>1, <1>2, <1>3, <1>4, <1>5
<1>7. Sent(V)'
  BY <1>1, <1>5, <1>6 DEF Sent
<1> QED BY <1>7 DEF SentInv

\* What is sent stays sent, and an update that starts is sent.
LEMMA StepSentInv == WalkInv /\ TablesInv /\ StateInv /\ SentInv /\ [Next]_vars => SentInv'
<1> SUFFICES ASSUME WalkInv, TablesInv, StateInv, SentInv, [Next]_vars PROVE SentInv' OBVIOUS
<1>1. PICK U \in SUBSET ClientOrders : Sent(U)
  BY DEF SentInv
<1>2. /\ db.orders \ BaseOrders \subseteq U
      /\ BaseOrders \ db.orders \subseteq IF redirect THEN Keys(U) ELSE {}
      /\ \A c \in Clients :
           /\ RowsOf(todo[c], "orders") \subseteq U
           /\ RowsOf(todo[c], "deletes") \subseteq IF redirect THEN Keys(U) ELSE {}
           /\ \A f \in Fields : Total(f, Of(c, U)) <= Reported(c, f)
  BY <1>1 DEF Sent, Inserted, Gone
<1>3. /\ todo \in [Clients -> Seq(Sendable)] /\ redirect \in BOOLEAN
      /\ pc \in [Clients -> {"loop", "update", "query"}]
  BY DEF TablesInv, StateInv
<1>4. \A c \in Clients : \A f \in Fields : f \in Names /\ Total(f, Of(c, U)) \in Nat
  <2>1. \A c : Of(c, U) \in SUBSET ClientOrders
    BY <1>1 DEF Of
  <2>2. \A f \in Fields : f \in Names
    BY DEF Fields, Names
  <2> QED BY <2>1, <2>2, TotalType
\* What a client reports does not shrink.
<1>5. ASSUME NEW c \in Clients, NEW f \in Fields PROVE Total(f, Of(c, U)) <= Reported(c, f)'
  <2>1. /\ Reported(c, f) \in Nat
        /\ Reported(c, f)' = Reported(c, f) +
             IF pc[c] # "update" /\ pc'[c] = "update" THEN Total(f, SentBy(c)) ELSE 0
    BY ReportedIs
  <2>2. pc[c] # "update" /\ pc'[c] = "update" => c \in Updaters
    BY <1>3, StepStateInv DEF StateInv
  <2>3. pc[c] # "update" /\ pc'[c] = "update" => Total(f, SentBy(c)) \in Nat
    BY <1>4, <2>2, SentByIs, TotalType
  <2>4. Total(f, Of(c, U)) \in Nat /\ Total(f, Of(c, U)) <= Reported(c, f)
    BY <1>2, <1>4
  <2> QED BY <2>1, <2>3, <2>4
<1>6. ASSUME NEW c \in Clients, StartUpdate(c) PROVE SentInv'
  <2>1. /\ c \in Updaters /\ pc[c] = "loop" /\ db' = db
        /\ \/ pc' = pc /\ todo' = todo
           \/ /\ pc' = [pc EXCEPT ![c] = "update"]
              /\ todo' = todo \/ todo' = [todo EXCEPT ![c] = StatementsOf(c)]
    BY <1>6, StartIs
  <2>2. CASE todo' = todo
    <3> QED BY <1>1, <1>2, <1>5, <2>1, <2>2, SentAfter
  <2>3. CASE pc' = [pc EXCEPT ![c] = "update"] /\ todo' = [todo EXCEPT ![c] = StatementsOf(c)]
    <3> DEFINE S == SentBy(c)
    <3>1. PICK V : V = U \cup S
      OBVIOUS
    <3>2. /\ S \in SUBSET ClientOrders /\ S \subseteq Of(c, ClientOrders)
          /\ RowsOf(StatementsOf(c), "orders") = S
          /\ RowsOf(StatementsOf(c), "deletes") = IF redirect THEN Keys(S) ELSE {}
      BY <1>3, <2>1, SentByIs, RowsOfUpdate
    <3>3. V \in SUBSET ClientOrders /\ Keys(V) = Keys(U) \cup Keys(S)
      BY <1>1, <3>1, <3>2, OfIs
    <3> HIDE DEF S
    <3>4. \A d \in Clients : todo'[d] = todo[d] \/ todo'[d] = StatementsOf(c)
      BY <1>3, <2>3
    <3>5. ASSUME NEW d \in Clients
          PROVE  /\ RowsOf(todo'[d], "orders") \subseteq V
                 /\ RowsOf(todo'[d], "deletes") \subseteq IF redirect THEN Keys(V) ELSE {}
      BY <1>2, <3>1, <3>2, <3>3, <3>4
    <3>6. ASSUME NEW d \in Clients, NEW f \in Fields, d # c PROVE Total(f, Of(d, V)) <= Reported(d, f)'
      <4>1. Of(d, V) = Of(d, U)
        <5>1. Of(d, S) = {} /\ Of(d, V) = Of(d, U) \cup Of(d, S)
          BY <3>1, <3>2, <3>6, OfIs
        <5> QED BY <5>1
      <4> QED BY <1>5, <4>1
    <3>7. ASSUME NEW f \in Fields PROVE Total(f, Of(c, V)) <= Reported(c, f)'
      <4> DEFINE A == Of(c, U)
      <4>1. Of(c, V) = A \cup S
        <5>1. Of(c, S) = S /\ Of(c, V) = Of(c, U) \cup Of(c, S)
          BY <3>1, <3>2, OfIs
        <5> QED BY <5>1
      <4>2. A \in SUBSET ClientOrders
        BY <1>1 DEF Of
      <4> HIDE DEF A
      <4>3. /\ IsFiniteSet(A) /\ IsFiniteSet(S) /\ f \in Names
            /\ \A o \in A \cup S : Weight[f][o] \in Nat
        BY <1>4, <3>2, <4>2, OrdersFinite, DoesIs
      <4>4. Total(f, A \cup S) <= Total(f, A) + Total(f, S)
        BY <4>3, SumUnionLeq DEF Total
      <4>5. /\ Total(f, A) \in Nat /\ Total(f, S) \in Nat /\ Total(f, A \cup S) \in Nat
            /\ Total(f, A) <= Reported(c, f)
        <5>1. A \cup S \in SUBSET ClientOrders
          BY <3>2, <4>2
        <5> QED BY <1>2, <3>2, <4>2, <4>3, <5>1, TotalType DEF A
      <4>6. Reported(c, f) \in Nat /\ Reported(c, f)' = Reported(c, f) + Total(f, S)
        <5>1. pc[c] # "update" /\ pc'[c] = "update"
          BY <1>3, <2>1, <2>3
        <5> QED BY <5>1, ReportedIs DEF S
      <4> QED BY <4>1, <4>4, <4>5, <4>6
    <3>8. /\ db'.orders \ BaseOrders \subseteq V
          /\ BaseOrders \ db'.orders \subseteq IF redirect THEN Keys(V) ELSE {}
      BY <1>2, <2>1, <3>1, <3>3
    <3> QED BY <3>3, <3>5, <3>6, <3>7, <3>8, SentAfter
  <2> QED BY <2>1, <2>2, <2>3
<1>7. ASSUME NEW c \in Clients, Execute(c) PROVE SentInv'
  <2> DEFINE s == Head(todo[c])
  <2>1. /\ todo[c] \in Seq(Sendable) /\ todo[c] # <<>> /\ s \in Sendable
        /\ todo' = [todo EXCEPT ![c] = Tail(@)]
        /\ Applied(s) \/ db'.orders = db.orders
    BY <1>7, ExecuteIs
  <2>2. /\ \A k : RowsOf(Tail(todo[c]), k) \subseteq RowsOf(todo[c], k)
        /\ s.rows \subseteq RowsOf(todo[c], s.kind)
    BY <2>1, RowsOfTail
  <2>3. \A d \in Clients : todo'[d] = todo[d] \/ (d = c /\ todo'[d] = Tail(todo[c]))
    BY <1>3, <2>1
  <2>4. /\ s.kind = "orders" => s.rows \subseteq ClientOrders
        /\ s.kind = "deletes" => s.rows \subseteq BaseOrders \cup {NoOrder}
    BY <2>1 DEF Sendable, Statement
  <2> HIDE DEF s
  <2>5. /\ db'.orders \ BaseOrders \subseteq U
        /\ BaseOrders \ db'.orders \subseteq IF redirect THEN Keys(U) ELSE {}
    <3>1. CASE db'.orders = db.orders
      BY <1>2, <3>1
    <3>2. CASE s.kind = "orders" /\ db'.orders = db.orders \cup s.rows
      BY <1>2, <2>2, <3>2
    <3>3. CASE s.kind = "deletes" /\ db'.orders = db.orders \ s.rows
      BY <1>2, <2>2, <3>3
    <3> QED BY <2>1, <3>1, <3>2, <3>3 DEF Applied
  <2>6. ASSUME NEW d \in Clients
        PROVE  /\ RowsOf(todo'[d], "orders") \subseteq U
               /\ RowsOf(todo'[d], "deletes") \subseteq IF redirect THEN Keys(U) ELSE {}
    BY <1>2, <2>2, <2>3
  <2> QED BY <1>1, <1>5, <2>5, <2>6, SentAfter
<1>8. CASE \A c \in Clients : ~StartUpdate(c) /\ ~Execute(c)
  <2>1. db' = db /\ todo' = todo
    BY <1>8, OtherSteps
  <2> QED BY <1>1, <1>2, <1>5, <2>1, SentAfter
<1> QED BY <1>6, <1>7, <1>8

\* What the orders of all clients add is the sum of what each client's add.
LEMMA TotalOfClients ==
  ASSUME NEW os \in SUBSET ClientOrders, NEW f \in Names
  PROVE  Total(f, os) = SumFunctionOnSet([c \in Clients |-> Total(f, Of(c, os))], Clients)
<1> DEFINE F == [c \in Clients |-> Of(c, os)]
           g == [c \in Clients |-> Total(f, Of(c, os))]
           w == Weight[f]
<1>1. \A o \in os : o[1] \in Clients /\ w[o] \in Nat
  BY OrderIs, DoesIs
<1>2. \A c \in Clients : IsFiniteSet(F[c]) /\ F[c] \subseteq os /\ g[c] = SumFunctionOnSet(w, F[c])
  <2>1. \A c : Of(c, os) \in SUBSET ClientOrders /\ Of(c, os) \subseteq os
    BY DEF Of
  <2>2. \A c : IsFiniteSet(Of(c, os))
    BY <2>1, OrdersFinite
  <2> QED BY <2>1, <2>2 DEF Total
<1>3. \A c, d \in Clients : c # d => F[c] \cap F[d] = {}
  BY DEF Of
<1>4. UNION {F[c] : c \in Clients} = os
  <2>1. \A o \in os : o[1] \in Clients /\ o \in F[o[1]]
    BY <1>1 DEF Of
  <2> HIDE DEF F
  <2>2. \A c \in Clients : F[c] \subseteq os
    BY <1>2
  <2> QED BY <2>1, <2>2
<1>5. IsFiniteSet(Clients)
  BY ClientsAssumption
<1> HIDE DEF F, g, w
<1>6. \A c \in Clients : \A o \in F[c] : w[o] \in Int
  BY <1>1, <1>2
<1>7. SumFunctionOnSet(w, UNION {F[c] : c \in Clients}) = SumFunctionOnSet(g, Clients)
  <2>1. \A c \in Clients : IsFiniteSet(F[c]) /\ g[c] = SumFunctionOnSet(w, F[c])
    BY <1>2
  <2> QED BY <1>3, <1>5, <1>6, <2>1, SumOfUnion, SMTT(30)
<1> QED BY <1>4, <1>7 DEF g, w, Total

\* What has changed in the tables is what the orders sent were to change.
LEMMA ChangedBySent ==
  ASSUME TablesInv, StateInv, LoadedInv, NEW U \in SUBSET ClientOrders, Sent(U), NEW f \in Names
  PROVE  Changed[f] \subseteq UNION {Does[f][o] : o \in U}
<1>1. Inserted \subseteq U /\ Gone \subseteq IF redirect THEN Keys(U) ELSE {}
  BY DEF Sent
<1>2. CASE f = "newOrders"
  <2>1. Changed[f] = Inserted /\ \A o \in U : Does[f][o] = {o}
    BY <1>2 DEF Changed, Does
  <2> QED BY <1>1, <2>1
<1>3. CASE f = "newItems"
  <2>1. Changed[f] = db.items \ BaseItems /\ \A o \in U : Does[f][o] = ItemsOfOrder(o[1], o[2])
    BY <1>3 DEF Changed, Does
  <2>2. ASSUME NEW i \in db.items \ BaseItems PROVE \E o \in U : i \in ItemsOfOrder(o[1], o[2])
    <3> DEFINE o == OrderOf(i)
    <3>1. o \in Inserted
      BY DEF TablesInv, Whole, LoadedInv, Inserted
    <3>2. o \in U /\ o \in ClientOrders /\ i \in ItemsOf(o, db.items)
      BY <1>1, <3>1 DEF ItemsOf
    <3> HIDE DEF o
    <3>3. ItemsOf(o, db.items) \in {{}, ItemsOfOrder(o[1], o[2])}
      BY <3>2 DEF TablesInv, Whole
    <3> QED BY <3>2, <3>3
  <2> QED BY <2>1, <2>2
<1>4. CASE f = "delOrders"
  <2>1. Changed[f] = Gone /\ \A o \in U : Does[f][o] = IF redirect THEN {KeyWith(o)} ELSE {}
    BY <1>4 DEF Changed, Does
  <2> QED BY <1>1, <2>1 DEF Keys
<1>5. CASE f = "delItems"
  <2>1. /\ Changed[f] = BaseItems \ db.items
        /\ \A o \in U : Does[f][o] = IF redirect THEN ItemsOf(KeyWith(o), BaseItems) ELSE {}
    BY <1>5 DEF Changed, Does
  <2>2. ASSUME NEW i \in BaseItems \ db.items
        PROVE  redirect /\ \E o \in U : i \in ItemsOf(KeyWith(o), BaseItems)
    <3>1. OrderOf(i) \in Gone
      BY DEF LoadedInv, Gone, BaseOrders
    <3>2. redirect /\ \E o \in U : OrderOf(i) = KeyWith(o)
      BY <1>1, <3>1 DEF Keys
    <3> QED BY <3>2 DEF ItemsOf
  <2> QED BY <2>1, <2>2
<1> QED BY <1>2, <1>3, <1>4, <1>5 DEF Names

\* The clients' counters are numbers, which a client between two operations reports.
LEMMA IdleReports ==
  ASSUME StateInv, Idle, NEW f \in Names
  PROVE  \A c \in Clients : Reported(c, f) = count[c][f] /\ count[c][f] \in Nat
<1> SUFFICES ASSUME NEW c \in Clients PROVE Reported(c, f) = count[c][f] /\ count[c][f] \in Nat
  OBVIOUS
<1>1. pc[c] = "loop" /\ count[c] \in Counts
  BY DEF Idle, StateInv
<1>2. count[c][f] \in Nat
  BY <1>1 DEF Counts, Names
<1> QED BY <1>1, <1>2 DEF Reported

\* Whenever the clients are idle, no fewer orders and items are reported than were
\* inserted and deleted.
LEMMA IdleAtMost ==
  ASSUME TablesInv, StateInv, LoadedInv, BatchInv, SentInv, Idle, NEW f \in Names
  PROVE  Cardinality(Changed[f]) <= CountOf(f)
<1> DEFINE g == [c \in Clients |-> count[c][f]]
           X == Changed[f]
<1>1. CountOf(f) = SumFunctionOnSet(g, Clients) /\ IsFiniteSet(Clients)
  BY ClientsAssumption DEF CountOf, SumFunction
<1>2. \A c \in Clients : Reported(c, f) = count[c][f] /\ g[c] = count[c][f] /\ g[c] \in Nat
  BY IdleReports
<1>3. CASE f \in Fields
  <2>1. PICK U \in SUBSET ClientOrders : Sent(U)
    BY DEF SentInv
  <2> DEFINE F == Does[f]
             w == Weight[f]
             h == [c \in Clients |-> Total(f, Of(c, U))]
             Y == UNION {F[o] : o \in U}
  <2>2. \A o \in U : IsFiniteSet(F[o]) /\ w[o] \in Nat /\ Cardinality(F[o]) <= w[o]
    BY <2>1, DoesIs
  <2>3. IsFiniteSet(U)
    BY <2>1, OrdersFinite
  <2>4. X \subseteq Y
    BY <2>1, ChangedBySent
  <2>5. Total(f, U) = SumFunctionOnSet(h, Clients) /\ Total(f, U) \in Nat
    BY <2>1, TotalOfClients, TotalType
  <2>6. \A c \in Clients : h[c] \in Int /\ g[c] \in Int /\ h[c] <= g[c]
    <3>1. \A c \in Clients : Of(c, U) \in SUBSET ClientOrders
      BY <2>1 DEF Of
    <3>2. \A c \in Clients : Total(f, Of(c, U)) \in Nat /\ Total(f, Of(c, U)) <= Reported(c, f)
      BY <1>3, <2>1, <3>1, TotalType DEF Sent
    <3> HIDE DEF g
    <3> QED BY <1>2, <3>2
  <2>7. Total(f, U) = SumFunctionOnSet(w, U)
    BY DEF Total
  <2> HIDE DEF F, w, h, g, X
  <2>8. IsFiniteSet(Y) /\ Cardinality(Y) <= SumFunctionOnSet(w, U)
    BY <2>2, <2>3, CardOfUnionLeq
  <2> HIDE DEF Y
  <2>9. Cardinality(X) <= Cardinality(Y) /\ Cardinality(X) \in Nat /\ Cardinality(Y) \in Nat
    BY <2>4, <2>8, FS_Subset, FS_CardinalityType
  <2>10. SumFunctionOnSet(h, Clients) <= SumFunctionOnSet(g, Clients)
    BY <1>1, <2>6, SumLeq
  <2>11. SumFunctionOnSet(g, Clients) \in Int
    BY <1>1, <2>6, SumType
  <2> QED BY <1>1, <2>5, <2>7, <2>8, <2>9, <2>10, <2>11 DEF X
<1>4. CASE f \notin Fields
  <2>1. f = "newItems" /\ perCycle # 1
    BY <1>4 DEF Fields, Names
  <2>2. X = {}
    BY <2>1 DEF BatchInv, Changed
  <2> HIDE DEF g, X
  <2>3. SumFunctionOnSet(g, Clients) \in Nat
    BY <1>1, <1>2, SumType
  <2> QED BY <1>1, <2>2, <2>3, FS_EmptySet DEF X
<1> QED BY <1>3, <1>4

\* TablesInv, LoadedInv, BatchInv and SentInv hold in every reachable state.
LEMMA SentInvariance == Spec => [](TablesInv /\ LoadedInv /\ BatchInv /\ SentInv)
<1>1. Spec => []TablesInv
  BY InitTablesInv, StepTablesInv, WalkInvariant, PTL DEF Spec
<1>2. Init => LoadedInv /\ BatchInv /\ SentInv
  BY InitBalance, InitSentInv
<1>3. TablesInv /\ WalkInv /\ StateInv /\ LoadedInv /\ BatchInv /\ SentInv /\ [Next]_vars =>
        LoadedInv' /\ BatchInv' /\ SentInv'
  BY StepLoadedInv, StepBatchInv, StepSentInv
<1> QED BY <1>1, <1>2, <1>3, StateInvariance, WalkInvariant, PTL DEF Spec

\* Whatever fails, breaks or is sent again, and whichever keys the clients are
\* given, when all clients and the server are idle the reports of the clients are
\* no less than what has become of the tables (singleUpdateHelper and
\* multiUpdateHelper count an update when its call returns).
THEOREM ReportNeverUnderstatesHolds == Spec => []ReportNeverUnderstates
<1>1. TablesInv /\ StateInv /\ LoadedInv /\ BatchInv /\ SentInv => ReportNeverUnderstates
  <2> SUFFICES ASSUME TablesInv, StateInv, LoadedInv, BatchInv, SentInv, Idle
               PROVE  /\ CountOf("newOrders") >= Cardinality(Inserted)
                      /\ CountOf("newItems") >= Cardinality(db.items \ BaseItems)
                      /\ CountOf("delOrders") >= Cardinality(Gone)
                      /\ CountOf("delItems") >= Cardinality(BaseItems \ db.items)
    BY DEF ReportNeverUnderstates
  <2>1. /\ Changed["newOrders"] = Inserted /\ Changed["newItems"] = db.items \ BaseItems
        /\ Changed["delOrders"] = Gone /\ Changed["delItems"] = BaseItems \ db.items
    BY DEF Changed
  <2>2. \A f \in Names : Cardinality(Changed[f]) <= CountOf(f)
    BY IdleAtMost
  <2>3. Names = {"newOrders", "newItems", "delOrders", "delItems"}
    BY DEF Names
  <2> QED BY <2>1, <2>2, <2>3
<1> QED BY <1>1, SentInvariance, StateInvariance, PTL

-----------------------------------------------------------------------------
(* If nothing fails, all that is reported happens. *)

\* What is left of an update's statements, and of their rows when the first is done.
LEMMA RestIs ==
  ASSUME NEW b, NEW t \in Rests(b)
  PROVE  /\ t # <<>> /\ RowsOf(t, Head(t).kind) = Head(t).rows /\ RowsOf(Tail(t), Head(t).kind) = {}
         /\ \A k : k # Head(t).kind => RowsOf(Tail(t), k) = RowsOf(t, k)
         /\ RowsOf(t, "deletes") = IF redirect THEN Keys(b) ELSE {}
         /\ Head(t).kind = "orders" => Head(t).rows = b /\ RowsOf(t, "items") = ItemsSent(b)
         /\ Tail(t) # <<>> => Tail(t) \in Rests(b) /\ Head(Tail(t)).kind # "orders"
<1> DEFINE o == Statement("orders", b)
           i == Statement("items", ItemsSent(b))
           d == Statement("deletes", Keys(b))
<1>1. t \in IF redirect THEN {<<o, i, d>>, <<i, d>>, <<d>>} ELSE {<<o, i>>, <<i>>}
  BY DEF Rests
<1>2. Rests(b) = IF redirect THEN {<<o, i, d>>, <<i, d>>, <<d>>} ELSE {<<o, i>>, <<i>>}
  BY DEF Rests
<1>3. /\ o.kind = "orders" /\ o.rows = b /\ i.kind = "items" /\ i.rows = ItemsSent(b)
      /\ d.kind = "deletes" /\ d.rows = Keys(b)
  BY DEF Statement
<1> HIDE DEF o, i, d
<1>4. /\ Head(<<o, i, d>>) = o /\ Tail(<<o, i, d>>) = <<i, d>>
      /\ Head(<<i, d>>) = i /\ Tail(<<i, d>>) = <<d>>
      /\ Head(<<d>>) = d /\ Tail(<<d>>) = <<>>
      /\ Head(<<o, i>>) = o /\ Tail(<<o, i>>) = <<i>>
      /\ Head(<<i>>) = i /\ Tail(<<i>>) = <<>>
      /\ <<o, i, d>> # <<>> /\ <<i, d>> # <<>> /\ <<d>> # <<>> /\ <<o, i>> # <<>> /\ <<i>> # <<>>
  OBVIOUS
<1>5. ASSUME NEW k
      PROVE  /\ RowsOf(<<d>>, k) = IF d.kind = k THEN d.rows ELSE {}
             /\ RowsOf(<<i>>, k) = IF i.kind = k THEN i.rows ELSE {}
             /\ RowsOf(<<i, d>>, k) = (IF i.kind = k THEN i.rows ELSE {}) \cup RowsOf(<<d>>, k)
             /\ RowsOf(<<o, i>>, k) = (IF o.kind = k THEN o.rows ELSE {}) \cup RowsOf(<<i>>, k)
             /\ RowsOf(<<o, i, d>>, k) = (IF o.kind = k THEN o.rows ELSE {}) \cup RowsOf(<<i, d>>, k)
             /\ RowsOf(<<>>, k) = {}
  <2>1. /\ RowsOf(<<d>>, k) = IF d.kind = k THEN d.rows ELSE {}
        /\ RowsOf(<<i, d>>, k) = (IF i.kind = k THEN i.rows ELSE {}) \cup RowsOf(<<d>>, k)
        /\ RowsOf(<<o, i, d>>, k) = (IF o.kind = k THEN o.rows ELSE {}) \cup RowsOf(<<i, d>>, k)
    BY RowsOfOne, RowsOfTwo, RowsOfThree
  <2>2. /\ RowsOf(<<i>>, k) = IF i.kind = k THEN i.rows ELSE {}
        /\ RowsOf(<<o, i>>, k) = (IF o.kind = k THEN o.rows ELSE {}) \cup RowsOf(<<i>>, k)
    BY RowsOfOne, RowsOfTwo
  <2> QED BY <2>1, <2>2, RowsOfNone
<1> DEFINE Goal ==
             /\ t # <<>> /\ RowsOf(t, Head(t).kind) = Head(t).rows /\ RowsOf(Tail(t), Head(t).kind) = {}
             /\ \A k : k # Head(t).kind => RowsOf(Tail(t), k) = RowsOf(t, k)
             /\ RowsOf(t, "deletes") = IF redirect THEN Keys(b) ELSE {}
             /\ Head(t).kind = "orders" => Head(t).rows = b /\ RowsOf(t, "items") = ItemsSent(b)
             /\ Tail(t) # <<>> => Tail(t) \in Rests(b) /\ Head(Tail(t)).kind # "orders"
<1>6. ASSUME t = <<o, i, d>>, redirect PROVE Goal
  BY <1>2, <1>3, <1>4, <1>5, <1>6
<1>7. ASSUME t = <<i, d>>, redirect PROVE Goal
  BY <1>2, <1>3, <1>4, <1>5, <1>7
<1>8. ASSUME t = <<d>>, redirect PROVE Goal
  BY <1>2, <1>3, <1>4, <1>5, <1>8
<1>9. ASSUME t = <<o, i>>, ~redirect PROVE Goal
  BY <1>2, <1>3, <1>4, <1>5, <1>9
<1>10. ASSUME t = <<i>>, ~redirect PROVE Goal
  BY <1>2, <1>3, <1>4, <1>5, <1>10
<1> QED BY <1>1, <1>6, <1>7, <1>8, <1>9, <1>10

\* An update that starts has all its statements left.
LEMMA UpdateRests ==
  ASSUME WalkInv, redirect \in BOOLEAN, NEW c \in Updaters
  PROVE  StatementsOf(c) \in Rests(SentBy(c)) /\ Head(StatementsOf(c)).kind = "orders"
<1>1. ItemsOfUpdate(c) = ItemsSent(SentBy(c))
  <2>1. CASE perCycle = 1
    <3> DEFINE o == walk[c].order
    <3>1. o \in Int /\ Batch(c) = {o}
      <4>1. o \in Nat
        BY DEF WalkInv
      <4> QED BY <2>1, <4>1 DEF Batch
    <3>2. ItemsOfUpdate(c) = ItemsOfOrder(c, o)
      BY <2>1, ItemsOfUpdateIs
    <3> HIDE DEF o
    <3>3. SentBy(c) = {<<c, o>>}
      BY <3>1 DEF SentBy
    <3>4. ItemsSent(SentBy(c)) = ItemsOfOrder(c, o)
      BY <2>1, <3>3 DEF ItemsSent
    <3> QED BY <3>2, <3>4
  <2>2. CASE perCycle # 1
    BY <2>2 DEF ItemsOfUpdate, ItemsSent
  <2> QED BY <2>1, <2>2
<1>2. DeletesOfUpdate(c) = Keys(SentBy(c))
  BY SentByIs
<1> DEFINE o == Statement("orders", SentBy(c))
           i == Statement("items", ItemsSent(SentBy(c)))
           d == Statement("deletes", Keys(SentBy(c)))
<1>3. StatementsOf(c) = IF redirect THEN <<o, i, d>> ELSE <<o, i>>
  BY <1>1, <1>2 DEF StatementsOf, SentBy
<1>4. <<o, i, d>> \in Rests(SentBy(c)) \/ ~redirect
  BY DEF Rests
<1>5. <<o, i>> \in Rests(SentBy(c)) \/ redirect
  BY DEF Rests
<1>6. o.kind = "orders"
  BY DEF Statement
<1> HIDE DEF o, i, d
<1> QED BY <1>3, <1>4, <1>5, <1>6

\* Nothing is left to execute at first.
LEMMA InitPendingInv == Init => PendingInv
BY DEF Init, PendingInv

\* What is left to execute of a client's update stays that until it is executed.
LEMMA StepPendingInv == WalkInv /\ TablesInv /\ StateInv /\ PendingInv /\ [Next]_vars => PendingInv'
<1> SUFFICES ASSUME WalkInv, TablesInv, StateInv, PendingInv, [Next]_vars PROVE PendingInv' OBVIOUS
<1> DEFINE Left(d) ==
             /\ pc'[d] = "update" \/ (redirect /\ ~up'[d])
             /\ \E b : /\ b \subseteq Of(d, ClientOrders) /\ b # {} /\ todo'[d] \in Rests(b)
                       /\ ~failed' /\ Head(todo'[d]).kind # "orders" => b \subseteq db'.orders
<1>1. SUFFICES ASSUME NEW d \in Clients, todo'[d] # <<>> PROVE Left(d)
  <2>1. redirect' = redirect /\ perCycle' = perCycle
    BY ConfigStays DEF config
  <2>2. \A b : Rests(b)' = Rests(b)
    BY <2>1 DEF Rests, ItemsSent, Keys, KeyWith
  <2>3. \A d : Of(d, ClientOrders)' = Of(d, ClientOrders)
    BY DEF Of
  <2>4. \A d, b : LeftOf(d, b)' <=> (b \subseteq Of(d, ClientOrders) /\ b # {} /\ todo'[d] \in Rests(b))
    BY <2>2, <2>3 DEF LeftOf
  <2> HIDE DEF LeftOf
  <2> QED BY <2>1, <2>4 DEF PendingInv
<1>2. /\ todo \in [Clients -> Seq(Sendable)] /\ redirect \in BOOLEAN /\ failed' \in BOOLEAN
      /\ pc \in [Clients -> {"loop", "update", "query"}]
  BY StepStateInv DEF TablesInv, StateInv
<1>3. todo[d] # <<>> =>
        /\ pc[d] = "update" \/ (redirect /\ ~up[d])
        /\ \E b : /\ b \subseteq Of(d, ClientOrders) /\ b # {} /\ todo[d] \in Rests(b)
                  /\ ~failed /\ Head(todo[d]).kind # "orders" => b \subseteq db.orders
  BY DEF PendingInv, LeftOf
<1>4. ASSUME NEW c \in Clients, StartUpdate(c) PROVE Left(d)
  <2>1. /\ c \in Updaters /\ UNCHANGED <<db, up>> /\ (failed => failed')
        /\ \/ UNCHANGED <<pc, todo>>
           \/ /\ pc' = [pc EXCEPT ![c] = "update"]
              /\ todo' = todo \/ todo' = [todo EXCEPT ![c] = StatementsOf(c)]
    BY <1>4, StartIs
  <2>2. CASE todo'[d] = todo[d]
    <3>1. pc[d] = "update" => pc'[d] = "update"
      BY <1>2, <2>1
    <3> QED BY <1>1, <1>3, <2>1, <2>2, <3>1
  <2>3. CASE todo'[d] # todo[d]
    <3>1. d = c /\ pc'[d] = "update" /\ todo'[d] = StatementsOf(d)
      BY <1>2, <2>1, <2>3
    <3>2. /\ SentBy(d) \subseteq Of(d, ClientOrders) /\ SentBy(d) # {}
          /\ StatementsOf(d) \in Rests(SentBy(d)) /\ Head(StatementsOf(d)).kind = "orders"
      BY <1>2, <2>1, <3>1, SentByIs, UpdateRests
    <3> QED BY <3>1, <3>2
  <2> QED BY <2>2, <2>3
<1>5. ASSUME NEW c \in Clients, Execute(c) PROVE Left(d)
  <2> DEFINE s == Head(todo[c])
  <2>1. /\ todo[c] # <<>> /\ s \in Sendable /\ todo' = [todo EXCEPT ![c] = Tail(@)]
        /\ UNCHANGED <<config, pc, up>> /\ (failed => failed') /\ (Applied(s) \/ failed')
    BY <1>5, ExecuteIs
  <2>2. todo[d] # <<>> /\ todo'[d] = IF d = c THEN Tail(todo[d]) ELSE todo[d]
    BY <1>1, <1>2, <2>1
  <2>3. PICK b : /\ b \subseteq Of(d, ClientOrders) /\ b # {} /\ todo[d] \in Rests(b)
                 /\ ~failed /\ Head(todo[d]).kind # "orders" => b \subseteq db.orders
    BY <1>3, <2>2
  <2>4. /\ Head(todo[d]).kind = "orders" => Head(todo[d]).rows = b
        /\ d = c => todo'[d] \in Rests(b) /\ Head(todo'[d]).kind # "orders"
    <3>1. /\ Head(todo[d]).kind = "orders" => Head(todo[d]).rows = b
          /\ Tail(todo[d]) # <<>> => Tail(todo[d]) \in Rests(b) /\ Head(Tail(todo[d])).kind # "orders"
      BY <2>3, RestIs
    <3>2. d = c => todo'[d] = Tail(todo[d]) /\ Tail(todo[d]) # <<>>
      BY <1>1, <2>2
    <3> QED BY <3>1, <3>2
  <2>5. b \subseteq ClientOrders /\ (s.kind = "deletes" => s.rows \cap ClientOrders = {})
    <3>1. s.kind = "deletes" => s.rows \subseteq BaseOrders \cup {NoOrder}
      BY <2>1 DEF Sendable, Statement
    <3> QED BY <2>3, <3>1, LoadedAssumption, KeysAssumption DEF Of
  <2>6. pc'[d] = "update" \/ (redirect /\ ~up'[d])
    BY <1>3, <2>1, <2>2
  <2>7. s = Head(todo[c])
    OBVIOUS
  <2> HIDE DEF s
  <2>8. ~failed' /\ Head(todo'[d]).kind # "orders" => b \subseteq db'.orders
    <3> SUFFICES ASSUME ~failed', Head(todo'[d]).kind # "orders" PROVE b \subseteq db'.orders
      OBVIOUS
    <3>1. ~failed /\ Applied(s)
      BY <2>1
    <3>2. CASE d = c /\ s.kind = "orders"
      BY <2>4, <2>7, <3>1, <3>2 DEF Applied
    <3>3. CASE ~(d = c /\ s.kind = "orders")
      <4>1. b \subseteq db.orders
        BY <2>2, <2>3, <2>7, <3>1, <3>3
      <4> QED BY <2>5, <3>1, <4>1 DEF Applied
    <3> QED BY <3>2, <3>3
  <2>9. todo'[d] \in Rests(b)
    BY <2>2, <2>3, <2>4
  <2> QED BY <2>3, <2>6, <2>8, <2>9
<1>6. CASE \A c \in Clients : ~StartUpdate(c) /\ ~Execute(c)
  <2>1. /\ UNCHANGED <<config, db, todo, failed>> /\ (up'[d] => up[d])
        /\ pc[d] = "update" /\ pc'[d] # "update" =>
             IF redirect THEN ~up[d] \/ todo[d] = <<>> ELSE todo[d] = <<>>
    BY <1>6, OtherSteps
  <2> QED BY <1>1, <1>3, <2>1
<1> QED BY <1>4, <1>5, <1>6

\* If nothing has failed, a client that begins an update has nothing left of another.
LEMMA NothingLeft ==
  ASSUME TablesInv, StateInv, PendingInv, NEW c \in Clients, StartUpdate(c), ~failed'
  PROVE  UNCHANGED <<pc, todo>> \/ (/\ todo[c] = <<>> /\ pc' = [pc EXCEPT ![c] = "update"]
                                    /\ todo' = [todo EXCEPT ![c] = StatementsOf(c)])
<1>1. /\ pc[c] = "loop"
      /\ \/ UNCHANGED <<pc, todo>>
         \/ /\ pc' = [pc EXCEPT ![c] = "update"]
            /\ todo' = [todo EXCEPT ![c] = StatementsOf(c)] /\ (redirect => up[c])
  BY StartIs
<1>2. (redirect => up[c]) => todo[c] = <<>>
  BY <1>1 DEF PendingInv
<1> QED BY <1>1, <1>2

\* Nothing is reported at first.
LEMMA InitExactInv == Init => ExactInv /\ FollowInv
<1> SUFFICES ASSUME Init PROVE ExactInv /\ FollowInv OBVIOUS
<1>1. /\ db.orders = BaseOrders /\ \A c \in Clients : todo[c] = <<>> /\ pc[c] = "loop"
      /\ \A c \in Clients : count[c] = [newOrders |-> 0, newItems |-> 0, delOrders |-> 0,
                                        delItems |-> 0, queries |-> 0]
  BY DEF Init
<1>2. Inserted = {} /\ Gone = {}
  BY <1>1 DEF Inserted, Gone
<1>3. ASSUME NEW c \in Clients, NEW f \in Fields
      PROVE  Total(f, Of(c, Inserted)) + Total(f, RowsOf(todo[c], "orders")) = Reported(c, f)
  <2>1. f \in {"newOrders", "newItems", "delOrders", "delItems"}
    BY DEF Fields
  <2>2. Of(c, Inserted) = {} /\ RowsOf(todo[c], "orders") = {}
    BY <1>1, <1>2, RowsOfNone DEF Of
  <2>3. Total(f, {}) = 0
    BY SumEmpty DEF Total
  <2>4. Reported(c, f) = 0
    BY <1>1, <2>1 DEF Reported
  <2> QED BY <2>2, <2>3, <2>4
<1> QED BY <1>2, <1>3 DEF ExactInv, FollowInv

\* The next statement of a client when nothing has failed and nothing fails: it
\* has its effect, and its rows are no longer to come.
LEMMA ExecuteDoes ==
  ASSUME TablesInv, StateInv, PendingInv, NEW c \in Clients, Execute(c), ~failed'
  PROVE  \E b : \E s :
           /\ b \subseteq Of(c, ClientOrders) /\ b \in SUBSET ClientOrders /\ ~failed /\ Applied(s)
           /\ RowsOf(todo[c], s.kind) = s.rows /\ RowsOf(todo'[c], s.kind) = {}
           /\ \A k : k # s.kind => RowsOf(todo'[c], k) = RowsOf(todo[c], k)
           /\ \A d \in Clients : d # c => todo'[d] = todo[d]
           /\ RowsOf(todo[c], "deletes") = IF redirect THEN Keys(b) ELSE {}
           /\ s.kind = "orders" => s.rows = b /\ RowsOf(todo[c], "items") = ItemsSent(b)
           /\ s.kind # "orders" => b \subseteq db.orders
           /\ s.kind = "deletes" => s.rows \subseteq BaseOrders \cup {NoOrder}
           /\ UNCHANGED <<config, pc>>
<1> DEFINE s == Head(todo[c])
<1>1. /\ todo[c] # <<>> /\ s \in Sendable /\ todo' = [todo EXCEPT ![c] = Tail(@)]
      /\ UNCHANGED <<config, pc>> /\ (failed => failed') /\ (Applied(s) \/ failed')
  BY ExecuteIs
<1>2. todo \in [Clients -> Seq(Sendable)]
  BY DEF TablesInv
<1>3. todo'[c] = Tail(todo[c]) /\ \A d \in Clients : d # c => todo'[d] = todo[d]
  BY <1>1, <1>2
<1>4. ~failed /\ Applied(s)
  BY <1>1
<1>5. PICK b : LeftOf(c, b) /\ (~failed /\ Head(todo[c]).kind # "orders" => b \subseteq db.orders)
  BY <1>1 DEF PendingInv
<1>6. /\ b \subseteq Of(c, ClientOrders) /\ b \in SUBSET ClientOrders /\ todo[c] \in Rests(b)
  BY <1>5 DEF LeftOf, Of
<1> DEFINE t == todo[c]
<1>7. t \in Rests(b) /\ s = Head(t)
  BY <1>6
<1> HIDE DEF s, t
<1>8. /\ RowsOf(t, s.kind) = s.rows /\ RowsOf(Tail(t), s.kind) = {}
      /\ \A k : k # s.kind => RowsOf(Tail(t), k) = RowsOf(t, k)
  <2>1. /\ RowsOf(t, Head(t).kind) = Head(t).rows /\ RowsOf(Tail(t), Head(t).kind) = {}
        /\ \A k : k # Head(t).kind => RowsOf(Tail(t), k) = RowsOf(t, k)
    BY <1>7, RestIs, ZenonT(30)
  <2> QED BY <1>7, <2>1
<1>9. /\ RowsOf(t, "deletes") = IF redirect THEN Keys(b) ELSE {}
      /\ s.kind = "orders" => s.rows = b /\ RowsOf(t, "items") = ItemsSent(b)
  BY <1>7, RestIs
<1>10. /\ RowsOf(todo[c], s.kind) = s.rows /\ RowsOf(todo'[c], s.kind) = {}
       /\ \A k : k # s.kind => RowsOf(todo'[c], k) = RowsOf(todo[c], k)
       /\ RowsOf(todo[c], "deletes") = IF redirect THEN Keys(b) ELSE {}
       /\ s.kind = "orders" => s.rows = b /\ RowsOf(todo[c], "items") = ItemsSent(b)
  BY <1>3, <1>8, <1>9 DEF t
<1>11. s.kind = "deletes" => s.rows \subseteq BaseOrders \cup {NoOrder}
  BY <1>1 DEF Sendable, Statement, s
<1>12. s.kind # "orders" => b \subseteq db.orders
  BY <1>4, <1>5 DEF s
<1> QED BY <1>1, <1>3, <1>4, <1>6, <1>10, <1>11, <1>12

\* Each update is reported with what it does.
LEMMA StepExactInv ==
  WalkInv /\ TablesInv /\ StateInv /\ PendingInv /\ ExactInv /\ [Next]_vars => ExactInv'
<1> SUFFICES ASSUME WalkInv, TablesInv, StateInv, PendingInv, ExactInv, [Next]_vars PROVE ExactInv'
  OBVIOUS
<1> SUFFICES ASSUME ~failed', NEW d \in Clients, NEW f \in Fields
             PROVE  Total(f, Of(d, db'.orders \ BaseOrders)) + Total(f, RowsOf(todo'[d], "orders")) =
                      Reported(d, f)'
  <2>1. Fields' = Fields /\ \A f, os : Total(f, os)' = Total(f, os)
    BY ConfigStays, SameWeights
  <2>2. \A d : RowsOf(todo[d], "orders")' = RowsOf(todo'[d], "orders")
    BY DEF RowsOf
  <2>3. \A d : Of(d, Inserted)' = Of(d, db'.orders \ BaseOrders)
    BY DEF Of, Inserted
  <2> QED BY <2>1, <2>2, <2>3 DEF ExactInv
<1>1. /\ todo \in [Clients -> Seq(Sendable)] /\ redirect \in BOOLEAN
      /\ pc \in [Clients -> {"loop", "update", "query"}]
      /\ db.orders \subseteq BaseOrders \cup ClientOrders
  BY DEF TablesInv, StateInv, TablesTyped
<1>2. ~failed =>
        Total(f, Of(d, db.orders \ BaseOrders)) + Total(f, RowsOf(todo[d], "orders")) = Reported(d, f)
  BY DEF ExactInv, Inserted
<1>3. /\ Reported(d, f) \in Nat
      /\ Reported(d, f)' = Reported(d, f) +
           IF pc[d] # "update" /\ pc'[d] = "update" THEN Total(f, SentBy(d)) ELSE 0
  BY ReportedIs
<1>4. f \in Names
  BY DEF Fields, Names
<1> DEFINE I == Of(d, db.orders \ BaseOrders)
<1>5. I \in SUBSET ClientOrders /\ Total(f, I) \in Nat
  <2>1. I \in SUBSET ClientOrders
    BY <1>1 DEF Of
  <2> HIDE DEF I
  <2> QED BY <1>4, <2>1, TotalType
<1>6. ASSUME NEW c \in Clients, StartUpdate(c)
      PROVE  Total(f, Of(d, db'.orders \ BaseOrders)) + Total(f, RowsOf(todo'[d], "orders")) = Reported(d, f)'
  <2>1. c \in Updaters /\ pc[c] = "loop" /\ db' = db /\ ~failed
    BY <1>6, StartIs
  <2>2. UNCHANGED <<pc, todo>> \/ (/\ todo[c] = <<>> /\ pc' = [pc EXCEPT ![c] = "update"]
                                   /\ todo' = [todo EXCEPT ![c] = StatementsOf(c)])
    BY <1>6, NothingLeft
  <2>3. CASE UNCHANGED <<pc, todo>> \/ d # c
    <3>1. todo'[d] = todo[d] /\ pc'[d] = pc[d]
      BY <1>1, <2>2, <2>3
    <3> QED BY <1>2, <1>3, <2>1, <3>1
  <2>4. CASE d = c /\ todo[d] = <<>> /\ pc' = [pc EXCEPT ![d] = "update"]
                   /\ todo' = [todo EXCEPT ![d] = StatementsOf(d)]
    <3>1. pc[d] # "update" /\ pc'[d] = "update" /\ todo'[d] = StatementsOf(d)
      BY <1>1, <2>1, <2>4
    <3>2. RowsOf(todo'[d], "orders") = SentBy(d)
      BY <1>1, <2>1, <2>4, <3>1, RowsOfUpdate
    <3>3. RowsOf(todo[d], "orders") = {} /\ Total(f, {}) = 0
      BY <2>4, RowsOfNone, SumEmpty DEF Total
    <3>4. Total(f, I) + 0 = Reported(d, f)
      BY <1>2, <2>1, <3>3
    <3> QED BY <1>3, <1>5, <2>1, <3>1, <3>2, <3>4
  <2> QED BY <2>2, <2>3, <2>4
<1>7. ASSUME NEW c \in Clients, Execute(c)
      PROVE  Total(f, Of(d, db'.orders \ BaseOrders)) + Total(f, RowsOf(todo'[d], "orders")) = Reported(d, f)'
  <2>1. PICK b : \E s :
           /\ b \subseteq Of(c, ClientOrders) /\ b \in SUBSET ClientOrders /\ ~failed /\ Applied(s)
           /\ RowsOf(todo'[c], s.kind) = {} /\ RowsOf(todo[c], s.kind) = s.rows
           /\ \A k : k # s.kind => RowsOf(todo'[c], k) = RowsOf(todo[c], k)
           /\ \A e \in Clients : e # c => todo'[e] = todo[e]
           /\ s.kind = "orders" => s.rows = b
           /\ s.kind = "deletes" => s.rows \subseteq BaseOrders \cup {NoOrder}
           /\ pc' = pc
    BY <1>7, ExecuteDoes
  <2>2. PICK s :
           /\ ~failed /\ Applied(s)
           /\ RowsOf(todo'[c], s.kind) = {} /\ RowsOf(todo[c], s.kind) = s.rows
           /\ \A k : k # s.kind => RowsOf(todo'[c], k) = RowsOf(todo[c], k)
           /\ \A e \in Clients : e # c => todo'[e] = todo[e]
           /\ s.kind = "orders" => s.rows = b
           /\ s.kind = "deletes" => s.rows \subseteq BaseOrders \cup {NoOrder}
           /\ pc' = pc
    BY <2>1
  <2>3. b \subseteq Of(c, ClientOrders) /\ b \in SUBSET ClientOrders /\ b \cap BaseOrders = {}
    BY <2>1, LoadedAssumption
  <2>4. Reported(d, f)' = Reported(d, f)
    BY <1>3, <2>2
  <2>5. CASE s.kind # "orders"
    <3>1. db'.orders \ BaseOrders = db.orders \ BaseOrders
      <4>1. ClientOrders \cap (BaseOrders \cup {NoOrder}) = {}
        BY LoadedAssumption, KeysAssumption
      <4> QED BY <1>1, <2>2, <2>5, <4>1 DEF Applied
    <3>2. RowsOf(todo'[d], "orders") = RowsOf(todo[d], "orders")
      BY <2>2, <2>5
    <3> QED BY <1>2, <2>2, <2>4, <3>1, <3>2
  <2>6. CASE s.kind = "orders"
    <3>1. /\ b \cap db.orders = {} /\ db'.orders \ BaseOrders = (db.orders \ BaseOrders) \cup b
          /\ RowsOf(todo[c], "orders") = b /\ RowsOf(todo'[c], "orders") = {}
      BY <2>2, <2>3, <2>6 DEF Applied
    <3>2. Of(d, db'.orders \ BaseOrders) = I \cup Of(d, b)
      BY <3>1, OfIs
    <3>3. CASE d # c
      <4>1. Of(d, b) = {} /\ todo'[d] = todo[d]
        <5>1. \A o \in b : o[1] = c
          BY <2>3 DEF Of
        <5> QED BY <2>2, <3>3, <5>1 DEF Of
      <4>2. Of(d, db'.orders \ BaseOrders) = I
        BY <3>2, <4>1
      <4> QED BY <1>2, <2>2, <2>4, <4>1, <4>2
    <3>4. CASE d = c
      <4>1. Of(d, b) = b
        BY <2>3, <3>4, OfIs
      <4>2. I \cap b = {}
        BY <3>1 DEF Of
      <4> HIDE DEF I
      <4>3. /\ IsFiniteSet(I) /\ IsFiniteSet(b) /\ \A o \in I \cup b : Weight[f][o] \in Int
        BY <1>4, <1>5, <2>3, OrdersFinite, DoesIs
      <4>4. Total(f, I \cup b) = Total(f, I) + Total(f, b)
        BY <4>2, <4>3, SumUnion DEF Total
      <4>5. Total(f, {}) = 0 /\ Total(f, b) \in Nat
        BY <1>4, <2>3, SumEmpty, TotalType DEF Total
      <4>6. Total(f, I) + Total(f, b) = Reported(d, f)
        BY <1>2, <2>2, <3>1, <3>4 DEF I
      <4>7. Total(f, Of(d, db'.orders \ BaseOrders)) = Total(f, I) + Total(f, b)
        BY <3>2, <4>1, <4>4
      <4>8. Total(f, RowsOf(todo'[d], "orders")) = 0
        BY <3>1, <3>4, <4>5
      <4> QED BY <1>5, <2>4, <4>5, <4>6, <4>7, <4>8
    <3> QED BY <3>3, <3>4
  <2> QED BY <2>5, <2>6
<1>8. CASE \A c \in Clients : ~StartUpdate(c) /\ ~Execute(c)
  <2>1. db' = db /\ todo' = todo /\ ~failed /\ (pc'[d] = "update" => pc[d] = "update")
    BY <1>8, OtherSteps
  <2> QED BY <1>2, <1>3, <2>1
<1> QED BY <1>6, <1>7, <1>8

\* The items of an order come with it, the order that goes with it follows.
LEMMA StepFollowInv ==
  WalkInv /\ TablesInv /\ StateInv /\ PendingInv /\ FollowInv /\ [Next]_vars => FollowInv'
<1> SUFFICES ASSUME WalkInv, TablesInv, StateInv, PendingInv, FollowInv, [Next]_vars PROVE FollowInv'
  OBVIOUS
\* What is to be shown of an order, now and after the step.
<1> DEFINE Now(o) ==
             /\ redirect => KeyWith(o) \notin db.orders \/ KeyWith(o) \in RowsOf(todo[o[1]], "deletes")
             /\ perCycle = 1 => ItemsOfOrder(o[1], o[2]) \subseteq db.items \cup RowsOf(todo[o[1]], "items")
           Then(o) ==
             /\ redirect => KeyWith(o) \notin db'.orders \/ KeyWith(o) \in RowsOf(todo'[o[1]], "deletes")
             /\ perCycle = 1 => ItemsOfOrder(o[1], o[2]) \subseteq db'.items \cup RowsOf(todo'[o[1]], "items")
           Ins == db.orders \ BaseOrders
           Ins2 == db'.orders \ BaseOrders
<1> SUFFICES ASSUME ~failed'
             PROVE  (\A o \in Ins2 : Then(o)) /\ BaseOrders \ db'.orders \subseteq Keys(Ins2)
  <2>1. redirect' = redirect /\ perCycle' = perCycle
    BY ConfigStays DEF config
  <2>2. \A d, k : RowsOf(todo[d], k)' = RowsOf(todo'[d], k)
    BY DEF RowsOf
  <2>3. Keys(Inserted)' = Keys(Ins2) /\ Inserted' = Ins2 /\ Gone' = BaseOrders \ db'.orders
    BY DEF Keys, KeyWith, Inserted, Gone
  <2>4. \A o : ItemsOfOrder(o[1], o[2])' = ItemsOfOrder(o[1], o[2]) /\ KeyWith(o)' = KeyWith(o)
    BY DEF ItemsOfOrder, KeyWith
  <2> QED BY <2>1, <2>2, <2>3, <2>4 DEF FollowInv
<1>1. ~failed => (\A o \in Ins : Now(o)) /\ BaseOrders \ db.orders \subseteq Keys(Ins)
  BY DEF FollowInv, Inserted, Gone
<1>2. /\ todo \in [Clients -> Seq(Sendable)] /\ db.orders \subseteq BaseOrders \cup ClientOrders
      /\ redirect \in BOOLEAN
  BY DEF TablesInv, StateInv, TablesTyped
<1>3. \A o \in Ins : o \in ClientOrders /\ o[1] \in Clients /\ KeyWith(o) \in BaseOrders \cup {NoOrder}
  BY <1>2, OrderIs
<1>4. ClientOrders \cap (BaseOrders \cup {NoOrder}) = {}
  BY LoadedAssumption, KeysAssumption
<1> DEFINE Goal == (\A o \in Ins2 : Then(o)) /\ BaseOrders \ db'.orders \subseteq Keys(Ins2)
<1>5. ASSUME NEW c \in Clients, StartUpdate(c) PROVE Goal
  <2>1. db' = db /\ ~failed
    BY <1>5, StartIs
  <2>2. UNCHANGED todo \/ (todo[c] = <<>> /\ todo' = [todo EXCEPT ![c] = StatementsOf(c)])
    BY <1>5, NothingLeft
  <2>3. ASSUME NEW d \in Clients, NEW k PROVE RowsOf(todo[d], k) \subseteq RowsOf(todo'[d], k)
    <3>1. todo'[d] = todo[d] \/ todo[d] = <<>>
      BY <1>2, <2>2
    <3>2. RowsOf(<<>>, k) = {}
      BY RowsOfNone
    <3> QED BY <3>1, <3>2
  <2>4. ASSUME NEW o \in Ins2 PROVE Then(o)
    <3>1. o \in Ins /\ Now(o) /\ o[1] \in Clients
      BY <1>1, <1>3, <2>1
    <3>2. /\ RowsOf(todo[o[1]], "deletes") \subseteq RowsOf(todo'[o[1]], "deletes")
          /\ RowsOf(todo[o[1]], "items") \subseteq RowsOf(todo'[o[1]], "items")
      BY <2>3, <3>1
    <3> QED BY <2>1, <3>1, <3>2
  <2> QED BY <1>1, <2>1, <2>4
<1>6. ASSUME NEW c \in Clients, Execute(c) PROVE Goal
  <2>1. PICK b, s :
          /\ b \subseteq Of(c, ClientOrders) /\ b \in SUBSET ClientOrders /\ ~failed /\ Applied(s)
          /\ RowsOf(todo[c], s.kind) = s.rows /\ RowsOf(todo'[c], s.kind) = {}
          /\ \A k : k # s.kind => RowsOf(todo'[c], k) = RowsOf(todo[c], k)
          /\ \A d \in Clients : d # c => todo'[d] = todo[d]
          /\ RowsOf(todo[c], "deletes") = IF redirect THEN Keys(b) ELSE {}
          /\ s.kind = "orders" => s.rows = b /\ RowsOf(todo[c], "items") = ItemsSent(b)
          /\ s.kind # "orders" => b \subseteq db.orders
          /\ s.kind = "deletes" => s.rows \subseteq BaseOrders \cup {NoOrder}
    BY <1>6, ExecuteDoes
  <2>2. ASSUME NEW d \in Clients, NEW k, k # s.kind PROVE RowsOf(todo'[d], k) = RowsOf(todo[d], k)
    BY <2>1, <2>2
  <2>3. \A d \in Clients : d # c => todo'[d] = todo[d]
    BY <2>1
  <2>4. CASE s.kind = "orders"
    <3>1. /\ db'.orders = db.orders \cup b /\ db'.items = db.items /\ Ins2 = Ins \cup b
          /\ RowsOf(todo[c], "items") = ItemsSent(b)
      <4>1. b \cap BaseOrders = {}
        BY <1>4, <2>1
      <4> QED BY <2>1, <2>4, <4>1 DEF Applied
    <3>2. ASSUME NEW o \in Ins2 PROVE Then(o)
      <4>1. o \in Ins2 /\ (o \in Ins \/ o \in b) /\ o \in ClientOrders /\ o[1] \in Clients
        BY <1>3, <2>1, <3>1, OrderIs
      <4>2. KeyWith(o) \in BaseOrders \cup {NoOrder} /\ KeyWith(o) \notin b
        BY <1>4, <2>1, <4>1, OrderIs
      <4>3. /\ RowsOf(todo'[o[1]], "deletes") = RowsOf(todo[o[1]], "deletes")
            /\ RowsOf(todo'[o[1]], "items") = RowsOf(todo[o[1]], "items")
        BY <2>2, <2>4, <4>1
      <4>4. CASE o \in Ins
        <5>1. Now(o)
          BY <1>1, <2>1, <4>4
        <5> QED BY <3>1, <4>2, <4>3, <5>1
      <4>5. CASE o \in b
        <5>1. o[1] = c
          BY <2>1, <4>5 DEF Of
        <5>2. redirect => KeyWith(o) \in RowsOf(todo[c], "deletes")
          BY <2>1, <4>5 DEF Keys
        <5>3. perCycle = 1 => ItemsOfOrder(o[1], o[2]) \subseteq RowsOf(todo[c], "items")
          BY <3>1, <4>5 DEF ItemsSent
        <5> QED BY <4>3, <5>1, <5>2, <5>3
      <4> QED BY <4>1, <4>4, <4>5
    <3>3. BaseOrders \ db'.orders \subseteq Keys(Ins2)
      BY <1>1, <2>1, <3>1 DEF Keys
    <3> QED BY <3>2, <3>3
  <2>5. CASE s.kind = "items"
    <3>1. db'.orders = db.orders /\ db'.items = db.items \cup s.rows /\ Ins2 = Ins
      BY <2>1, <2>5 DEF Applied
    <3>2. ASSUME NEW o \in Ins2 PROVE Then(o)
      <4>1. o \in Ins /\ Now(o) /\ o[1] \in Clients
        BY <1>1, <1>3, <2>1, <3>1
      <4>2. RowsOf(todo'[o[1]], "deletes") = RowsOf(todo[o[1]], "deletes")
        BY <2>2, <2>5, <4>1
      <4>3. o[1] # c => RowsOf(todo'[o[1]], "items") = RowsOf(todo[o[1]], "items")
        BY <2>3, <4>1
      <4>4. o[1] = c => RowsOf(todo[o[1]], "items") = s.rows
        BY <2>1, <2>5
      <4> QED BY <3>1, <4>1, <4>2, <4>3, <4>4
    <3> QED BY <1>1, <2>1, <3>1, <3>2
  <2>6. CASE s.kind = "deletes"
    <3>1. /\ db'.orders = db.orders \ s.rows /\ Ins2 = Ins
          /\ db'.items = {i \in db.items : OrderOf(i) \notin s.rows}
      BY <1>2, <1>4, <2>1, <2>6 DEF Applied
    <3>2. ASSUME NEW o \in Ins2 PROVE Then(o)
      <4>1. o \in Ins /\ Now(o) /\ o[1] \in Clients /\ o \in ClientOrders
        BY <1>1, <1>3, <2>1, <3>1
      <4>2. RowsOf(todo'[o[1]], "items") = RowsOf(todo[o[1]], "items")
        BY <2>2, <2>6, <4>1
      <4>3. RowsOf(todo'[o[1]], "deletes") = RowsOf(todo[o[1]], "deletes")
              \/ RowsOf(todo[o[1]], "deletes") = s.rows
        BY <2>1, <2>3, <2>6, <4>1
      <4>4. \A i \in ItemsOfOrder(o[1], o[2]) : OrderOf(i) \notin s.rows
        BY <1>4, <2>1, <2>6, <4>1, ItemsOfOne
      <4>5. redirect => KeyWith(o) \notin db'.orders \/ KeyWith(o) \in RowsOf(todo'[o[1]], "deletes")
        BY <3>1, <4>1, <4>3
      <4>6. perCycle = 1 => ItemsOfOrder(o[1], o[2]) \subseteq db'.items \cup RowsOf(todo'[o[1]], "items")
        BY <3>1, <4>1, <4>2, <4>4
      <4> QED BY <4>5, <4>6
    <3>3. b \subseteq Ins
      BY <1>4, <2>1, <2>6
    <3>4. s.rows \subseteq Keys(b)
      BY <2>1, <2>6
    <3>5. BaseOrders \ db'.orders \subseteq Keys(Ins2)
      BY <1>1, <2>1, <3>1, <3>3, <3>4 DEF Keys
    <3> QED BY <3>2, <3>5
  <2> QED BY <2>1, <2>4, <2>5, <2>6 DEF Applied
<1>7. CASE \A c \in Clients : ~StartUpdate(c) /\ ~Execute(c)
  <2>1. db' = db /\ todo' = todo /\ ~failed
    BY <1>7, OtherSteps
  <2> QED BY <1>1, <2>1
<1> QED BY <1>5, <1>6, <1>7

\* If nothing has failed, the orders sent are those in the tables.
LEMMA SentIsInserted ==
  ASSUME StateInv, SentInv, ExactInv, FollowInv, Idle, ~failed
  PROVE  Sent(Inserted) /\ Inserted \in SUBSET ClientOrders
<1>1. PICK U \in SUBSET ClientOrders : Sent(U)
  BY DEF SentInv
<1>2. Inserted \in SUBSET ClientOrders /\ Gone \subseteq IF redirect THEN Keys(Inserted) ELSE {}
  BY <1>1 DEF Sent, FollowInv
<1>3. ASSUME NEW c \in Clients
      PROVE  RowsOf(todo[c], "orders") = {} /\ RowsOf(todo[c], "deletes") = {}
  BY RowsOfNone DEF Idle
<1>4. ASSUME NEW c \in Clients, NEW f \in Fields PROVE Total(f, Of(c, Inserted)) <= Reported(c, f)
  <2>1. f \in Names /\ Of(c, Inserted) \in SUBSET ClientOrders
    BY <1>2 DEF Fields, Names, Of
  <2>2. Total(f, Of(c, Inserted)) \in Nat /\ Total(f, {}) = 0
    BY <2>1, TotalType, SumEmpty DEF Total
  <2>3. Total(f, Of(c, Inserted)) + Total(f, RowsOf(todo[c], "orders")) = Reported(c, f)
    BY DEF ExactInv
  <2> QED BY <1>3, <2>2, <2>3
<1> QED BY <1>2, <1>3, <1>4 DEF Sent

\* If nothing has failed, what the clients report is what the orders in the tables add.
LEMMA IdleTotal ==
  ASSUME StateInv, ExactInv, Idle, ~failed, Inserted \in SUBSET ClientOrders, NEW f \in Fields
  PROVE  CountOf(f) = Total(f, Inserted)
<1> DEFINE g == [c \in Clients |-> count[c][f]]
           h == [c \in Clients |-> Total(f, Of(c, Inserted))]
<1>1. f \in Names
  BY DEF Fields, Names
<1>2. ASSUME NEW c \in Clients PROVE g[c] = h[c]
  <2>1. Total(f, Of(c, Inserted)) + Total(f, RowsOf(todo[c], "orders")) = Reported(c, f)
    BY DEF ExactInv
  <2>2. RowsOf(todo[c], "orders") = {} /\ Total(f, {}) = 0
    BY RowsOfNone, SumEmpty DEF Idle, Total
  <2>3. Of(c, Inserted) \in SUBSET ClientOrders
    BY DEF Of
  <2>4. Total(f, Of(c, Inserted)) \in Nat
    BY <1>1, <2>3, TotalType
  <2>5. Reported(c, f) = count[c][f]
    BY <1>1, IdleReports
  <2>6. Total(f, Of(c, Inserted)) + 0 = count[c][f]
    BY <2>1, <2>2, <2>5
  <2> QED BY <2>4, <2>6
<1>3. IsFiniteSet(Clients)
  BY ClientsAssumption
<1>4. CountOf(f) = SumFunctionOnSet(g, Clients)
  BY DEF CountOf, SumFunction
<1>5. Total(f, Inserted) = SumFunctionOnSet(h, Clients)
  BY <1>1, TotalOfClients
<1> HIDE DEF g, h
<1>6. SumFunctionOnSet(g, Clients) = SumFunctionOnSet(h, Clients)
  BY <1>2, <1>3, SumEqual
<1> QED BY <1>4, <1>5, <1>6

\* If nothing has failed, an order in the tables has its items and the order whose
\* key goes with it is gone.
LEMMA IdleFollows ==
  ASSUME FollowInv, Idle, ~failed, NEW o \in Inserted, Inserted \in SUBSET ClientOrders
  PROVE  /\ redirect => KeyWith(o) \notin db.orders
         /\ perCycle = 1 => ItemsOfOrder(o[1], o[2]) \subseteq db.items
<1>1. o[1] \in Clients
  BY OrderIs
<1>2. RowsOf(todo[o[1]], "deletes") = {} /\ RowsOf(todo[o[1]], "items") = {}
  BY <1>1, RowsOfNone DEF Idle
<1> QED BY <1>2 DEF FollowInv

\* Each counter that is right is the number of what has changed.
LEMMA IdleExact ==
  ASSUME TablesInv, StateInv, LoadedInv, SentInv, ExactInv, FollowInv, Idle, ~failed, NEW f \in Fields,
         f \in {"newOrders", "newItems"} \/ KeysDiffer
  PROVE  CountOf(f) = Cardinality(Changed[f])
<1> DEFINE F == Does[f]
           w == Weight[f]
           X == Changed[f]
<1>1. Sent(Inserted) /\ Inserted \in SUBSET ClientOrders /\ IsFiniteSet(Inserted)
  BY SentIsInserted, OrdersFinite
<1>2. f \in Names /\ (f = "newItems" => perCycle = 1)
  BY DEF Fields, Names
<1>3. X \subseteq UNION {F[o] : o \in Inserted}
  BY <1>1, <1>2, ChangedBySent
<1>4. ASSUME NEW o \in Inserted
      PROVE  /\ o \in ClientOrders /\ o \notin BaseOrders /\ KeyWith(o) \in BaseOrders \cup {NoOrder}
             /\ redirect => KeyWith(o) \notin db.orders
             /\ perCycle = 1 => ItemsOfOrder(o[1], o[2]) \subseteq db.items
             /\ f \in {"newOrders", "newItems"} \/ KeyWith(o) # NoOrder
  BY <1>1, IdleFollows, OrderIs DEF KeysDiffer
<1>5. ASSUME NEW o \in Inserted
      PROVE  F[o] \subseteq X /\ IsFiniteSet(F[o]) /\ w[o] = Cardinality(F[o])
  <2>1. IsFiniteSet(F[o]) /\ w[o] = Cardinality(F[o])
    BY <1>2, <1>4, DoesIs
  <2>2. CASE f = "newOrders"
    <3>1. F[o] = {o} /\ X = Inserted
      BY <1>4, <2>2 DEF Does, Changed
    <3> QED BY <2>1, <3>1
  <2>3. CASE f = "newItems"
    <3>1. F[o] = ItemsOfOrder(o[1], o[2]) /\ X = db.items \ BaseItems
      BY <1>4, <2>3 DEF Does, Changed
    <3>2. \A i \in ItemsOfOrder(o[1], o[2]) : OrderOf(i) = o
      BY <1>4, ItemsOfOne
    <3>3. \A i \in BaseItems : OrderOf(i) # o
      BY <1>4 DEF BaseOrders
    <3> QED BY <1>2, <1>4, <2>1, <2>3, <3>1, <3>2, <3>3
  <2>4. CASE f = "delOrders"
    <3>1. F[o] = (IF redirect THEN {KeyWith(o)} ELSE {}) /\ X = Gone
      BY <1>4, <2>4 DEF Does, Changed
    <3> QED BY <1>4, <2>1, <2>4, <3>1 DEF Gone
  <2>5. CASE f = "delItems"
    <3>1. F[o] = (IF redirect THEN ItemsOf(KeyWith(o), BaseItems) ELSE {}) /\ X = BaseItems \ db.items
      BY <1>4, <2>5 DEF Does, Changed
    <3>2. \A i \in db.items : OrderOf(i) \in db.orders
      BY DEF TablesInv, Whole
    <3> QED BY <1>4, <2>1, <3>1, <3>2 DEF ItemsOf
  <2> QED BY <1>2, <2>2, <2>3, <2>4, <2>5 DEF Names
<1>6. ASSUME NEW o \in Inserted, NEW p \in Inserted, o # p PROVE F[o] \cap F[p] = {}
  <2>1. o \in ClientOrders /\ p \in ClientOrders
    BY <1>4
  <2>2. f \in {"newOrders", "newItems"} \/ KeyWith(o) # KeyWith(p)
    BY <1>6 DEF KeysDiffer
  <2>3. CASE f = "newOrders"
    BY <1>6, <2>1, <2>3 DEF Does
  <2>4. CASE f = "newItems"
    <3>1. F[o] = ItemsOfOrder(o[1], o[2]) /\ F[p] = ItemsOfOrder(p[1], p[2])
      BY <2>1, <2>4 DEF Does
    <3>2. /\ \A i \in ItemsOfOrder(o[1], o[2]) : OrderOf(i) = o
          /\ \A i \in ItemsOfOrder(p[1], p[2]) : OrderOf(i) = p
      BY <2>1, ItemsOfOne
    <3> QED BY <1>6, <3>1, <3>2
  <2>5. CASE f = "delOrders"
    BY <2>1, <2>2, <2>5 DEF Does
  <2>6. CASE f = "delItems"
    BY <2>1, <2>2, <2>6 DEF Does, ItemsOf
  <2> QED BY <1>2, <2>3, <2>4, <2>5, <2>6 DEF Names
<1> DEFINE Y == UNION {F[o] : o \in Inserted}
<1>7. CountOf(f) = SumFunctionOnSet(w, Inserted)
  <2>1. CountOf(f) = Total(f, Inserted)
    BY <1>1, IdleTotal
  <2> QED BY <2>1 DEF Total
<1> HIDE DEF F, w, X
<1>8. Y = X
  BY <1>3, <1>5
<1>9. Cardinality(Y) = SumFunctionOnSet(w, Inserted)
  <2>1. \A o \in Inserted : IsFiniteSet(F[o]) /\ w[o] = Cardinality(F[o])
    BY <1>5
  <2>2. \A o, p \in Inserted : o # p => F[o] \cap F[p] = {}
    BY <1>6
  <2> QED BY <1>1, <2>1, <2>2, CardOfUnion
<1> QED BY <1>7, <1>8, <1>9 DEF X

\* PendingInv, ExactInv and FollowInv hold in every reachable state.
LEMMA ExactInvariance == Spec => [](PendingInv /\ ExactInv /\ FollowInv)
<1>1. Init => PendingInv /\ ExactInv /\ FollowInv
  BY InitPendingInv, InitExactInv
<1>2. WalkInv /\ TablesInv /\ StateInv /\ PendingInv /\ ExactInv /\ FollowInv /\ [Next]_vars =>
        PendingInv' /\ ExactInv' /\ FollowInv'
  BY StepPendingInv, StepExactInv, StepFollowInv
<1> QED BY <1>1, <1>2, SentInvariance, StateInvariance, WalkInvariant, PTL DEF Spec

\* If no message or statement failed, then whenever all clients and the server are
\* idle the clients report the orders and items that were inserted, the loaded
\* orders gone are those the updates came with, and the clients report these too,
\* unless a key was 0 or given twice (the counts of singleUpdateHelper and
\* multiUpdateHelper, over the keys splitUpdatesPerRoutineAndRegion deals).
THEOREM ReportIsTrue == Spec => []ReportMatchesTables
<1>1. TablesInv /\ StateInv /\ LoadedInv /\ SentInv /\ ExactInv /\ FollowInv =>
        ReportMatchesTables
  <2> SUFFICES ASSUME TablesInv, StateInv, LoadedInv, SentInv, ExactInv, FollowInv, Idle, ~failed
               PROVE  /\ CountOf("newOrders") = Cardinality(Inserted)
                      /\ perCycle = 1 => CountOf("newItems") = Cardinality(db.items \ BaseItems)
                      /\ Gone = IF redirect THEN {KeyWith(o) : o \in Inserted} \ {NoOrder} ELSE {}
                      /\ KeysDiffer => /\ CountOf("delOrders") = Cardinality(Gone)
                                       /\ CountOf("delItems") = Cardinality(BaseItems \ db.items)
    BY DEF ReportMatchesTables
  <2>1. /\ Changed["newOrders"] = Inserted /\ Changed["newItems"] = db.items \ BaseItems
        /\ Changed["delOrders"] = Gone /\ Changed["delItems"] = BaseItems \ db.items
    BY DEF Changed
  <2>2. /\ "newOrders" \in Fields /\ "delOrders" \in Fields /\ "delItems" \in Fields
        /\ perCycle = 1 => "newItems" \in Fields
    BY DEF Fields
  <2>3. CountOf("newOrders") = Cardinality(Inserted)
    BY <2>1, <2>2, IdleExact
  <2>4. perCycle = 1 => CountOf("newItems") = Cardinality(db.items \ BaseItems)
    BY <2>1, <2>2, IdleExact
  <2>5. KeysDiffer => CountOf("delOrders") = Cardinality(Gone)
    BY <2>1, <2>2, IdleExact
  <2>6. KeysDiffer => CountOf("delItems") = Cardinality(BaseItems \ db.items)
    BY <2>1, <2>2, IdleExact
  <2>7. Gone = IF redirect THEN Keys(Inserted) \ {NoOrder} ELSE {}
    <3>1. Sent(Inserted) /\ Inserted \in SUBSET ClientOrders
      BY SentIsInserted
    <3>2. Gone \subseteq (IF redirect THEN Keys(Inserted) ELSE {}) /\ NoOrder \notin Gone
      BY <3>1, KeysAssumption DEF Sent, Gone
    <3>3. ASSUME redirect, NEW o \in Inserted, KeyWith(o) # NoOrder PROVE KeyWith(o) \in Gone
      BY <3>1, <3>3, IdleFollows, OrderIs DEF Gone
    <3> QED BY <3>2, <3>3 DEF Keys
  <2>8. Keys(Inserted) = {KeyWith(o) : o \in Inserted}
    BY DEF Keys
  <2> QED BY <2>3, <2>4, <2>5, <2>6, <2>7, <2>8
<1> QED BY <1>1, SentInvariance, ExactInvariance, StateInvariance, PTL
=============================================================================
