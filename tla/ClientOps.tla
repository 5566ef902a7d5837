------------------------------ MODULE ClientOps ------------------------------
(***************************************************************************)
(* The mix of updates and queries that the clients of a benchmark send     *)
(* (doBench and the helpers in pgQuery.go, the update functions in         *)
(* pgViews.go), and what becomes of it in the database. An update is a     *)
(* list of statements. In direct mode the client executes them itself, one *)
(* after the other and outside of any transaction. In redirect mode it     *)
(* sends them as one message to a server and waits for the answer; the     *)
(* connection may break at any time, and the server then goes on alone.    *)
(* Any statement may fail: the client prints the error and carries on.     *)
(*                                                                         *)
(* The orders of client c are <<c, 0>>, <<c, 1>> and so on, its items      *)
(* <<<<c, i>>, k>> with their position k in its share.                     *)
(***************************************************************************)
EXTENDS Sequences, TpchTables

CONSTANTS
  Clients,      \* positive numbers
  Updaters,     \* the clients that run doBench, the others run doQueryBench
  Shares,       \* for each updater, a layout as in UpdateStream
  DeleteKeys,   \* for each updater, the order its i-th update deletes
  NoOrder,      \* what a key of 0 stands for: no order has it
  ZeroItems,    \* what ItemsPerOrder holds where a key of 0 leads
  BaseItems,    \* the loaded items
  CycleSizes,   \* the values QUERIES_PER_CYCLE may be configured to
  NQueries,     \* len(client.QueryFuncs)
  MaxOps        \* bound: the updates and queries of each client

BaseOrders == {OrderOf(i) : i \in BaseItems}
OrdersOfClient(c) == {<<c, i>> : i \in 0..(Shares[c].n - 1)}
ClientOrders == UNION {OrdersOfClient(c) : c \in Updaters}

ASSUME ClientsAssumption ==
  IsFiniteSet(Clients) /\ Clients \subseteq Nat \ {0} /\ Updaters \subseteq Clients
ASSUME LoadedAssumption ==
  /\ IsFiniteSet(BaseItems) /\ \A i \in BaseItems : i[2] \in Nat
  /\ BaseOrders \cap ClientOrders = {}
ASSUME NumbersAssumption ==
  CycleSizes \subseteq Nat \ {0} /\ NQueries \in Nat \ {0} /\ MaxOps \in [Clients -> Nat]
ASSUME SharesAssumption ==
  \A c \in Updaters :
    /\ Shares[c].n \in Nat
    /\ \A q \in CycleSizes : q <= Shares[c].n
    /\ Shares[c].start \in [0..Shares[c].n -> Nat] /\ Shares[c].start[0] = 0
    /\ \A i \in 0..Shares[c].n, j \in 0..Shares[c].n : i <= j => Shares[c].start[i] <= Shares[c].start[j]
\* The keys to delete are as splitUpdatesPerRoutineAndRegion deals them: loaded
\* orders, any of them more than once and to more than one client, or 0.
ASSUME KeysAssumption ==
  /\ \A c \in Updaters : DeleteKeys[c] \in [0..(Shares[c].n - 1) -> BaseOrders \cup {NoOrder}]
  /\ NoOrder \notin BaseOrders \cup ClientOrders /\ ZeroItems \in Nat

VARIABLES
  redirect,   \* IS_REDIRECT
  perCycle,   \* QUERIES_PER_CYCLE
  cascade,    \* tables made by SendCreateTables (else by alterTables.sql)
  db,         \* the tables of orders and of items
  pc,         \* what each client is doing: "loop", "update" or "query"
  todo,       \* the statements of its update not executed yet
  sent,       \* whether its last message left
  up,         \* whether its connection is up
  walk,       \* OrderI, LineI and LineF
  seen,       \* history: the orders sent since the walk last started
  currQi,     \* the query function to call next
  called,     \* history: how often each was called
  count,      \* the statistics, without their resets
  ops,        \* how many updates and queries it has started
  failed,     \* history: some message was not sent or some statement refused
  panicked    \* a client has panicked, and with it the process

config == <<redirect, perCycle, cascade>>
client == <<pc, todo, sent, walk, seen, currQi, called, count, ops>>
vars == <<config, db, client, up, failed, panicked>>

-----------------------------------------------------------------------------

\* The sum of LineSizes[a:b].
ItemsIn(c, a, b) == Shares[c].start[b] - Shares[c].start[a]

\* The orders of the next update: i to i + QUERIES_PER_CYCLE of the share.
Batch(c) == walk[c].order..(walk[c].order + perCycle - 1)

\* The order whose item stands at position k of the share.
OwnerOf(c, k) ==
  CHOOSE i \in 0..(Shares[c].n - 1) : Shares[c].start[i] < k /\ k <= Shares[c].start[i + 1]

\* Bug-seeded: the window ends one item short.
ItemsOfUpdate_CutShort(c) ==
  {<<<<c, OwnerOf(c, k)>>, k>> : k \in (walk[c].from + 1)..(walk[c].to - 1)}

\* The items of a single update are the window. Those of a batch are made and
\* never filled in.
ItemsOfUpdate(c) ==
  IF perCycle = 1
    THEN {<<<<c, OwnerOf(c, k)>>, k>> : k \in (walk[c].from + 1)..walk[c].to}
    ELSE {}

DeletesOfUpdate(c) == {DeleteKeys[c][i] : i \in Batch(c)}

Statement(kind, rows) == [kind |-> kind, rows |-> rows]

\* The update's statements in their order: only those a redirect server gets
\* have a delete.
StatementsOf(c) ==
  LET o == Statement("orders", {<<c, i>> : i \in Batch(c)})
      i == Statement("items", ItemsOfUpdate(c))
      d == Statement("deletes", DeletesOfUpdate(c)) IN
  IF redirect THEN <<o, i, d>> ELSE <<o, i>>

\* The tables after a statement; the same tables if it is refused.
After(s) ==
  CASE s.kind = "orders"  -> WithOrders(db, s.rows)
    [] s.kind = "items"   -> WithItems(db, s.rows)
    [] s.kind = "deletes" -> WithoutOrders(db, s.rows, cascade)

\* ItemsPerOrder, by the key of the order.
ItemsPerOrder(o) == IF o = NoOrder THEN ZeroItems ELSE Cardinality(ItemsOf(o, BaseItems))

\* What an update adds to the statistics, with or without its deletes.
Gain(c, deletes) ==
  [newOrders |-> perCycle, newItems |-> walk[c].to - walk[c].from,
   delOrders |-> IF deletes THEN perCycle ELSE 0,
   delItems  |-> IF deletes THEN SumFunction([i \in Batch(c) |-> ItemsPerOrder(DeleteKeys[c][i])])
                            ELSE 0,
   queries   |-> 0]

\* Bug-seeded: the direct update counts a delete, which it no longer does.
Counted_WithDelete(c) == [f \in DOMAIN count[c] |-> count[c][f] + Gain(c, TRUE)[f]]

\* Bug-seeded: an update is counted only if its answer came.
Counted_IfAnswered(c) ==
  IF redirect /\ ~up[c] THEN count[c]
    ELSE [f \in DOMAIN count[c] |-> count[c][f] + Gain(c, redirect)[f]]

\* The statistics after an update, whatever became of it.
Counted(c) == [f \in DOMAIN count[c] |-> count[c][f] + Gain(c, redirect)[f]]

\* Bug-seeded: the window that starts again is that of a single update.
Advanced_WindowOfOne(c) ==
  LET w == walk[c]
      o == w.order + perCycle
      again == IF perCycle = 1 THEN o = Shares[c].n ELSE o + perCycle >= Shares[c].n IN
  IF again
    THEN [order |-> 0, from |-> 0, to |-> ItemsIn(c, 0, 1)]
    ELSE [order |-> o, from |-> w.to, to |-> w.to + ItemsIn(c, o, o + perCycle)]

\* The cursor after an update: singleUpdateHelper starts again at the end,
\* multiUpdateHelper when no further batch, or exactly one, would fit.
Advanced(c) ==
  LET w == walk[c]
      o == w.order + perCycle
      again == IF perCycle = 1 THEN o = Shares[c].n ELSE o + perCycle >= Shares[c].n IN
  IF again
    THEN [order |-> 0, from |-> 0, to |-> ItemsIn(c, 0, perCycle)]
    ELSE [order |-> o, from |-> w.to, to |-> w.to + ItemsIn(c, o, o + perCycle)]

\* Bug-seeded: the last query function is left out.
Rotated_SkipsLast(q, n) == (q + n) % (IF NQueries = 1 THEN 1 ELSE NQueries - 1)

\* The function that follows when n have been called from the q-th on.
Rotated(q, n) == (q + n) % NQueries

\* The functions called by one helper: n of them, in turns from the q-th on.
CallsOf(f, q, n) ==
  [g \in DOMAIN f |-> f[g] + Cardinality({i \in 0..(n - 1) : Rotated(q, i) = g})]

\* The queries one helper counts, which is those it sends. Every function of a
\* batch writes to entry 0 of the message (QProtoI is never moved on), so of
\* QUERIES_PER_CYCLE queries (README.md:318) one is sent and counted.
QueriesCounted == 1

-----------------------------------------------------------------------------

Init ==
  /\ redirect \in BOOLEAN /\ perCycle \in CycleSizes /\ cascade \in BOOLEAN
  /\ db = [orders |-> BaseOrders, items |-> BaseItems,
           sum |-> [o \in BaseOrders \cup ClientOrders |->
                      IF cascade THEN Quantity(ItemsOf(o, BaseItems))
                                 ELSE Cardinality(ItemsOf(o, BaseItems))]]
  /\ pc = [c \in Clients |-> "loop"]
  /\ todo = [c \in Clients |-> <<>>]
  /\ sent = [c \in Clients |-> FALSE]
  /\ up = [c \in Clients |-> redirect]
  /\ walk = [c \in Updaters |-> [order |-> 0, from |-> 0, to |-> ItemsIn(c, 0, perCycle)]]
  /\ seen = [c \in Updaters |-> {}]
  /\ currQi = [c \in Clients |-> 0]
  /\ called = [c \in Clients |-> [q \in 0..(NQueries - 1) |-> 0]]
  /\ count = [c \in Clients |-> [newOrders |-> 0, newItems |-> 0, delOrders |-> 0,
                                 delItems |-> 0, queries |-> 0]]
  /\ ops = [c \in Clients |-> 0]
  /\ failed = FALSE /\ panicked = FALSE

\* The next round of a client's loop.
Round(c) ==
  /\ pc[c] = "loop" /\ ops[c] < MaxOps[c] /\ ~panicked
  /\ ops' = [ops EXCEPT ![c] = @ + 1]

\* A message leaves if the connection is up. A batch is full of nil entries,
\* which may keep it from being encoded; errors are printed or dropped.
Send(c) ==
  \E s \in {up[c]} \cup (IF perCycle > 1 THEN {FALSE} ELSE {}) : sent' = [sent EXCEPT ![c] = s]

\* An update begins. In direct mode a batch panics: DoUpdate makes items of
\* rows that are nil.
StartUpdate(c) ==
  /\ c \in Updaters
  /\ Round(c)
  /\ IF ~redirect /\ perCycle > 1
       THEN /\ panicked' = TRUE
            /\ UNCHANGED <<pc, todo, sent, failed>>
       ELSE /\ pc' = [pc EXCEPT ![c] = "update"]
            /\ IF redirect THEN Send(c) ELSE UNCHANGED sent
            /\ todo' = IF redirect /\ ~sent'[c] THEN todo
                         ELSE [todo EXCEPT ![c] = StatementsOf(c)]
            /\ failed' = (failed \/ (redirect /\ ~sent'[c]))
            /\ UNCHANGED panicked
  /\ UNCHANGED <<config, db, up, walk, seen, currQi, called, count>>

\* A statement has rows to change in the tables. To delete an order that is not
\* there is no error.
HasEffect(s) == s.rows # {} /\ (s.kind = "deletes" => s.rows \cap db.orders # {})

\* The next statement of c's update, executed by the client or by the server.
\* It is applied, or fails.
Execute(c) ==
  /\ todo[c] # <<>>
  /\ redirect \/ ~panicked
  /\ db' \in {db, After(Head(todo[c]))}
  /\ failed' = (failed \/ (db' = db /\ HasEffect(Head(todo[c]))))
  /\ todo' = [todo EXCEPT ![c] = Tail(@)]
  /\ UNCHANGED <<config, pc, sent, up, walk, seen, currQi, called, count, ops, panicked>>

\* Bug-seeded: an answer is awaited although the connection is gone.
HasAnswer_OnlyReply(c) == redirect => up[c] /\ sent[c] /\ todo[c] = <<>>

\* The client's call returns: in redirect mode with the answer, or with an
\* error once the connection is broken.
HasAnswer(c) ==
  IF redirect THEN ~up[c] \/ (sent[c] /\ todo[c] = <<>>) ELSE todo[c] = <<>>

\* An update ends: it is counted, failed or not, and the walk moves on.
EndUpdate(c) ==
  /\ pc[c] = "update" /\ ~panicked
  /\ HasAnswer(c)
  /\ pc' = [pc EXCEPT ![c] = "loop"]
  /\ count' = [count EXCEPT ![c] = Counted(c)]
  /\ walk' = [walk EXCEPT ![c] = Advanced(c)]
  /\ seen' = [seen EXCEPT ![c] = IF walk[c].order = 0 THEN Batch(c) ELSE @ \cup Batch(c)]
  /\ UNCHANGED <<config, db, todo, sent, up, currQi, called, ops, failed, panicked>>

\* A query, or a batch of them, is asked. In direct mode a batch panics when
\* it comes to its message.
StartQuery(c) ==
  /\ Round(c)
  /\ called' = [called EXCEPT ![c] = CallsOf(@, currQi[c], perCycle)]
  /\ IF ~redirect /\ perCycle > 1
       THEN panicked' = TRUE /\ UNCHANGED <<pc, sent>>
       ELSE /\ pc' = [pc EXCEPT ![c] = "query"]
            /\ IF redirect THEN Send(c) ELSE UNCHANGED sent
            /\ UNCHANGED panicked
  /\ UNCHANGED <<config, db, todo, up, walk, seen, currQi, count, failed>>

\* The answer to a query, which is counted. Without one the client panics.
EndQuery(c) ==
  /\ pc[c] = "query" /\ ~panicked
  /\ HasAnswer(c)
  /\ IF redirect /\ ~up[c]
       THEN panicked' = TRUE /\ UNCHANGED <<pc, currQi, count>>
       ELSE /\ pc' = [pc EXCEPT ![c] = "loop"]
            /\ currQi' = [currQi EXCEPT ![c] = Rotated(@, perCycle)]
            /\ count' = [count EXCEPT ![c].queries = @ + QueriesCounted]
            /\ UNCHANGED panicked
  /\ UNCHANGED <<config, db, todo, sent, up, walk, seen, called, ops, failed>>

\* The connection of a redirect client breaks and is never opened again.
Break(c) ==
  /\ up[c]
  /\ up' = [up EXCEPT ![c] = FALSE]
  /\ UNCHANGED <<config, db, client, failed, panicked>>

Next ==
  \E c \in Clients :
    \/ StartUpdate(c) \/ Execute(c) \/ EndUpdate(c)
    \/ StartQuery(c) \/ EndQuery(c) \/ Break(c)

\* The server executes what it was sent, and answers are read.
Fairness == \A c \in Clients : WF_vars(Execute(c)) /\ WF_vars(EndUpdate(c)) /\ WF_vars(EndQuery(c))

Spec == Init /\ [][Next]_vars /\ Fairness

-----------------------------------------------------------------------------

ItemsOfOrder(c, i) ==
  {<<<<c, i>>, k>> : k \in (Shares[c].start[i] + 1)..Shares[c].start[i + 1]}

\* What a statement may be: an insert of items is one of all items of an order.
Statements ==
  [kind : {"orders", "deletes"}, rows : SUBSET (BaseOrders \cup ClientOrders \cup {NoOrder})] \cup
  {Statement("items", is) : is \in {{}} \cup {ItemsOfOrder(o[1], o[2]) : o \in ClientOrders}}

TypeOK ==
  /\ redirect \in BOOLEAN /\ perCycle \in CycleSizes /\ cascade \in BOOLEAN
  /\ db.orders \subseteq BaseOrders \cup ClientOrders
  /\ \A i \in db.items : OrderOf(i) \in db.orders
  /\ db.sum \in [BaseOrders \cup ClientOrders -> Nat]
  /\ pc \in [Clients -> {"loop", "update", "query"}]
  /\ todo \in [Clients -> Seq(Statements)]
  /\ sent \in [Clients -> BOOLEAN] /\ up \in [Clients -> BOOLEAN]
  /\ \A c \in Updaters :
       /\ walk[c].order + perCycle <= Shares[c].n
       /\ walk[c].from <= walk[c].to /\ walk[c].to <= Shares[c].start[Shares[c].n]
       /\ seen[c] \subseteq 0..(Shares[c].n - 1)
  /\ currQi \in [Clients -> 0..(NQueries - 1)]
  /\ called \in [Clients -> [0..(NQueries - 1) -> Nat]]
  /\ \A c \in Clients : \A f \in DOMAIN count[c] : count[c][f] \in Nat
  /\ \A c \in Clients : ops[c] \in 0..MaxOps[c]
  /\ failed \in BOOLEAN /\ panicked \in BOOLEAN

\* Each of a client's orders has in the table all of its items or none of them,
\* whichever statements failed, whichever connections broke and however often
\* the walk has started again: the items go in by one statement, and it holds
\* the items of one order (singleUpdateHelper, DoSingleUpdate).
ItemsAllOrNone ==
  \A o \in ClientOrders : ItemsOf(o, db.items) \in {{}, ItemsOfOrder(o[1], o[2])}

\* The sum that query 18 reads from an order is the sum of the quantities of
\* the items the order has: the trigger keeps it, and an order sent again does not
\* count twice (pgTriggers.go). So for every order the clients inserted, and for
\* the loaded ones if the trigger was there when they were; alterTables.sql counts
\* the items of those instead.
SumIsOfItems ==
  \A o \in db.orders :
    o \in ClientOrders \/ cascade => db.sum[o] = Quantity(ItemsOf(o, db.items))

\* All clients between two operations and the server done.
Idle == \A c \in Clients : pc[c] = "loop" /\ todo[c] = <<>>

CountOf(f) == SumFunction([c \in Clients |-> count[c][f]])

\* The orders the clients have put into the tables, and the loaded ones gone.
Inserted == db.orders \ BaseOrders
Gone == BaseOrders \ db.orders

\* What the clients report is never less than what has become of the tables,
\* whatever failed, broke or was sent again, whichever keys the clients share and
\* whoever executed the statements: an update is counted when its call returns,
\* also if the answer is lost and the server goes on with it (DoUpdateRedirect).
ReportNeverUnderstates ==
  Idle => /\ CountOf("newOrders") >= Cardinality(Inserted)
          /\ CountOf("newItems") >= Cardinality(db.items \ BaseItems)
          /\ CountOf("delOrders") >= Cardinality(Gone)
          /\ CountOf("delItems") >= Cardinality(BaseItems \ db.items)

\* The key of the order that is deleted with client order o.
KeyWith(o) == DeleteKeys[o[1]][o[2]]

\* No key of the updates that were done is 0 or given twice.
KeysDiffer ==
  \A o, p \in Inserted : KeyWith(o) # NoOrder /\ (KeyWith(o) = KeyWith(p) => o = p)

\* If no message or statement met an error, what the clients report is what has
\* become of the tables: the orders put in and their items (but those of batches,
\* which are counted and never sent), and the loaded orders gone are just those
\* the redirected updates came with. The deletes counted are those that happened as
\* long as no key was 0 or given twice; if one was, too many are counted.
ReportMatchesTables ==
  Idle /\ ~failed =>
    /\ CountOf("newOrders") = Cardinality(Inserted)
    /\ perCycle = 1 => CountOf("newItems") = Cardinality(db.items \ BaseItems)
    /\ Gone = IF redirect THEN {KeyWith(o) : o \in Inserted} \ {NoOrder} ELSE {}
    /\ KeysDiffer => /\ CountOf("delOrders") = Cardinality(Gone)
                     /\ CountOf("delItems") = Cardinality(BaseItems \ db.items)

\* The query functions take turns: over any stretch from the start none has
\* been called twice more often than another, in batches as one at a time.
QueriesRotate ==
  \A c \in Clients : \A p, q \in 0..(NQueries - 1) : called[c][p] <= called[c][q] + 1

\* A batch that could not be encoded, on a connection that still stands: the
\* client waits for the answer to a message it never sent.
Hung(c) == redirect /\ perCycle > 1 /\ up[c] /\ ~sent[c]

\* Every update and every query comes to an end, also on a broken connection,
\* unless a client panics or hangs on a batch that never left.
OperationsEnd ==
  \A c \in Clients : (pc[c] # "loop") ~> (pc[c] = "loop" \/ panicked \/ Hung(c))

Walk(c) == INSTANCE UpdateStream WITH
             Layouts <- {Shares[c]}, layout <- Shares[c], seen <- seen[c],
             orderI <- walk[c].order, lineI <- walk[c].from, lineF <- walk[c].to

\* Each client walks through its share the way UpdateStream says, whatever
\* happens to the updates themselves: so no walk sends an order twice, each leaves
\* out at most its last batch, and an order always goes with its own items.
WalksFollowUpdateStream ==
  /\ \A c \in Updaters : Walk(c)!Init
  /\ [][\A c \in Updaters : [Walk(c)!Next]_(Walk(c)!vars)]_vars
=============================================================================
