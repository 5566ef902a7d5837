------------------------------ MODULE DataLoad ------------------------------
(***************************************************************************)
(* The start of the client (pgClient.go, pgDataLoad.go): main loads its    *)
(* settings, connects, and reads the tables; ProcessBaseData builds each   *)
(* one, SendInserts sends them to PostgreSQL when the settings ask for it, *)
(* and ReadUpdates splits the updates among the clients; main makes views  *)
(* or indexes when the load is complete, and goes on to the benchmark when *)
(* the updates are there.                                                  *)
(*                                                                         *)
(* The reader of the files and its channels ReadChan and ProcChan belong   *)
(* to tpch_data_processor. SendInserts sends the tables as they come but   *)
(* for two: it counts on each of the others coming after those it refers   *)
(* to, and so do the schedules of this model.                              *)
(***************************************************************************)
EXTENDS Integers, Sequences, FiniteSets, Config

Tables == {"REGION", "NATION", "PART", "SUPPLIER", "PARTSUPP", "CUSTOMER",
           "ORDERS", "LINEITEM"}

\* FOREIGN KEY ... REFERENCES of the tables SendCreateTables creates.
Parents == [t \in Tables |->
  CASE t \in {"REGION", "PART"}       -> {}
    [] t = "NATION"                   -> {"REGION"}
    [] t \in {"SUPPLIER", "CUSTOMER"} -> {"NATION"}
    [] t = "PARTSUPP"                 -> {"SUPPLIER", "PART"}
    [] t = "ORDERS"                   -> {"CUSTOMER"}
    [] t = "LINEITEM"                 -> {"ORDERS", "PART", "SUPPLIER"}]

\* SendInserts leaves these until it has taken all tables.
Postponed == {"PARTSUPP", "LINEITEM"}

\* A table that is not postponed comes after those it refers to.
RespectsParents(order) ==
  \A i \in DOMAIN order : \/ order[i] \in Postponed
                          \/ \A p \in Parents[order[i]] : \E k \in 1..(i - 1) : order[k] = p

CONSTANTS
  Schedules,   \* the orders in which the tables may be read
  Inputs       \* the flags and files the client may be started with

ASSUME SchedulesAssumption ==
  \A order \in Schedules :
    /\ order \in Seq(Tables) /\ Len(order) = Cardinality(Tables)
    /\ \A t \in Tables : \E i \in DOMAIN order : order[i] = t
    /\ RespectsParents(order)

ASSUME InputsAssumption == Inputs \subseteq Input

VARIABLES
  input,       \* the flags and the file of this client
  settings,    \* the variables of the package they set
  schedule,    \* the order in which the tables are read
  dropped,     \* whether the tables of the database were dropped
  setup,       \* what main has made when the load was complete
  readChan,    \* the tables read and not yet taken by ProcessBaseData
  read,        \* how many tables have been read
  building,    \* the table ProcessBaseData is at, if any
  built,       \* the tables built
  procChan,    \* the tables built and not yet taken by SendInserts
  creator,     \* where SendCreateTables is
  taken,       \* the tables SendInserts has taken
  sent,        \* the tables it has sent, successfully or not
  updater,     \* where ReadUpdates is
  ready,       \* the signals in tablesReadyChan
  completeChan, updateChan,   \* what the channels main waits on hold
  main         \* where main is

start == <<input, settings, schedule, dropped, setup>>
reading == <<readChan, read>>
inserting == <<procChan, creator, taken, sent>>
vars == <<start, reading, building, built, inserting, updater, ready,
          completeChan, updateChan, main>>

NoTable == "none"

\* DOES_DATALOAD: LoadAndSendBaseData rather than LoadBaseData.
sending == settings["doDataload"]

\* DOES_UPDATES && UPDATE_RATE > 0
updates == settings["doUpdates"] /\ settings["updRate"]

\* What the variables of the package hold when the program begins.
Init ==
  /\ input \in Inputs /\ settings = PackageDefault /\ schedule \in Schedules
  /\ dropped = FALSE /\ setup = "nothing"
  /\ readChan = <<>> /\ read = 0
  /\ building = NoTable /\ built = {}
  /\ procChan = <<>> /\ taken = {} /\ sent = {}
  /\ creator = "none" /\ updater = "none"
  /\ ready = 0 /\ completeChan = 0 /\ updateChan = 0
  /\ main = "starting"

-----------------------------------------------------------------------------
(* Main. *)

LoadConfigs ==
  /\ main = "starting"
  /\ settings' \in loadConfigs(input)
  /\ main' = "connecting"
  /\ UNCHANGED <<input, schedule, dropped, setup, reading, building, built, inserting,
                 updater, ready, completeChan, updateChan>>

\* connectToPostgres or connectToRedirect, which end the process on an error.
Connect ==
  /\ main = "connecting"
  /\ main' \in {"connected", "exited"}
  /\ UNCHANGED <<start, reading, building, built, inserting, updater, ready,
                 completeChan, updateChan>>

\* RESET_ONLY: the tables are dropped and the process ends.
Reset ==
  /\ main = "connected" /\ ResetOnly(input)
  /\ dropped' = TRUE
  /\ main' = "exited"
  /\ UNCHANGED <<input, settings, schedule, setup, reading, building, built, inserting,
                 updater, ready, completeChan, updateChan>>

\* LoadAndSendBaseData or LoadBaseData, up to the call of ReadBaseData. The first
\* drops the tables of the database it has no connection to when it is a redirect
\* client: the pointer is nil.
StartLoad ==
  /\ main = "connected" /\ ~ResetOnly(input)
  /\ IF sending /\ settings["isRedirect"]
       THEN main' = "panicked" /\ UNCHANGED <<dropped, creator, updater>>
       ELSE /\ main' = "reading"
            /\ dropped' = sending
            /\ creator' = IF sending THEN "creating" ELSE "none"
            /\ updater' = IF updates THEN "reading" ELSE "none"
  /\ UNCHANGED <<input, settings, schedule, setup, reading, building, built, procChan,
                 taken, sent, ready, completeChan, updateChan>>

\* ReadBaseData reads a table and sends it on ReadChan.
ReadTable ==
  /\ main = "reading" /\ read < Len(schedule)
  /\ read' = read + 1
  /\ readChan' = Append(readChan, schedule[read + 1])
  /\ UNCHANGED <<start, building, built, inserting, updater, ready, completeChan,
                 updateChan, main>>

ReadBaseDataEnds ==
  /\ main = "reading" /\ read = Len(schedule)
  /\ main' = "loading"
  /\ UNCHANGED <<start, reading, building, built, inserting, updater, ready,
                 completeChan, updateChan>>

\* <-completeChan
LoadComplete ==
  /\ main = "loading" /\ completeChan > 0
  /\ completeChan' = completeChan - 1
  /\ main' = "loaded"
  /\ UNCHANGED <<start, reading, building, built, inserting, updater, ready, updateChan>>

\* Where main goes when all is set up: without a benchmark the process ends.
AfterSetUp == IF settings["doQueries"] \/ settings["doUpdates"] THEN "preparing" ELSE "ended"

\* CreateViews (see ViewCreation), or else CreateIndexes, or neither. A redirect
\* client has no database to create indexes in: the pointer is nil.
SetUp ==
  /\ main = "loaded"
  /\ CASE settings["doViewload"] -> setup' = "views" /\ main' = AfterSetUp
       [] ~settings["doViewload"] /\ settings["doIndexload"] ->
            IF settings["isRedirect"] THEN setup' = setup /\ main' = "panicked"
                                      ELSE setup' = "indexes" /\ main' = AfterSetUp
       [] OTHER -> setup' = setup /\ main' = AfterSetUp
  /\ UNCHANGED <<input, settings, schedule, dropped, reading, building, built, inserting,
                 updater, ready, completeChan, updateChan>>

\* Bug-seeded: the clients start without waiting for their updates.
StartClients_NoWait ==
  /\ main = "preparing"
  /\ main' = "benchmark"
  /\ UNCHANGED <<start, reading, building, built, inserting, updater, ready, completeChan,
                 updateChan>>

\* <-updateDataChan, by prepareQueryClientsBenchmark, and the clients start.
StartClients ==
  /\ main = "preparing" /\ (updates => updateChan > 0)
  /\ updateChan' = IF updates THEN updateChan - 1 ELSE updateChan
  /\ main' = "benchmark"
  /\ UNCHANGED <<start, reading, building, built, inserting, updater, ready, completeChan>>

-----------------------------------------------------------------------------
(* ProcessBaseData. *)

TakeRead ==
  /\ building = NoTable /\ readChan # <<>>
  /\ building' = Head(readChan) /\ readChan' = Tail(readChan)
  /\ UNCHANGED <<start, read, built, inserting, updater, ready, completeChan,
                 updateChan, main>>

\* Bug-seeded: the updates are let go at the first of the tables they need.
Signals_Early(t) == t = "NATION"

\* processTable tells ReadUpdates when it has built this table.
Signals(t) == t = "CUSTOMER"

\* Bug-seeded: LoadBaseData does not make the channel either.
ReadyHasRoom_Unmade == FALSE

\* tablesReadyChan <- true. LoadAndSendBaseData does not make this channel: it
\* is nil, and a nil channel has no room ever.
ReadyHasRoom == ~sending /\ ready < 1

\* processTable. The table is built before the signal and handed on after it.
ProcessTable ==
  /\ building # NoTable /\ building \notin built
  /\ built' = built \cup {building}
  /\ UNCHANGED <<start, reading, building, inserting, updater, ready, completeChan,
                 updateChan, main>>

SignalReady ==
  /\ building \in built /\ Signals(building)
  /\ ReadyHasRoom
  /\ ready' = ready + 1
  /\ building' = NoTable
  /\ procChan' = IF sending THEN Append(procChan, building) ELSE procChan
  /\ UNCHANGED <<start, reading, built, creator, taken, sent, updater, completeChan,
                 updateChan, main>>

HandOn ==
  /\ building \in built /\ ~Signals(building)
  /\ building' = NoTable
  /\ procChan' = IF sending THEN Append(procChan, building) ELSE procChan
  /\ UNCHANGED <<start, reading, built, creator, taken, sent, updater, ready,
                 completeChan, updateChan, main>>

\* Bug-seeded: the last table is still to be built.
Loaded_OneShort ==
  IF sending THEN sent = Tables ELSE Cardinality(built) >= Cardinality(Tables) - 1

\* All is built, or all is sent.
Loaded == IF sending THEN sent = Tables ELSE built = Tables /\ building = NoTable

\* completeChan <- true, by ProcessBaseData or by SendInserts.
Complete ==
  /\ Loaded /\ completeChan = 0 /\ main \in {"reading", "loading"}
  /\ completeChan' = 1
  /\ UNCHANGED <<start, reading, building, built, inserting, updater, ready, updateChan, main>>

-----------------------------------------------------------------------------
(* SendCreateTables and SendInserts. *)

\* createTablesChan <- true, when all tables and triggers are made.
CreateTables ==
  /\ creator = "creating"
  /\ creator' = "done"
  /\ UNCHANGED <<start, reading, building, built, procChan, taken, sent, updater, ready,
                 completeChan, updateChan, main>>

\* Bug-seeded: only the line items wait.
Due_AsTheyCome(t) == t \in taken /\ (t = "LINEITEM" => taken = Tables)

\* A table is sent when it is taken, the postponed ones after all others.
Due(t) ==
  /\ t \in taken
  /\ t \in Postponed => taken = Tables /\ Tables \ Postponed \subseteq sent
  /\ t = "LINEITEM" => "PARTSUPP" \in sent

TakeBuilt ==
  /\ creator = "done" /\ procChan # <<>>
  /\ taken \subseteq sent \cup Postponed
  /\ taken' = taken \cup {Head(procChan)} /\ procChan' = Tail(procChan)
  /\ UNCHANGED <<start, reading, building, built, creator, sent, updater, ready,
                 completeChan, updateChan, main>>

\* sendInsertHelper: an error is printed and the next table is sent.
InsertTable(t) ==
  /\ t \notin sent /\ Due(t)
  /\ sent' = sent \cup {t}
  /\ UNCHANGED <<start, reading, building, built, procChan, creator, taken, updater,
                 ready, completeChan, updateChan, main>>

-----------------------------------------------------------------------------
(* ReadUpdates. *)

UpdatesRead ==
  /\ updater = "reading"
  /\ updater' = "waiting"
  /\ UNCHANGED <<start, reading, building, built, inserting, ready, completeChan,
                 updateChan, main>>

\* Bug-seeded: the split begins whether or not there is a signal to take.
BeginSplit_NoWait ==
  /\ updater = "waiting"
  /\ ready' = ready - 1
  /\ updater' = "splitting"
  /\ UNCHANGED <<start, reading, building, built, inserting, completeChan, updateChan, main>>

\* <-tablesReadyChan: splitUpdatesPerRoutineAndRegion begins.
BeginSplit ==
  /\ updater = "waiting" /\ ready > 0
  /\ ready' = ready - 1
  /\ updater' = "splitting"
  /\ UNCHANGED <<start, reading, building, built, inserting, completeChan, updateChan, main>>

\* The split looks up the orders to delete in sqlTables.Orders: while those are
\* not built, the index is out of range and the process ends.
SplitPanics ==
  /\ updater = "splitting" /\ "ORDERS" \notin built
  /\ main' = "panicked"
  /\ UNCHANGED <<start, reading, building, built, inserting, updater, ready,
                 completeChan, updateChan>>

\* updateChan <- the result.
EndSplit ==
  /\ updater = "splitting" /\ updateChan < 1
  /\ updateChan' = updateChan + 1
  /\ updater' = "done"
  /\ UNCHANGED <<start, reading, building, built, inserting, ready, completeChan, main>>

-----------------------------------------------------------------------------

MainStep ==
  \/ LoadConfigs \/ Connect \/ Reset \/ StartLoad \/ SetUp
  \/ ReadTable \/ ReadBaseDataEnds \/ LoadComplete \/ StartClients
ProcessStep == TakeRead \/ ProcessTable \/ SignalReady \/ HandOn
InsertStep == TakeBuilt \/ \E t \in Tables : InsertTable(t)
UpdateStep == UpdatesRead \/ BeginSplit \/ SplitPanics \/ EndSplit

\* The process ends when main does, or when a goroutine panics.
Over == main \in {"panicked", "exited", "ended"}
Alive == ~Over

Next ==
  /\ Alive
  /\ MainStep \/ ProcessStep \/ Complete \/ CreateTables \/ InsertStep \/ UpdateStep

Spec == Init /\ [][Next]_vars

\* Each goroutine runs when it can, and the files have an end.
Fairness ==
  /\ WF_vars(Alive /\ MainStep) /\ WF_vars(Alive /\ ProcessStep)
  /\ WF_vars(Alive /\ Complete) /\ WF_vars(Alive /\ CreateTables)
  /\ WF_vars(Alive /\ InsertStep) /\ WF_vars(Alive /\ UpdateStep)

FairSpec == Spec /\ Fairness

-----------------------------------------------------------------------------

TypeOK ==
  /\ input \in Inputs /\ settings \in [Settings -> BOOLEAN] /\ schedule \in Schedules
  /\ dropped \in BOOLEAN /\ setup \in {"nothing", "views", "indexes"}
  /\ read \in 0..Len(schedule) /\ built \subseteq Tables
  /\ taken \subseteq Tables /\ sent \subseteq Tables
  /\ readChan \in Seq(Tables) /\ procChan \in Seq(Tables)
  /\ building \in Tables \cup {NoTable}
  /\ creator \in {"none", "creating", "done"}
  /\ updater \in {"none", "reading", "waiting", "splitting", "done"}
  /\ ready \in 0..1 /\ completeChan \in 0..1 /\ updateChan \in 0..1
  /\ main \in {"starting", "connecting", "connected", "reading", "loading", "loaded",
               "preparing", "benchmark", "panicked", "exited", "ended"}

\* A table is sent only when it is built, the tables of the database exist and
\* those it refers to were sent before: no foreign key can refuse it.
SentInOrder ==
  \A t \in sent : /\ t \in built /\ creator = "done"
                  /\ Parents[t] \subseteq sent

\* The updates are split when the tables their regions come from are built
\* (pgDataLoad.go:113: "When Customers are read, so are nations and regions").
SplitHasRegions ==
  updater \in {"splitting", "done"} => {"REGION", "NATION", "CUSTOMER"} \subseteq built

\* The benchmark starts with every table built and, if it needs them, with the
\* updates split: main does not go on one signal early.
BenchmarkHasData ==
  main = "benchmark" => /\ built = Tables
                        /\ updates => updater = "done"

\* What the client does is what the user meant (pgConfigs.go:58-88, the help of
\* the flags): without a flag to reset, the tables are dropped only by a client that
\* sends them, and they are made only on what was dropped; a client told to reset
\* ("set this flag to true") reads and makes nothing and ends; updates are read
\* only if they will be done; views are made when asked for, and "if doesViewload is
\* true, indexes will not be loaded regardless"; a client that does neither queries
\* nor updates ends. Of two things nothing is said, for the code departs from the
\* help: another value of --reset, which resets as well (pgConfigs.go:100), and
\* whether a client without views makes indexes (:115, :204).
StartFollowsSettings ==
  LET Means(s) == Meant(input, s)
  IN /\ dropped /\ input.reset = "none" => Means("doDataload")
     /\ creator # "none" => Means("doDataload") /\ dropped
     /\ updater # "none" => Means("doUpdates") /\ Means("updRate")
     /\ input.reset = "true" => /\ main \in {"starting", "connecting", "connected", "exited"}
                               /\ read = 0 /\ creator = "none" /\ updater = "none"
     /\ main \in {"preparing", "benchmark"} => Means("doQueries") \/ Means("doUpdates")
     /\ main = "ended" => ~Means("doQueries") /\ ~Means("doUpdates")
     /\ setup = "indexes" => ~Means("doViewload")
     /\ main \in {"preparing", "benchmark", "ended"} =>
          (setup = "views" <=> Means("doViewload"))

\* The start as the rest of the program sees it.
Outcome == INSTANCE LoadOutcome WITH
  wanted <- updates,
  dealt  <- updater = "done",
  phase  <- IF main = "benchmark" THEN "running" ELSE IF Over THEN "over" ELSE "loading"

\* The benchmark begins at most once, with all its tables and updates, and neither
\* change under it (pgClient.go:64, pgQuery.go:62: the receives main waits in).
ImplementsLoadOutcome == Outcome!Spec

\* A client that only builds the tables gets to its benchmark, or to its end if it
\* has none, unless the split of its updates panics.
LoadEnds == (main = "reading" /\ ~sending) ~> (main = "benchmark" \/ Over)

\* So does a client that sends them too (README.md:23: "Support for loading
\* TPC-H's dataset and views into PostgreSQL"). Not so: ProcessBaseData waits
\* for ever to signal on a channel nobody has made.
LoadAndSendEnds == (main = "reading" /\ sending) ~> (main = "benchmark" \/ Over)

\* The split reads only tables that are built (pgDataLoad.go:113: "thus, we can
\* start processing updates"). Not so: it reads sqlTables.Orders as well.
SplitReadsBuiltTables ==
  updater = "splitting" => {"REGION", "NATION", "CUSTOMER", "ORDERS"} \subseteq built
=============================================================================
