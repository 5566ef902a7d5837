# A TLA+ model of postgres-tpch-client

The program is a TPC-H client for PostgreSQL, written in Go
(`src/src/client`, started by `src/src/main/main.go`). It reads the TPC-H
tables and updates, sends them to PostgreSQL if asked to, creates the views of
the queries it supports, and then runs a benchmark: a number of clients query
the views and apply updates for a fixed time and leave a file of statistics. It
talks to PostgreSQL itself or to a *redirect server* that batches statements.

This directory holds TLA+ modules of its concurrent and its computational core,
configurations that check them with TLC, and proofs that TLAPS checks.
`PROJECT.json` lists the runs, the lines each definition stands for, the mutants
that show that each property can fail, the findings and the hazards.

## 1. Inventory

### The parts of the program

| Part | Source | State | Operations | Talks to |
|---|---|---|---|---|
| Start | `pgClient.go` | where main is | `Start`: configuration, load, views, benchmark, in this order | all others, over channels |
| Loading | `pgDataLoad.go` | `sqlTables`, the tables built; channels `createTablesChan`, `tablesReadyChan`, `completeChan`, `updateChan` | `LoadBaseData`, `LoadAndSendBaseData`, `ProcessBaseData`, `processTable`, `SendCreateTables`, `SendInserts`, `ReadUpdates` | the reader of `tpch_data_processor` (`ReadChan`, `ProcChan`), PostgreSQL |
| Split of the updates | `pgDataLoad.go` | per-region slices, per-routine shares | `splitUpdatesPerRoutineAndRegion` | called by `ReadUpdates`; its result goes to the clients |
| Views | `pgViews.go` | `success` of each query, a channel per query, `notifyChan` | `CreateViews`, `ExecuteAndNotify`, `MakeQ..View` and the Redirect variants | PostgreSQL; main waits for all |
| Benchmark | `pgQuery.go` | `STOP_QUERIES`, `collectQueryStats`, `resultChan` | `prepareQueryClientsBenchmark`, `doBench`, `doQueryBench`, `doMixedStatsInterval`, the goroutine that collects results | clients, ticker, main and collector share memory without locks |
| Statistics | `pgQuery.go`, `pgViews.go` | `MixStatistics`, `BenchmarkResults` | `updateBenchmarkStats`, `convertStats`, `calculateStats`, `getStatsFileToWrite` | one per client; the collector reads them all |
| Update stream | `pgQuery.go` | `OrderI`, `LineI`, `LineF` | `singleUpdateHelper`, `multiUpdateHelper` | reads a share of the split, calls `DoUpdate` or `DoSingleUpdate` |
| Update transactions | `pgViews.go`, `pgTriggers.go` | rows of PostgreSQL | `DoUpdate`, `DoSingleUpdate`, the trigger on line items | PostgreSQL |
| Queries | `pgViews.go` | none | `Do..Query`, `Get..QueryArgs`, `Get..Statement` | views of PostgreSQL |
| Query batches | `pgQuery.go`, `pgViews.go` | counters of a client | `multiQueryHelper`, `multiQueryCountStats`, `Prepare..QueryRedirect` | the redirect server |
| Configuration | `pgConfigs.go` | package variables | `LoadConfigs`, `loadConfigsFile` | read by all |
| Indexes | `pgViews.go` | none | `CreateIndexes` | PostgreSQL |
| Scripts and images | `scriptsPostgreSQL`, `Dockerfile`, `dockerstuff` | none | set-up of a database | - |

### What is hard about it

* **Unlocked sharing in the benchmark.** The ticker replaces `collectQueryStats`
  by a fresh slice while clients read and write elements of it; main sets
  `STOP_QUERIES` while clients test it; main reads the results the collector is
  filling. Ticks can come while a client collects, late, or twice during a query.
* **Two ways to end.** Main sleeps ten seconds after the test and returns; the
  collector calls `os.Exit` when it is through. Whichever is first ends the
  process, under whatever the other is doing.
* **Channels that must match.** Each load, view and update signal is sent by one
  goroutine and received by another; a capacity, a number of receives or a channel
  that only one path makes decides whether anything blocks.
* **Indices that move together.** The update stream keeps three cursors with no
  link between them; the split cuts orders, items, line sizes and keys by
  separate counters across regions, with slices that share arrays.
* **Errors that are only printed.** Statements may fail at any point and the
  code goes on. An update is three statements and no transaction.
* **A server that goes on alone.** When its connection to the redirect server
  breaks, a client prints the error and counts the update, and the server may still
  execute all, some or none of it.
* **One list read twice.** The views that are made and the query functions that
  are called come from the list of queries by different conditions; the names of
  the views are made by one loop and asked for by another.
* **A configuration of three layers.** Flags over file over defaults, copied line
  by line, with conditions that were copied too.

### What makes each part correct

* Benchmark: no operation is lost or counted twice, intervals cover a client's
  life exactly, the file is made of finished results, the process ends.
* Update stream: slices are in range, an order goes out with its own items, and
  once per walk.
* Split: each order goes to one client with its items and sizes, shares are
  even, the loop ends.
* Views: the views that are waited for exist when main goes on, what is printed
  is true, no goroutine is stuck; no query asks for a view that nobody makes.
* Updates in the database: an order has all of its items or none, its sum is that
  of its items, and what clients count is never less than what has happened, and
  just that unless something failed.
* Queries: the functions take turns, one at a time and in batches.
* Configuration: the client does what its user asked for.
* Loading: what is used has been built, what is sent refers to what was sent
  before, the benchmark starts.

## 2. The modules

```
Config, LoadOutcome
     |  (the settings; what a start promises)
DataLoad ----------> UpdateSplit -----> UpdateStream <--------- ClientOps
 (Start, load,        (the shares)       (a client's walk     (updates and queries
  ReadUpdates)                            through its share)   of all clients)
     |                                                             |
     v                                                         TpchTables
ViewCreation ------> Benchmark  EXTENDS  BenchmarkStats        (orders and items
 (CreateViews)        (clients, ticker,   (the arithmetic       in PostgreSQL)
     |                 main, collector)    of a collection)
 ViewNames
 (names of the views)
```

`XProofs` is the module with the theorems about `X`: there are seven, for
`BenchmarkStats`, `Benchmark`, `UpdateStream`, `UpdateSplit`, `ClientOps`,
`DataLoad` and `ViewCreation`. `SumTheorems` has the facts about finite sums they share. The `MC`
modules add values for the constants. An operator marked "Bug-seeded" is a
wrong version of the one below it; `PROJECT.json`, `mutants`, says which property it
breaks.

The phases of the program run one after the other and hand over at one point
each. The modules meet there: `DataLoad`'s `"splitting"` is the run of
`UpdateSplit`; `UpdateSplit`'s `ItemsFollowOrders` is what makes a share a
*layout* of `UpdateStream`; `DataLoad`'s `SetUp` is the run of `ViewCreation`, which
starts when main has loaded; `ViewCreation`'s `"querying"` and `DataLoad`'s
`"benchmark"` are the initial state of `Benchmark`. There an update or a query is
one operation and time counts; in `ClientOps` it is statements and messages, and
time does not. A phase that runs alone needs no product with the others. The
exception is the jobs that `ViewCreation` leaves running into the benchmark; they
share no memory with it.

Two modules are abstract specifications of others, and both refinements are
checked by TLC and proved:

* `UpdateStream` of each client of `ClientOps` (`WalksFollowUpdateStream`, under
  `Walk(c) == INSTANCE UpdateStream WITH ...`): whatever fails, breaks or is
  delayed, a client walks as `UpdateStream` says, so its properties hold there.
* `LoadOutcome` of `DataLoad` (`ImplementsLoadOutcome`).

### `BenchmarkStats` and `Benchmark`

`BenchmarkStats` holds the pure part. The thirteen counters of `MixStatistics`
are handled alike, so a `Mix` is one counter `ops` and a duration `dur`; a
`Results` is a total and the list of its intervals (`inter`).
`UpdateBenchmarkStats` is the function of that name: the first interval is the
warm-up and stays out of the total; an interval shorter than `MergeWindow`
(an eighth of the statistics interval) is merged into the last one.
`Report` is `convertStats`: a row per interval every client has.

`Benchmark` has one action for each step at which another goroutine can come
between: the head of a client's loop, the collection, an operation, the
collection after the loop, the send, the tick, main's two sleeps, and the
collector's receive, creation, writing and exit. `os.Create` may fail, and the
collector then goes on without a file (`"refused"`, `"unsaved"`); a client without
an ID (`IdGiven` is FALSE) panics in `getStatsFileToWrite` when the name of its file
is taken, because the ID is made longer by its own first letter. `chan`, `flag`, `stop` are
`resultChan`, `collectQueryStats` and `STOP_QUERIES`; `executed` is a history
variable that counts what a client has completed. A client's read of the slice
header and the write to its element are one step: a write to a slice that has
just been replaced is the same as a write before the tick.

### `UpdateStream`

`orderI`, `lineI` and `lineF` are the fields of the client. A layout gives the
number of orders of a share and the partial sums of its `LineSizes`, which is
all the code reads of them. `SingleUpdate` is `singleUpdateHelper`,
`MultiUpdate` `multiUpdateHelper` with the restart it makes when the next batch
does not fit *or fits exactly*. `seen` is a history variable.

### `UpdateSplit`

The first phase groups the orders of the update file by region, the second
deals the groups to the routines; `Deal` is one cut, `DealShare` the first cut
of a share and `DealMore` the inner loop. The slices of keys to delete are
modelled as Go has them, an array and a length, with `append` within the
capacity and past it, because the code appends to one slice and assigns to
another (`AppendKey(to, from, key)`); slicing past the length and within the
capacity succeeds and past the capacity panics. Go's growth of an `int32` slice
is modelled for the small arrays of the instance (at least two elements, then
twice as many).

### `TpchTables` and `ClientOps`

`TpchTables` is PostgreSQL as the updates see it, from the keys, references and
the trigger that the repository declares: a statement is applied as a whole or
refused. `cascade` tells the tables of `SendCreateTables` from those of
`createTables.sql` and `alterTables.sql`, which do not cascade a delete and start an
order's sum from a count (`alterTables.sql`, line 2) rather than a sum. The only
column of an item is its number, which is also its quantity.

`ClientOps` has any number of clients. Those in `Updaters` run `doBench` and mix
updates and queries, the others run `doQueryBench`. `StartUpdate` is an update up
to its first statement or its message, `Execute` one statement of it, `EndUpdate`
what follows the answer; `StartQuery` and `EndQuery` are the same for a query or a
batch. In direct mode the client executes its statements; in redirect mode they are
one message, which a server executes even if the connection breaks (`Break`) or
the client's process is gone. Each statement is applied or fails. These are the
places where another client's statement can come between.

What the code does on the way is kept: a direct batch of updates or queries
panics (`DoUpdate` makes items of rows that are nil; a direct batch of queries
writes to a message that is nil); a redirect batch of updates has no items; a
batch full of nil entries may not be encoded, and the error of the send is
dropped (`Send`); a query without an answer panics; an update without one is
counted. `Counted` and `QueriesCounted` are what the statistics get: a batch of
queries is counted as the one that is sent. Statistics are not reset here: that is
`Benchmark`.

The keys to delete, `DeleteKeys`, are as the split deals them, and after
`DeletesGrouped` (section 5) that is not one order each: a key may come twice, to
one client or to two, or be 0 (`NoOrder`), which no order has. Only that another key
is of a loaded order is assumed.

### `ViewNames` and `ViewCreation`

`ViewNames` has for each query the names of the views that its goroutines create
and those its query function picks from at random, as the tuples of what is
appended to `q3`, `q5` and so on.

In `ViewCreation` a *maker* is the goroutine of a query; a *job* a goroutine it
starts (a date of query 3, a year of queries 5 and 14), or all statements of a
query that runs them itself or sends them to the redirect server. `Awaited` and
`Capacity` are the numbers of receives and the channel capacities of each
`MakeQ..View`: `MakeQ3View` starts one job more than it waits for, `MakeQ5View`
waits for none. A job fails or not, and writes `success`, which the maker reads
without a lock. A job of the redirect server may also get no connection or no answer:
both errors are dropped, the reply is nil, and the process panics (`PanicJob`). The
goroutine of a number that is no query makes nothing and panics when it has no
connection to close (`CloserPanics`).

`config` holds the settings that choose queries: `selected` are those whose views
are made, `QueryFuncs` what the clients call. They come from the same list by
different ways: in a list with a number that is no query, or of all queries, some of
the functions stay nil, and calling one is a panic (`MakerPanics`).

### `Config`, `LoadOutcome` and `DataLoad`

`Config` is `loadFlags` and `loadConfigsFile` for the settings that decide what the
client does. `FlagTested` is the flag whose presence decides whether the one of a
setting is put into the configuration; for `do_indexload` it is `do_viewload`.
`PackageDefault` is what the variables of the package hold, which is what the help of
the flags says where it names a default; `Default` is what `loadConfigsFile` gives
a setting that is missing, and differs for `doIndexload` (`pgConfigs.go`, line 204
against 30 and 65). `Meant` is what a user means who goes by the help: the flag, or
else the file, or else `PackageDefault`. `StartFollowsSettings` compares with it what
the client does, and says what it leaves out (section 5).

In `DataLoad` main loads the settings, connects, resets or reads the tables in
some order (`Schedules`); `ProcessBaseData` builds them, signals when it has built
the customers, and hands them on to `SendInserts` if there is one; `ReadUpdates`
waits for the signal and splits. When the load is complete main makes views or
indexes (`SetUp`: what `CreateViews` does is `ViewCreation`) and takes the split
updates, or ends. `ReadyHasRoom` is false for ever under `LoadAndSendBaseData`,
whose `tablesReadyChan` is nil; a redirect client panics where its database handle
is nil. The reader of the files is a dependency, modelled by how this code uses its
two channels: as queues. That a table comes after those it refers to, unless it is
one of the two that `SendInserts` postpones, is what `SendInserts` takes for
granted, and is an assumption on `Schedules`.

`LoadOutcome` is what the rest of the program sees of all this: tables come into
being one by one, the updates are dealt at most once and only when their regions
are known, the benchmark begins at most once and only with everything there, and
nothing changes under it.

## 3. The runs

Every run is a `.cfg` of the module's `MC` module.

| Run | Question and answer | Bounds |
|---|---|---|
| `benchmark` | Two clients, ticker, main and collector in every interleaving: `Conservation`, `OneIntervalPerTick`, `ReportComplete`, `TotalWithinRun`, `TotalIsSumOfIntervals`, `IntervalsTile`, `RowsAgreeWithTotal`, `Terminates` all hold | ticks at 2 and 4, merges within 1, `MaxTime` 4, `MaxOps` 2, no grace, no ID |
| `benchmark_exit` | Is the file there when the process ends (`FileBeforeExit`)? No, if a query outlives the grace period | one client |
| `benchmark_merge` | Is the total's time the sum of its intervals (`TotalTimeIsSumOfIntervals`)? No, after a merge | one client |
| `update_stream` | `BatchInRange`, `WindowAligned`, `NoRepeatInWalk`, `WalkComplete` hold for every walk | shares of 1 to 5 orders of 1 or 3 items, batches of 1, 2 and 3 |
| `update_split` | `DealtByRegion`, `SharesEven`, `ItemsFollowOrders`, `LocalFilesSplitWell` hold and `SplitEnds` | 3 regions, 3 routines; every file of up to 3 orders, and the longer ones of `MCUpdateSplit` up to 5 |
| `update_split_deletes` | Are the keys grouped by region (`DeletesGrouped`)? No, they are assigned to the wrong slice | files of up to 3 orders |
| `client_ops` | Updates and queries of two clients, direct and redirected, with failing statements and breaking connections: `ItemsAllOrNone`, `SumIsOfItems`, `ReportNeverUnderstates`, `ReportMatchesTables`, `QueriesRotate`, `WalksFollowUpdateStream` and `OperationsEnd` hold | both clients update; 3 operations and 1; shares of 2 and 5 orders; keys to delete that are shared and one that is 0; one at a time and batches of 2; 3 query functions |
| `view_creation` | `AwaitedAreCreated`, `ReportIsHonest`, `MissingViewsAreExplained` hold and `EveryoneFinishes`, with and without the redirect server and its connections | 3 jobs for query 3, 2 for 5 and 14; two queries at a time, and lists with all queries, with others than the default and with no query |
| `view_creation_ready` | Are the views ready when queries start (`ViewsReadyBeforeQueries`)? No | the same |
| `data_load` | `SentInOrder`, `SplitHasRegions`, `BenchmarkHasData`, `StartFollowsSettings` and `ImplementsLoadOutcome` hold, and `LoadEnds` for a client that does not send the tables | four orders of reading; 81 combinations of flags and files |
| `data_load_send` | Does a client that sends them get to its benchmark (`LoadAndSendEnds`)? No, it blocks on a nil channel | the same |
| `data_load_split` | Is what the split reads built (`SplitReadsBuiltTables`)? Not the orders | the same |

Each module also has one type invariant, `TypeOK`.

### Why the bounds are enough

* `Benchmark`: two clients are needed for one to finish before the other and for
  lists of intervals of different lengths; clients do not touch each other's
  state otherwise. An interval of two units, with ticks at 2 and at 4, when the test
  ends, gives the warm-up interval, a counted one and a last one; a collection one
  unit after the last, which a tick at any time allows, is merged, and merges then
  add time (`MergeWindow` 2). Two operations per client put one on each side of a
  collection. A clock that stands still is a
  program that is fast; a tick that is late is one taken later. The proofs cover
  every other value.
* `UpdateStream`: five orders are two batches of two and one over, or one of
  three and two over, so that the exact fit, one short and one over all occur.
* `UpdateSplit`: with three routines and three regions a share can come from one
  region, from two, from past an empty region, and end exactly at a region's
  end; four and five orders make shares of two. Five regions differ in number only.
* `ClientOps`: clients meet in the tables only, where no two insert the same order but
  two may delete it, so two suffice for statements to interleave. The keys are such
  that both clients come with one order and that one key is 0. Three operations
  let the first client's walk, of two orders, start again and insert an order once
  more, and let each of three query functions be called; in batches of two the
  functions are four and six calls, which wraps around. Its first order has two items,
  so that some of an order's items could be there without the others.
* `ViewCreation`: queries meet only in main, so pairs suffice; three jobs against
  two receives have the shape of 31 against 30. The names of the views are whole but
  for the dates and years, of which there are as many as jobs.
* `DataLoad` has no numbers; the four orders put the customers early and late
  and the postponed tables first and last. Every setting meets every pair of a flag
  and a line of the file; the two settings whose conditions are crossed
  meet in every combination.

Some runs do not check for deadlock: in `DataLoad` the client that sends its
tables does stop, and a client that has come to its benchmark has no step left;
in `ClientOps` the operations are bounded and a panic ends all. The other modules
have a step for the end of the process and check for it.

### Fairness

* `Benchmark`: time passes and main's two sleeps end; nothing is assumed of
  clients, ticker or collector, because a query may never return. `Terminates`
  holds all the same.
* `ViewCreation`: weak fairness of every goroutine: statements end, with an
  answer or with the timeout `pgdriver.WithTimeout` gives the connection. The
  connection to the redirect server has no timeout: there the server is assumed to
  answer, or the connection to break.
* `ClientOps`: weak fairness of `Execute`, `EndUpdate` and `EndQuery`: a statement
  ends, the server executes what it was sent, an answer or error that is there is
  read. Nothing is assumed of when an operation starts or a connection breaks.
* `DataLoad`: weak fairness of every goroutine; files end.
* `UpdateSplit`: one goroutine that calls nothing that blocks.
* `UpdateStream` has no liveness property: an update may never return.

A goroutine that is enabled stays enabled in these modules, but for `SplitPanics`
and the end of the process; weak fairness, which is what Go's scheduler gives, is
enough.

## 4. What is proved

TLAPS checks these for every value of the constants, under the assumptions the
modules name.

**`SumTheorems`** holds no result about the program, only what the others cite.
Totals, sums of orders and counts of calls are all
`SumFunctionOnSet` of the community modules, which takes a set apart by recursion with
`CHOOSE`. The module proves that such a function exists, that its value does not depend
on what is taken first (`SumRemove`), and from it the laws of sums: `SumAdd`,
`SumChange`, `SumUnion`, `SumPlus`, `SumLeq`, `SumConst`. Induction is had without a
theorem that takes a predicate: `SetInduction` says of a *set* of naturals that holds
0 and successors that it has all of them, from the well-foundedness of `<`, and
`FiniteInduction` says the same of a set of subsets; the predicate is in the
comprehension that defines the set. `CardOfImage` and `CardOfUnion` count.

**`BenchmarkStatsProofs`.** `UpdateAccounts` says what one collection does to any
typed result: `Accounted`, the operations in the warm-up interval and the total,
grows by exactly the pending ones, the covered time by at most the elapsed
time, and the list of intervals is left non-empty and at most one longer. It is the
only place where the cases first, merged and ordinary interval are told apart.

**`BenchmarkProofs`** (any set of clients, any durations; assumptions
`TimeAssumption` and that of `BenchmarkStats`). `TypeInv`, inductive, is `TypeOK`
and the order `startTime <= lastTime <= now` of each client's clock readings.
That order is needed because a collection subtracts two of them: without it a
duration might be negative, and `stats` would leave its type. The others are
proved from `[]TypeInv`, each with what it needs:

* `ConservationHolds`: inductive on top of `TypeInv`; `Operate` adds one on both
  sides, a collection moves the pending operations (`UpdateAccounts`).
* `TotalWithinRunHolds`: likewise, with time for operations.
* `OneIntervalPerTickHolds`: needs a strengthening: a client's
  intervals plus its raised flag are no more than the ticks, and a client at its
  collection has its flag up. A flag that a tick raises while the client collects is
  then lowered unused, which only makes intervals fewer.
* `ReportCompleteHolds`: needs that a buffered or received result belongs to a
  client that is done, that a client that has left has no pending operations and
  has an interval, and that the file is created with all results.
* `TotalIsSumHolds` and `IntervalsTileHolds` come from `SumInv`, which has both sums for
  each client: a merge changes the last interval and the total by the same
  amount, and the warm-up alone is in the one sum and not in the other, so neither
  could be shown without saying which interval is the first. The steps on lists are
  lemmas of `BenchmarkStatsProofs` (an interval appended, the last one changed).
* `RowsAgreeHolds` exchanges two sums, over clients and over rows: a row adds up the
  clients' intervals, a total a client's; what the rows leave out are the intervals
  past the shortest list.

**`UpdateStreamProofs`** (any shares and batch sizes; `CycleSizesAssumption`,
`LayoutsAssumption`). `IInv` adds to `TypeOK`, `BatchInRange` and `WindowAligned`
that what was sent in this walk is exactly what lies before the cursor; without
it `NoRepeatInWalk` and `WalkComplete` do not follow. `MoveTo` is the lemma both
kinds of update and both outcomes (advance, restart) go through.

**`UpdateSplitProofs`** (any update files, any number of regions above one and of
routines above none, any first region; `SplitAssumption`). The code keeps no account
of what a slice holds, only bounds; `SplitInvariant` says what is between them.
`SplitInv` has three parts:

* `GroupInv`: after `pos` orders of the file, the group of each region is the orders of
  that region among them, with *their* line items and sizes, and `startItem` is the
  number of line items before the next order.
* `KeysInv`: every slice of keys is within its array, whoever else shares it.
* `DealInv`: `start` and `lineStart` are the same place of the current region, one
  counted in orders and the other in line items, which is why two separate cuts
  stay together (`SliceOfItems`); and each routine has as many orders as it is due.

`TypeCorrect`, `SharesEvenHolds` and `ItemsFollowHolds` follow from it. Two need more:

* `LocalSplitHolds`: `LocalInv` adds that no two regions share an array. If every key is
  of its order's region, the append and the assignment are to one slice, so that
  arrays stay apart and each slice of keys is as long as its group.
* `DealtByRegionHolds`: `TurnInv` says that what is dealt is the regions before the
  current one and the beginning of this one, and how much that is. `SumInv`, that
  the groups together hold as many orders as the file, and `SharesFacts`, that the
  shares add up to it, exclude a share that asks for more orders than are left; and
  the regions are come to in turn (`Turns`) although the code counts modulo their number.

Of the growth of a slice the proofs use only that there is room for the key, so they
hold for the larger slices, which Go does not double, as well.

`FlattenSeq` is to sequences what a sum is to sets: `FlatConcat`, `FlatLen` and
`FlatSlice` are the laws, proved by `SetInduction`.

**`ClientOpsProofs`** (any finite set of clients, any shares, delete keys and numbers of
operations; `ClientsAssumption`, `LoadedAssumption`: the tables that were loaded are
finite, `NumbersAssumption`, `SharesAssumption`, `KeysAssumption`: a key to delete is of
a loaded order or 0; keys may repeat, in one share and in several).

* `WalkInvariant`: `WalkInv` puts each client's cursor and window on a batch within
  its share; only `EndUpdate` moves it, and `AdvancedIs` says where to.
* `OrdersStayWhole` proves `ItemsAllOrNone`. It is not inductive: statements
  wait in `todo` while tables change. `TablesInv` adds that every waiting
  statement has no items or all items of one order (`StatementsOfType`, from
  `WalkInv`), and that no item is without its order, which a cascading delete
  needs. `AfterIsWhole` is the step of the database.
* `ImplementsUpdateStream`: `StartUpdate`, `Execute`, queries and breaking
  connections are stutters of every walk, `EndUpdate(c)` is a step of `Walk(c)` and
  a stutter of the others.
* `TypeCorrect` and `SumsAreOfItems` come from `StateInv` together: that a sum is an
  integer needs what it is the sum of. Items are added to a sum by the trigger
  (`SumUnion`) and leave only with their order, and an order that is inserted once more
  starts from nothing; `Whole` of `TablesInv` is why there are no items for it yet.
* `QueriesTakeTurns` comes from `TurnsInv`: the calls are `k` full rounds and the first
  `q` functions of another, and `q` is where the client is.
* `ReportNeverUnderstatesHolds` needs nothing about failures. `LoadedInv` says that the
  items of a loaded order go with it, and only those; `BatchInv` that batches have no
  items. `SentInv` says that there is at each moment a set of orders that were sent:
  the clients' orders in the tables and in the statements that wait are among
  them, loaded orders go only with one of them, and each client reports, with what
  its operation under way will add, at least what its orders of the set are worth. An
  update that starts adds its orders; a lost answer, a statement that fails or one that
  waits after its client has gone on leaves the set as it is. Two updates that come with
  one key take one order from the tables and are both counted, which is why this is no
  equality. `SumUnionLeq` and `CardOfUnionLeq` take it to the totals.
* `ReportIsTrue` proves `ReportMatchesTables`, the balance of what is counted with what
  is in the tables as long as nothing has failed. `PendingInv`: what waits is what is
  left of one batch of the share, in its order. `ExactInv`: a client's orders in the
  tables and those it is about to insert are all that it reports; an order sent once
  more would be refused, and then something has failed. `FollowInv`: an order that is
  in has its items and its key is gone, or the statements for that are still to come,
  and no other loaded order is gone. When all is done, `SentInv` for the deletes and
  these for the rest give the equalities, those of the deletes counted only if the
  keys differ (`KeysDiffer`).

**`DataLoadProofs`** (any set of orders of reading and of flags and files;
`SchedulesAssumption`, `InputsAssumption`). Tables move along the schedule, so what
each goroutine has done is a beginning of it: `ReadInv` and `SendInv` give the places
of main, `ProcessBaseData` and `SendInserts` in it by counting what is in the
channels between them, and `IdleInv` says that nothing has begun before main begins
to load. `OrderInvariant` is their invariance; from it and from what each signal stands
for (`SignalInvariant`) follow

* `SentInOrderHolds`, `SplitHasRegionsHolds`, `BenchmarkHasDataHolds`;
* `ImplementsOutcome`: each step is one of `LoadOutcome` or a stutter. That a table
  is not built twice, or after the benchmark has begun, needs `OrderInvariant`;
* `StartFollowsSettingsHolds`: `SettingsInv` ties what main has done to its
  settings, `SettingsAreMeant` the settings, all but that of indexes, to what the
  help of the flags says of what was given.

`TypeCorrect` is its type invariant.

**`ViewCreationProofs`** (any numbers of dates and years, any configurations;
`SizesAssumption`, `ConfigurationsAssumption`). `TypeCorrect` includes that no channel
holds more than its capacity. Then

* `AwaitedAreCreatedHolds`: `JobInv` says that a signal in a channel, or received, is
  of a job that has run, and each of another one; so as many receives are as many
  jobs (a fact about cardinalities), and `MainInv` that whoever notified main has
  returned.
* `ReportIsHonestHolds`: `ReportInv` relates `success` to the outcomes while jobs
  run, and a report to the signals received before it.
* `MissingViewsAreExplainedHolds`: `NamesAsked` compares, query by query, the
  names that are asked for with those that are made.

### What is only model-checked

* Liveness: `Terminates`, `EveryoneFinishes`, `LoadEnds`, `SplitEnds`,
  `OperationsEnd`. TLAPS does not prove it. Every invariant and action property of
  the passing runs is a theorem.

## 5. Where code and documents disagree

Six runs show the code doing other than a comment or the README says; the
details and lines are in `PROJECT.json`, `findings`.

1. The process can end without its statistics file (`benchmark_exit`).
2. The time of a merged interval is missing from the total (`benchmark_merge`).
3. A client that sends the tables never gets to its benchmark (`data_load_send`).
4. The split may read the orders before they are built (`data_load_split`).
5. Keys to delete are not grouped by region (`update_split_deletes`).
6. Queries may start before the views are ready (`view_creation_ready`).

Others were met while modelling. The modules do what the code does, and no property
says that the code is right there or wrong:

* A batch of queries counts as one. All functions of a batch write to entry 0 of the
  message (`pgQuery.go`, lines 330-333, `pgViews.go`, line 319), so that of
  QUERIES_PER_CYCLE queries one is sent, answered and counted
  (`QueriesCounted`). `src/README.md:318` calls the setting the "number of operations
  (either read or updates) to execute per transaction", and `pgQuery.go`, line 573,
  divides the number of queries by it.
* The items of a batch of updates are counted and never sent (`pgQuery.go`, line 384).
* A missing `doIndexload` is true (`pgConfigs.go`, line 204); the variable is false
  (line 30) and the help of the flag says "Default: false" (line 65).
* The flag `do_indexload` goes into the configuration if `do_viewload` is given
  (line 115): alone it is ignored, and if only the other is given it writes "none" over
  what the file says.
* Any value of `--reset` resets (line 100), `false` too; the help says "set this flag
  to true" (line 80).
* The flag `n_reads_txn` and the files write `nReadsTxn` (line 167), and `nReadTxns` is
  what is read (line 197).
* `alterTables.sql`, line 2, starts the sum of a loaded order from a count of its items;
  the trigger adds quantities.
* A delete that the tables refuse (`alterTables.sql`, line 21: no cascade) is counted
  as done, with its items.
* With N_UPD_CLIENTS the updates are still split among all clients (`pgQuery.go`,
  line 80), and only the first ones execute theirs.
* With all queries selected, the views of a specific list are made by functions that
  are nil (`pgViews.go`, line 1606).

## 6. What is not modelled

* SQL text, the results of queries and what is computed from them, printing, the
  format of the file, the ratios and rates of `calculateStats`: data that no
  control depends on. So are the dates a view of query 14 covers, which differ between
  `MakeQ14View` and its Redirect variant.
* Errors of PostgreSQL in `DataLoad`: a table is sent, successfully or not, and
  the code goes on the same way. The five statements of `CreateIndexes`, whose
  errors are printed, are one step.
* The Redirect variants of loading and `doUpdateBench`, which nothing calls. The
  latter is the loop of `doQueryBench`.
* Settings that are numbers or strings: addresses, sizes, rates and durations are
  constants of the modules that need them. The loop over `DefaultViews` and
  `QUERY_FUNCS_INT` is that of `ViewCreation`; other values go through unchanged but
  for `statisticsInterval`, which is multiplied, and one key that is spelt
  differently where they are written and read (`pgConfigs.go`, lines 167 and 197: the
  `nReadsTxn` of the flags and files is never read, so batches of more than one are made
  only by a file that says `nReadTxns`).
* Main's unlocked read of the results at the end of its grace period, whose
  outcome is only printed.
* Two processes that write statistics at the same place: the modules are of one
  process, and the file system is not part of them.
* The scripts and images, which set up a database.

## 7. Plan

What has been done, in its order: `Benchmark` and `BenchmarkStats`,
`UpdateStream`, `ViewCreation`, `DataLoad`, `UpdateSplit`, then `ClientOps` with
`TpchTables`, the selection and the names of queries in `ViewCreation` and `ViewNames`,
`Config` and the start of the program in `DataLoad`, and `LoadOutcome`. What may
follow:

1. Two processes that look for the name of their file in `getStatsFileToWrite`.
2. Errors of PostgreSQL while a table is sent in chunks.
