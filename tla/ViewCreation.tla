---------------------------- MODULE ViewCreation ----------------------------
(***************************************************************************)
(* CreateViews (pgViews.go): one goroutine for each query whose views are  *)
(* to be created, the goroutines some of these start themselves, the       *)
(* channels they signal on, and main, which goes on to the benchmark when  *)
(* every query has signalled.                                              *)
(*                                                                         *)
(* A job is a run of CREATE statements by one goroutine: it may fail at    *)
(* any of them and goes on with the rest. The goroutines of a query are    *)
(* started at once: one that starts late is one whose statements are slow. *)
(* With the redirect server a query sends all its statements in one        *)
(* message and waits for the reply; without a connection, or if that       *)
(* breaks, it panics.                                                      *)
(*                                                                         *)
(* Which queries these are, and which functions the clients then call,     *)
(* come from the same list by different ways. A number in it that is no    *)
(* query is written "other", and "all" stands for ALL_QUERIES; with the    *)
(* redirect server its goroutine makes nothing, and all that is kept of it *)
(* is that it panics if it has no connection to close.                     *)
(***************************************************************************)
EXTENDS ViewNames, FiniteSets

Queries == {"q1", "q3", "q5", "q6", "q11", "q14", "q15", "q18"}

CONSTANTS
  DefaultViews,     \* the queries whose views are made unless others are asked
                    \* for: q3, q5, q11, q14, q15 and q18
  Configurations    \* the settings the client may have

\* specific is UPDATE_SPECIFIC_INDEX_ONLY; batch is QUERIES_PER_CYCLE > 1;
\* benchmark is DOES_QUERIES or DOES_UPDATES; list is QUERY_FUNCS_INT, without
\* its order and without repetitions.
Configuration ==
  [redirect : BOOLEAN, benchmark : BOOLEAN, specific : BOOLEAN, usesViews : BOOLEAN,
   batch : BOOLEAN, list : {{"all"}} \cup ((SUBSET (Queries \cup {"other"})) \ {{}})]

ASSUME ConfigurationsAssumption ==
  DefaultViews \subseteq Queries /\ Configurations \subseteq Configuration

VARIABLES
  config,      \* the settings
  maker,       \* where the goroutine of each query is
  job,         \* where each job is
  outcome,     \* whether its statements have run, and how
  success,     \* the local of each Make..View, shared with its jobs
  report,      \* whether the query has printed its success
  chan, got,   \* each query's own channel: signals in it, signals received
  notifyChan, notified,   \* the same for CreateViews
  main         \* where main is

queryVars == <<job, outcome, success, chan>>
vars == <<config, queryVars, maker, report, got, notifyChan, notified, main>>

redirect == config.redirect

\* The queries whose views are created.
selected == IF config.specific THEN config.list \cap Queries ELSE DefaultViews

\* Without the redirect server, the functions that create the views of an entry
\* of the list that is no query are left nil. With "all" they all are: their
\* slice is as long as that of the query functions, the list is not.
SomeMakerIsNil == ~redirect /\ config.specific /\ ~(config.list \subseteq Queries)

NoFunction == "nil"

\* The query functions for the entries of the list, where those given have one.
FunctionsFor(supported) ==
  (config.list \cap supported) \cup (IF config.list \subseteq supported THEN {} ELSE {NoFunction})

\* The queries without views are fewer.
NoViewQueries == Queries \ {"q1", "q6"}

\* client.QueryFuncs, by the query they ask. "all" is no entry for batches.
QueryFuncs ==
  CASE redirect /\ config.batch      -> FunctionsFor(Queries)
    [] ~redirect /\ ~config.usesViews ->
         IF config.list = {"all"} THEN NoViewQueries ELSE FunctionsFor(NoViewQueries)
    [] OTHER -> IF config.list = {"all"} THEN Queries ELSE FunctionsFor(Queries)

\* The other Make..View run their statements themselves, and so does every
\* query that uses the redirect server.
Inline(q) == redirect \/ q \notin {"q3", "q5", "q14"}

\* The jobs of a query, numbered. The loop of MakeQ3View runs from 0 to 30.
Jobs(q) ==
  IF Inline(q) THEN {1} ELSE
  CASE q = "q3"  -> 0..Q3Dates
    [] q = "q5"  -> 1..Q5Years
    [] q = "q14" -> 1..Q14Years

\* The views that a query's job is to create.
ViewsOf(q, i) ==
  CASE q = "q1"  -> Q1Made
    [] q = "q3"  -> IF redirect THEN UNION {Q3Made(d) : d \in 0..Q3Dates} ELSE Q3Made(i)
    [] q = "q5"  -> IF redirect THEN UNION {Q5Made(y) : y \in 1..Q5Years} ELSE Q5Made(i)
    [] q = "q6"  -> Q6Made
    [] q = "q11" -> Q11Made
    [] q = "q14" -> IF redirect THEN UNION {Q14Made(y) : y \in 1..Q14Years} ELSE Q14Made(i)
    [] q = "q15" -> Q15Made
    [] q = "q18" -> Q18Made

\* The views that a query may ask for.
Asked(q) ==
  CASE q = "q1"  -> Q1Asked
    [] q = "q3"  -> Q3Asked
    [] q = "q5"  -> Q5Asked
    [] q = "q6"  -> Q6Asked
    [] q = "q11" -> Q11Asked
    [] q = "q14" -> Q14Asked
    [] q = "q15" -> Q15Asked
    [] q = "q18" -> Q18Asked

AllJobs == UNION {{<<q, i>> : i \in Jobs(q)} : q \in selected}

\* Bug-seeded: the loop that waits runs once too often.
Awaited_OneMore(q) ==
  IF Inline(q) THEN 1 ELSE
  CASE q = "q3"  -> Q3Dates + 2
    [] q = "q5"  -> 0
    [] q = "q14" -> Q14Years

\* How many of its jobs a query waits for.
Awaited(q) ==
  IF Inline(q) THEN 1 ELSE
  CASE q = "q3"  -> Q3Dates
    [] q = "q5"  -> 0
    [] q = "q14" -> Q14Years

\* The capacity of the query's channel; jobs of MakeQ5View have none.
Capacity(q) == Awaited(q)

Signals(q) == ~Inline(q) /\ q # "q5"

Alive == main \notin {"exited", "panicked"}

Init ==
  /\ config \in Configurations
  /\ maker = [q \in selected |-> "started"]
  /\ job = [j \in AllJobs |-> "none"]
  /\ outcome = [j \in AllJobs |-> "pending"]
  /\ success = [q \in selected |-> TRUE]
  /\ report = [q \in selected |-> "none"]
  /\ chan = [q \in selected |-> {}] /\ got = [q \in selected |-> {}]
  /\ notifyChan = {} /\ notified = {}
  /\ main = "creating"

-----------------------------------------------------------------------------
(* The jobs. *)

\* Bug-seeded: a failed statement is only printed.
Record_Forgets(q, ok) == UNCHANGED success

\* success = false, at the first error. MakeQ1View keeps none.
Record(q, ok) == success' = [success EXCEPT ![q] = @ /\ (ok \/ (q = "q1" /\ ~redirect))]

RunJob(q, i) ==
  /\ job[<<q, i>>] = "running"
  /\ \E ok \in BOOLEAN :
       /\ outcome' = [outcome EXCEPT ![<<q, i>>] = IF ok THEN "ok" ELSE "failed"]
       /\ Record(q, ok)
  /\ job' = [job EXCEPT ![<<q, i>>] = IF Signals(q) THEN "signalling" ELSE "done"]
  /\ UNCHANGED <<config, maker, report, chan, got, notifyChan, notified, main>>

\* A redirect job without an answer. Neither the error of net.Dial nor that of
\* the reply is looked at: the reply is nil, and to take it for a CreateViewResp
\* panics.
PanicJob(q, i) ==
  /\ redirect /\ job[<<q, i>>] = "running"
  /\ main' = "panicked"
  /\ UNCHANGED <<config, queryVars, maker, report, got, notifyChan, notified>>

\* Bug-seeded: a channel of any capacity.
HasRoom_Unbounded(q) == TRUE

HasRoom(q) == Cardinality(chan[q]) < Capacity(q)

\* notifyChan <- true, on the query's own channel.
SignalJob(q, i) ==
  /\ job[<<q, i>>] = "signalling"
  /\ HasRoom(q)
  /\ chan' = [chan EXCEPT ![q] = @ \cup {i}]
  /\ job' = [job EXCEPT ![<<q, i>>] = "done"]
  /\ UNCHANGED <<config, maker, outcome, success, report, got, notifyChan, notified, main>>

-----------------------------------------------------------------------------
(* The goroutine of a query. *)

StartJobs(q) ==
  /\ maker[q] = "started"
  /\ maker' = [maker EXCEPT ![q] = "waiting"]
  /\ job' = [j \in AllJobs |-> IF j[1] = q THEN "running" ELSE job[j]]
  /\ UNCHANGED <<config, outcome, success, report, chan, got, notifyChan, notified, main>>

\* <-notifyChan, while there are jobs to wait for.
AwaitJob(q) ==
  /\ maker[q] = "waiting" /\ Cardinality(got[q]) < Awaited(q)
  /\ \E i \in chan[q] : /\ chan' = [chan EXCEPT ![q] = @ \ {i}]
                        /\ got' = [got EXCEPT ![q] = @ \cup {i}]
  /\ UNCHANGED <<config, maker, job, outcome, success, report, notifyChan, notified, main>>

\* Bug-seeded: the query goes on one signal early.
Waited_OneShort(q) ==
  IF Inline(q) THEN job[<<q, 1>>] = "done" ELSE Cardinality(got[q]) + 1 >= Awaited(q)

\* The query has waited for all it waits for.
Waited(q) ==
  IF Inline(q) THEN job[<<q, 1>>] = "done" ELSE Cardinality(got[q]) = Awaited(q)

\* The end of a Make..View: its success is printed if nothing has failed yet.
Return(q) ==
  /\ maker[q] = "waiting" /\ Waited(q)
  /\ maker' = [maker EXCEPT ![q] = "returned"]
  /\ report' = [report EXCEPT ![q] = IF success[q] THEN "success" ELSE "silent"]
  /\ UNCHANGED <<config, queryVars, got, notifyChan, notified, main>>

\* ExecuteAndNotify, on a channel with room for every query.
NotifyMain(q) ==
  /\ maker[q] = "returned"
  /\ Cardinality(notifyChan) < Cardinality(selected)
  /\ maker' = [maker EXCEPT ![q] = "done"]
  /\ notifyChan' = notifyChan \cup {q}
  /\ UNCHANGED <<config, queryVars, report, got, notified, main>>

-----------------------------------------------------------------------------
(* Main. *)

MainAwait ==
  /\ main = "creating"
  /\ \E q \in notifyChan : notifyChan' = notifyChan \ {q} /\ notified' = notified \cup {q}
  /\ UNCHANGED <<config, queryVars, maker, report, got, main>>

\* The goroutine of a query without a function calls nil.
MakerPanics ==
  /\ SomeMakerIsNil /\ main = "creating"
  /\ main' = "panicked"
  /\ UNCHANGED <<config, queryVars, maker, report, got, notifyChan, notified>>

\* The goroutine of an entry that is no query has signalled, and says good-bye on
\* a connection that it may not have.
CloserPanics ==
  /\ redirect /\ config.specific /\ ~(config.list \subseteq Queries)
  /\ main' = "panicked"
  /\ UNCHANGED <<config, queryVars, maker, report, got, notifyChan, notified>>

\* "Finished making all views", and the benchmark or the end of Start.
MainGoesOn ==
  /\ main = "creating" /\ ~SomeMakerIsNil
  /\ Cardinality(notified) = Cardinality(selected)
  /\ main' = IF config.benchmark THEN "querying" ELSE "exited"
  /\ UNCHANGED <<config, queryVars, maker, report, got, notifyChan, notified>>

JobStep(q, i) == RunJob(q, i) \/ PanicJob(q, i) \/ SignalJob(q, i)

QueryStep(q) == StartJobs(q) \/ AwaitJob(q) \/ Return(q) \/ NotifyMain(q)

MainStep == MainAwait \/ MainGoesOn \/ MakerPanics

AllDone == main = "querying" /\ \A j \in AllJobs : job[j] = "done"

\* Nothing of this is left to do, or the process is gone.
Ended == (~Alive \/ AllDone) /\ UNCHANGED vars

Next ==
  \/ /\ Alive
     /\ \/ \E q \in selected : QueryStep(q) \/ \E i \in Jobs(q) : JobStep(q, i)
        \/ MainStep \/ CloserPanics
  \/ Ended

Spec == Init /\ [][Next]_vars

\* Every goroutine that can run does: PostgreSQL answers each statement or the
\* driver times out (pgdriver.WithTimeout). Nothing times out on the connection of
\* a redirect client: there the server has to answer, or the connection to break.
Fairness ==
  /\ \A q \in Queries : /\ WF_vars(Alive /\ q \in selected /\ QueryStep(q))
                        /\ \A i \in 0..(Q3Dates + Q5Years + Q14Years + 1) :
                             WF_vars(Alive /\ q \in selected /\ i \in Jobs(q) /\ JobStep(q, i))
  /\ WF_vars(Alive /\ MainStep)

FairSpec == Spec /\ Fairness

-----------------------------------------------------------------------------

TypeOK ==
  /\ config \in Configurations
  /\ maker \in [selected -> {"started", "waiting", "returned", "done"}]
  /\ job \in [AllJobs -> {"none", "running", "signalling", "done"}]
  /\ outcome \in [AllJobs -> {"pending", "ok", "failed"}]
  /\ success \in [selected -> BOOLEAN]
  /\ report \in [selected -> {"none", "success", "silent"}]
  /\ chan \in [selected -> SUBSET Nat] /\ got \in [selected -> SUBSET Nat]
  /\ \A q \in selected : /\ chan[q] \subseteq Jobs(q) /\ got[q] \subseteq Jobs(q)
                         /\ Cardinality(chan[q]) <= Capacity(q)
  /\ notifyChan \subseteq selected /\ notified \subseteq selected
  /\ main \in {"creating", "querying", "exited", "panicked"}

\* The jobs of a query whose statements have not run.
Pending(q) == {i \in Jobs(q) : outcome[<<q, i>>] = "pending"}

\* What the waiting is worth: when a query has returned, and so when main goes
\* on, the views still missing are those of jobs it does not wait for: at most
\* one of MakeQ3View's, any of MakeQ5View's, and none of the other queries'.
AwaitedAreCreated ==
  /\ \A q \in selected :
       maker[q] \in {"returned", "done"} =>
         Cardinality(Pending(q)) <= Cardinality(Jobs(q)) - Awaited(q)
  /\ main \in {"querying", "exited"} => \A q \in selected : maker[q] = "done"

\* A query prints its success only if every job it waited for succeeded, and
\* is silent only if one has failed; but MakeQ1View prints it in any case.
ReportIsHonest ==
  \A q \in selected :
    /\ (q # "q1" \/ redirect) /\ report[q] = "success" =>
         Cardinality({i \in Jobs(q) : outcome[<<q, i>>] = "ok"} \cup
                     {i \in Jobs(q) : i \notin got[q] /\ ~Inline(q)}) = Cardinality(Jobs(q))
    /\ report[q] = "silent" => \E i \in Jobs(q) : outcome[<<q, i>>] = "failed"

\* The views of a query whose job has created them, and those it has not.
ViewsWith(q, outcomes) ==
  UNION {ViewsOf(q, i) : i \in {j \in Jobs(q) : outcome[<<q, j>>] \in outcomes}}

\* A user of views whose list has only queries, and only such as views are made
\* for: those of the default, or all if those of the list are asked for.
ListIsServed ==
  /\ redirect \/ config.usesViews
  /\ config.list \subseteq Queries
  /\ config.specific \/ config.list \subseteq DefaultViews

\* A view that a query may ask for is missing only as long as the goroutine
\* that has to create it is not done, or for good if that has failed: each name
\* that can be asked for is in some goroutine's share (Make..View, Do..Query).
\* And if their list is served, the clients have no other queries, and none is
\* nil (CreateViews, CreatePGQueryClient).
MissingViewsAreExplained ==
  /\ \A q \in selected :
       Asked(q) \ ViewsWith(q, {"ok"}) \subseteq ViewsWith(q, {"pending", "failed"})
  /\ ListIsServed => QueryFuncs \subseteq selected

\* Every goroutine comes to its end unless the process ends before, by its own
\* end or by a panic: no job waits for ever to signal and no query for ever to be
\* signalled.
EveryoneFinishes == <>(AllDone \/ ~Alive)

\* Queries run only when the views are ready (README.md:287-288: "After the
\* views are ready, a pre-defined number of clients will start querying the
\* server"). Not so: MakeQ5View waits for no job.
ViewsReadyBeforeQueries == main = "querying" => \A q \in selected : Pending(q) = {}
=============================================================================
