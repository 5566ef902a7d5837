------------------------------ MODULE Benchmark ------------------------------
(***************************************************************************)
(* The measured phase of prepareQueryClientsBenchmark (pgQuery.go), from   *)
(* the moment its goroutines run: the clients (doBench, doQueryBench), the *)
(* ticker (doMixedStatsInterval), main, asleep for the test duration and   *)
(* then for the grace period, and the goroutine that collects the results  *)
(* and writes the statistics file.                                         *)
(*                                                                         *)
(* They share STOP_QUERIES and the slice collectQueryStats without locks.  *)
(* A client reads the slice header and writes its own element in one step: *)
(* writing to the slice a tick has just replaced is the same as writing    *)
(* before that tick. Time is discrete; a sleep ends at or after its        *)
(* deadline, and any step may be late.                                     *)
(***************************************************************************)
EXTENDS BenchmarkStats

CONSTANTS
  Interval,       \* STATISTICS_INTERVAL
  TestDuration,   \* TEST_DURATION
  Grace,          \* the ten seconds main waits for the results
  IdGiven,        \* whether ID, a part of the file's name, is set: by default it is ""
  MaxTime,        \* bound: the clock stops here, once main need not wait
  MaxOps          \* bound: a client starts no further operation

ASSUME TimeAssumption == /\ Interval \in Nat \ {0}
                         /\ TestDuration \in Nat /\ Grace \in Nat /\ IdGiven \in BOOLEAN
                         /\ MaxTime \in Nat /\ MaxOps \in Nat

VARIABLES
  now,        \* the clock, from the start of the benchmark
  nextTick,   \* when the ticker's sleep ends
  ticks,      \* the ticks so far: i - 1 in doMixedStatsInterval
  flag,       \* collectQueryStats, by client
  stop,       \* STOP_QUERIES
  pc,         \* where each client is
  cur,        \* each client's own MixStatistics: operations not yet collected
  startTime, lastTime,   \* locals of doBench
  stats,      \* the BenchmarkResults each client builds
  chan,       \* resultChan: the clients whose result is buffered in it
  received,   \* the clients whose result the collector has
  collector,  \* where the collector is
  graceEnd,   \* when main's second sleep ends
  exited,     \* who ended the process
  executed    \* history: the operations each client has completed

clientVars == <<pc, cur, startTime, lastTime, stats, executed>>
tickVars == <<nextTick, ticks>>
reportVars == <<chan, received, collector>>
mainVars == <<stop, graceEnd, exited>>
vars == <<now, flag, clientVars, tickVars, reportVars, mainVars>>

Running == exited = "running"

Init ==
  /\ now = 0 /\ nextTick = Interval /\ ticks = 0
  /\ flag = [c \in Client |-> FALSE]
  /\ stop = FALSE /\ graceEnd = 0 /\ exited = "running"
  /\ pc = [c \in Client |-> "spawned"]
  /\ cur = [c \in Client |-> 0]
  /\ startTime = [c \in Client |-> 0] /\ lastTime = [c \in Client |-> 0]
  /\ stats = [c \in Client |-> EmptyResults]
  /\ executed = [c \in Client |-> 0]
  /\ chan = {} /\ received = {} /\ collector = "idle"

-----------------------------------------------------------------------------
(* The clients. *)

Start(c) ==
  /\ pc[c] = "spawned"
  /\ pc' = [pc EXCEPT ![c] = "loop"]
  /\ startTime' = [startTime EXCEPT ![c] = now]
  /\ lastTime' = [lastTime EXCEPT ![c] = now]
  /\ UNCHANGED <<now, flag, cur, stats, executed, tickVars, reportVars, mainVars>>

\* The head of the loop: STOP_QUERIES first, then the client's flag.
LoopHead(c) ==
  /\ pc[c] = "loop"
  /\ \/ stop /\ pc' = [pc EXCEPT ![c] = "leave"]
     \/ ~stop /\ flag[c] /\ pc' = [pc EXCEPT ![c] = "collect"]
     \/ ~stop /\ ~flag[c] /\ executed[c] < MaxOps /\ pc' = [pc EXCEPT ![c] = "operate"]
  /\ UNCHANGED <<now, flag, cur, startTime, lastTime, stats, executed, tickVars,
                 reportVars, mainVars>>

\* Bug-seeded: the operands are swapped.
Elapsed_Swapped(c) == lastTime[c] - now

\* Bug-seeded: the interval is measured from the start of the client.
Elapsed_SinceStart(c) == now - startTime[c]

Elapsed(c) == now - lastTime[c]

\* Bug-seeded: the client's own counters survive the collection.
ClearCounters_Forgotten(c) == UNCHANGED cur

ClearCounters(c) == cur' = [cur EXCEPT ![c] = 0]

\* Bug-seeded: the flag stays up after the collection.
LowerFlag_Forgotten(c) == UNCHANGED flag

\* The flag may be one that a tick has raised since the client read its own.
LowerFlag(c) == flag' = [flag EXCEPT ![c] = FALSE]

\* updateBenchmarkStats and lastTime = currTime.
CollectInto(c) ==
  /\ stats' = [stats EXCEPT ![c] = UpdateBenchmarkStats(@, cur[c], Elapsed(c))]
  /\ ClearCounters(c)
  /\ LowerFlag(c)
  /\ lastTime' = [lastTime EXCEPT ![c] = now]

\* The collection inside the loop; an operation follows in the same iteration.
Collect(c) ==
  /\ pc[c] = "collect"
  /\ CollectInto(c)
  /\ pc' = [pc EXCEPT ![c] = IF executed[c] < MaxOps THEN "operate" ELSE "loop"]
  /\ UNCHANGED <<now, startTime, executed, tickVars, reportVars, mainVars>>

\* A query or an update returns, and its helper has counted it.
Operate(c) ==
  /\ pc[c] = "operate"
  /\ cur' = [cur EXCEPT ![c] = @ + 1]
  /\ executed' = [executed EXCEPT ![c] = @ + 1]
  /\ pc' = [pc EXCEPT ![c] = "loop"]
  /\ UNCHANGED <<now, flag, startTime, lastTime, stats, tickVars, reportVars, mainVars>>

\* The collection after the loop: what ran since the last tick.
Leave(c) ==
  /\ pc[c] = "leave"
  /\ CollectInto(c)
  /\ pc' = [pc EXCEPT ![c] = "send"]
  /\ UNCHANGED <<now, startTime, executed, tickVars, reportVars, mainVars>>

\* resultChan <- stats, on a channel with room for every client.
Send(c) ==
  /\ pc[c] = "send"
  /\ Cardinality(chan) < Cardinality(Client)
  /\ chan' = chan \cup {c}
  /\ pc' = [pc EXCEPT ![c] = "done"]
  /\ UNCHANGED <<now, flag, cur, startTime, lastTime, stats, executed, tickVars,
                 received, collector, mainVars>>

ClientStep(c) ==
  \/ Start(c) \/ LoopHead(c) \/ Collect(c) \/ Operate(c) \/ Leave(c) \/ Send(c)

-----------------------------------------------------------------------------
(* The ticker. *)

\* A fresh slice, true for every client, replaces the current one.
Tick ==
  /\ now >= nextTick
  /\ flag' = [c \in Client |-> TRUE]
  /\ ticks' = ticks + 1
  /\ nextTick' = now + Interval
  /\ UNCHANGED <<now, clientVars, reportVars, mainVars>>

-----------------------------------------------------------------------------
(* Main. *)

StopTest ==
  /\ ~stop /\ now >= TestDuration
  /\ stop' = TRUE
  /\ graceEnd' = now + Grace
  /\ collector' = "collecting"
  /\ UNCHANGED <<now, flag, clientVars, tickVars, chan, received, exited>>

\* Bug-seeded: main waits for the collector as long as that takes.
MainReturns_WaitsForReport ==
  /\ stop /\ now >= graceEnd
  /\ collector = "written"
  /\ exited' = "main"
  /\ UNCHANGED <<now, flag, clientVars, tickVars, reportVars, stop, graceEnd>>

\* Main returns after its second sleep whatever the collector has done, and
\* with it Start and the process.
MainReturns ==
  /\ stop /\ now >= graceEnd
  /\ exited' = "main"
  /\ UNCHANGED <<now, flag, clientVars, tickVars, reportVars, stop, graceEnd>>

-----------------------------------------------------------------------------
(* The collector. *)

Receive ==
  /\ collector = "collecting"
  /\ \E c \in chan : chan' = chan \ {c} /\ received' = received \cup {c}
  /\ UNCHANGED <<now, flag, clientVars, tickVars, collector, mainVars>>

\* Bug-seeded: the collector stops one result short.
AllReceived_OneShort == Cardinality(received) >= Cardinality(Client) - 1

AllReceived == received = Client

\* With every result in hand getStatsFileToWrite makes the file, empty, unless
\* os.Create fails. As long as the name is taken its ID is made longer by the
\* first of its letters: if it has none, that panics. (STATISTICS_INTERVAL is
\* never -1 here: it is in nanoseconds.)
CreateFile ==
  /\ collector = "collecting" /\ AllReceived
  /\ \/ collector' \in {"created", "refused"} /\ UNCHANGED exited
     \/ ~IdGiven /\ exited' = "panicked" /\ UNCHANGED collector
  /\ UNCHANGED <<now, flag, clientVars, tickVars, chan, received, stop, graceEnd>>

\* writeDataToFile flushes and closes it: the file now holds the report. Without
\* a file it returns.
WriteFile ==
  /\ \/ collector = "created" /\ collector' = "written"
     \/ collector = "refused" /\ collector' = "unsaved"
  /\ UNCHANGED <<now, flag, clientVars, tickVars, chan, received, mainVars>>

\* os.Exit(0), once the totals are printed, with or without a file.
CollectorExits ==
  /\ collector \in {"written", "unsaved"}
  /\ exited' = "collector"
  /\ UNCHANGED <<now, flag, clientVars, tickVars, reportVars, stop, graceEnd>>

-----------------------------------------------------------------------------

\* Bound: the clock stops at MaxTime, or when main's second sleep is over.
Advance ==
  /\ now < MaxTime \/ (stop /\ now < graceEnd)
  /\ now' = now + 1
  /\ UNCHANGED <<flag, clientVars, tickVars, reportVars, mainVars>>

\* The process is gone.
Ended == ~Running /\ UNCHANGED vars

Next ==
  \/ /\ Running
     /\ \/ \E c \in Client : ClientStep(c)
        \/ Tick
        \/ StopTest \/ MainReturns
        \/ Receive \/ CreateFile \/ WriteFile \/ CollectorExits
        \/ Advance
  \/ Ended

Spec == Init /\ [][Next]_vars

\* Main's sleeps end and time passes. Nothing is asked of the clients: a
\* query may never return.
Fairness ==
  /\ WF_vars(Running /\ Advance)
  /\ WF_vars(Running /\ StopTest)
  /\ WF_vars(Running /\ MainReturns)

FairSpec == Spec /\ Fairness

-----------------------------------------------------------------------------
(* Properties. *)

TypeOK ==
  /\ now \in Nat /\ nextTick \in Nat /\ ticks \in Nat
  /\ flag \in [Client -> BOOLEAN]
  /\ stop \in BOOLEAN /\ graceEnd \in Nat
  /\ exited \in {"running", "main", "collector", "panicked"}
  /\ pc \in [Client -> {"spawned", "loop", "collect", "operate", "leave", "send", "done"}]
  /\ cur \in [Client -> Nat] /\ executed \in [Client -> Nat]
  /\ startTime \in [Client -> Nat] /\ lastTime \in [Client -> Nat]
  /\ stats \in [Client -> Results]
  /\ chan \in SUBSET Client /\ received \in SUBSET Client
  /\ collector \in {"idle", "collecting", "created", "refused", "written", "unsaved"}

\* No operation is lost or counted twice: at every moment each one a client
\* has completed is in its pending counters, in its warm-up interval or in
\* its total, across collections, merges and ticks that race with them.
Conservation ==
  \A c \in Client : executed[c] = cur[c] + Accounted(stats[c])

\* A client opens at most one interval a tick, and one when it leaves: a
\* tick that comes while a client collects can be lost, never used twice.
OneIntervalPerTick ==
  \A c \in Client :
    Len(stats[c].inter) <= ticks + (IF pc[c] \in {"send", "done"} THEN 1 ELSE 0)

\* The file is made only of finished results: every client is done, has left
\* nothing uncounted and has the one interval convertStats takes for granted
\* (with none, it would make a slice of length -1).
ReportComplete ==
  collector \in {"created", "refused", "written", "unsaved"} =>
    \A c \in Client : /\ pc[c] = "done"
                      /\ stats[c].inter # <<>>
                      /\ executed[c] = Accounted(stats[c])

\* The time a total covers is time the client was measured: throughput is
\* never understated by counting an interval twice.
TotalWithinRun ==
  \A c \in Client : Covered(stats[c]) <= lastTime[c] - startTime[c]

\* Total holds the operations of every interval but the warm-up (the comment
\* of pgQuery.go:447), merged intervals included.
TotalIsSumOfIntervals ==
  \A c \in Client :
    LET r == stats[c] IN
      r.inter # <<>> => r.total.ops = SumFrom(2, r.inter, "ops")

\* The same for the time. Not so after a merge: the merged interval's time is
\* in the interval and not in the total.
TotalTimeIsSumOfIntervals ==
  \A c \in Client :
    LET r == stats[c] IN
      r.inter # <<>> => r.total.dur = SumFrom(2, r.inter, "dur")

\* A client's intervals cover its life without gap or overlap.
IntervalsTile ==
  \A c \in Client :
    SumFrom(1, stats[c].inter, "dur") = lastTime[c] - startTime[c]

\* The rows of the file never show more operations than its last line, and
\* show all of them when every client has the same number of intervals.
RowsAgreeWithTotal ==
  collector = "written" =>
    LET report == Report(stats)
        shown == SumFrom(1, report.rows, "ops")
        lengths == {Len(stats[c].inter) : c \in Client} IN
      /\ shown <= report.total.ops
      /\ Cardinality(lengths) = 1 => shown = report.total.ops

\* The process ends even if a query never returns.
Terminates == <>~Running

\* The statistics file is complete when the process ends (README.md:314-315:
\* the client produces it), unless it could not be made. Not so when a client
\* outlives the grace period.
FileBeforeExit == ~Running => collector \in {"written", "unsaved"}
=============================================================================
