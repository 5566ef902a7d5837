--------------------------- MODULE BenchmarkStats ---------------------------
(***************************************************************************)
(* The statistics kept by one benchmark client and the report made of them *)
(* (src/src/client/pgQuery.go).                                            *)
(*                                                                         *)
(* MixStatistics has thirteen counters that updateBenchmarkStats and       *)
(* convertStats treat alike, so one counter, ops, stands for each of them. *)
(* The duration is the one field they treat differently and is kept apart. *)
(* A BenchmarkResults is the record [inter, total]: IntermediateResults    *)
(* and Total.                                                              *)
(***************************************************************************)
EXTENDS Integers, Sequences, FiniteSetsExt

CONSTANTS
  Client,       \* the benchmark clients, 0..N_CLIENTS-1
  MergeWindow   \* STATISTICS_INTERVAL/8: a shorter interval joins the last one

ASSUME ClientAssumption == IsFiniteSet(Client) /\ Client # {}
ASSUME MergeWindowAssumption == MergeWindow \in Nat

Zero == [ops |-> 0, dur |-> 0]

EmptyResults == [inter |-> <<>>, total |-> Zero]

Mix == [ops : Nat, dur : Nat]

Results == [inter : Seq(Mix), total : Mix]

Plus(a, b) == [ops |-> a.ops + b.ops, dur |-> a.dur + b.dur]

-----------------------------------------------------------------------------
(* updateBenchmarkStats: n operations since the last collection, d later.  *)

\* The branch that extends the last interval instead of opening a new one.
Merges(r, d) == d < MergeWindow /\ Len(r.inter) > 0

NewIntervals(r, n, d) ==
  IF Merges(r, d)
    THEN [r.inter EXCEPT ![Len(r.inter)] = Plus(@, [ops |-> n, dur |-> d])]
    ELSE Append(r.inter, [ops |-> n, dur |-> d])

\* Only the appending branch sets client.duration, so a merged interval adds
\* its operations to Total but not its time.
CountedTime(r, d) == IF Merges(r, d) THEN 0 ELSE d

\* Bug-seeded: a merged interval is left out of the total.
NewTotal_DropsMerged(r, n, d) ==
  IF Len(NewIntervals(r, n, d)) > 1 /\ ~Merges(r, d)
    THEN Plus(r.total, [ops |-> n, dur |-> d])
    ELSE r.total

NewTotal(r, n, d) ==
  IF Len(NewIntervals(r, n, d)) > 1
    THEN Plus(r.total, [ops |-> n, dur |-> CountedTime(r, d)])
    ELSE r.total

UpdateBenchmarkStats(r, n, d) ==
  [inter |-> NewIntervals(r, n, d), total |-> NewTotal(r, n, d)]

\* What a client's results account for, in operations and in time: the
\* warm-up interval and the total.
Accounted(r) == (IF r.inter = <<>> THEN 0 ELSE r.inter[1].ops) + r.total.ops

Covered(r) == (IF r.inter = <<>> THEN 0 ELSE r.inter[1].dur) + r.total.dur

-----------------------------------------------------------------------------
(* convertStats and writeTotalStatsFile: the rows of the statistics file.  *)

\* The rows: every interval all the clients have, less the first one.
RowCount(results) == Min({Len(results[c].inter) : c \in Client}) - 1

\* Bug-seeded: the warm-up interval is not skipped when a row is filled.
Row_FromWarmUp(results, i) ==
  [ops |-> SumFunction([c \in Client |-> results[c].inter[i].ops]),
   dur |-> SumFunction([c \in Client |-> results[c].inter[i].dur])
             \div Cardinality(Client)]

\* Row i adds up every client's interval i+1; its time is the average.
Row(results, i) ==
  [ops |-> SumFunction([c \in Client |-> results[c].inter[i + 1].ops]),
   dur |-> SumFunction([c \in Client |-> results[c].inter[i + 1].dur])
             \div Cardinality(Client)]

\* The last line of the file, from the clients' totals.
TotalRow(results) ==
  [ops |-> SumFunction([c \in Client |-> results[c].total.ops]),
   dur |-> SumFunction([c \in Client |-> results[c].total.dur])
             \div Cardinality(Client)]

\* What is written: the rows and, from the totals, the last line.
Report(results) ==
  [rows |-> [i \in 1..RowCount(results) |-> Row(results, i)],
   total |-> TotalRow(results)]

\* The sum of a field over some mixes, from the first-th one on.
SumFrom(first, mixes, field) ==
  SumFunction([i \in first..Len(mixes) |-> mixes[i][field]])
=============================================================================
