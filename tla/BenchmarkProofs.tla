-------------------------- MODULE BenchmarkProofs --------------------------
(* The safety of the measured phase, for any number of clients and any      *)
(* choice of intervals, durations and bounds. The proofs rest on            *)
(* UpdateAccounts, what one collection does to a client's results.          *)
EXTENDS Benchmark, BenchmarkStatsProofs

\* Every variable has its type and every client's clock readings are in order:
\* in particular no time or counter collected
\* is negative, because a client's last collection is never in the future.
TypeInv == TypeOK /\ \A c \in Client : startTime[c] <= lastTime[c] /\ lastTime[c] <= now

\* What a collection leaves in the typed state.
LEMMA CollectIntoType ==
  ASSUME TypeInv, NEW c \in Client, CollectInto(c)
  PROVE  /\ stats' \in [Client -> Results] /\ cur' \in [Client -> Nat]
         /\ flag' \in [Client -> BOOLEAN]
         /\ lastTime' \in [Client -> Nat]
         /\ \A d \in Client : startTime[d] <= lastTime'[d] /\ lastTime'[d] <= now
<1>1. stats[c] \in Results /\ cur[c] \in Nat /\ Elapsed(c) \in Nat
  BY DEF TypeInv, TypeOK, Elapsed
<1>2. UpdateBenchmarkStats(stats[c], cur[c], Elapsed(c)) \in Results
  BY <1>1, UpdateAccounts
<1>3. stats' = [stats EXCEPT ![c] = UpdateBenchmarkStats(stats[c], cur[c], Elapsed(c))]
  BY DEF CollectInto
<1>4. stats' \in [Client -> Results]
  BY <1>2, <1>3 DEF TypeInv, TypeOK
<1>5. /\ cur' \in [Client -> Nat] /\ flag' \in [Client -> BOOLEAN]
      /\ lastTime' \in [Client -> Nat]
  BY DEF TypeInv, TypeOK, CollectInto, ClearCounters, LowerFlag
<1>6. \A d \in Client : startTime[d] <= lastTime'[d] /\ lastTime'[d] <= now
  BY DEF TypeInv, TypeOK, CollectInto
<1> QED BY <1>4, <1>5, <1>6

\* The step of a client keeps the types.
LEMMA ClientStepType ==
  ASSUME TypeInv, NEW c \in Client, ClientStep(c)
  PROVE  TypeInv'
<1>1. CASE Start(c)
  BY <1>1 DEF TypeInv, TypeOK, Start, tickVars, reportVars, mainVars
<1>2. CASE LoopHead(c)
  BY <1>2 DEF TypeInv, TypeOK, LoopHead, tickVars, reportVars, mainVars
<1>3. CASE Collect(c)
  <2>1. CollectInto(c)
    BY <1>3 DEF Collect
  <2> QED
    BY <1>3, <2>1, CollectIntoType
    DEF TypeInv, TypeOK, Collect, tickVars, reportVars, mainVars
<1>4. CASE Operate(c)
  BY <1>4 DEF TypeInv, TypeOK, Operate, tickVars, reportVars, mainVars
<1>5. CASE Leave(c)
  <2>1. CollectInto(c)
    BY <1>5 DEF Leave
  <2> QED
    BY <1>5, <2>1, CollectIntoType
    DEF TypeInv, TypeOK, Leave, tickVars, reportVars, mainVars
<1>6. CASE Send(c)
  BY <1>6 DEF TypeInv, TypeOK, Send, tickVars, mainVars
<1> QED BY <1>1, <1>2, <1>3, <1>4, <1>5, <1>6 DEF ClientStep

\* TypeInv holds in every reachable state, of a system of any size.
THEOREM TypeInvariance == Spec => []TypeInv
<1> USE TimeAssumption
<1>1. Init => TypeInv
  <2>1. EmptyResults \in Results
    BY EmptySeq DEF EmptyResults, Results, Zero, Mix
  <2>2. ASSUME Init PROVE stats \in [Client -> Results]
    BY <2>1, <2>2 DEF Init
  <2>3. ASSUME Init
        PROVE  /\ pc \in [Client -> {"spawned", "loop", "collect", "operate", "leave", "send", "done"}]
               /\ cur \in [Client -> Nat] /\ executed \in [Client -> Nat]
               /\ startTime \in [Client -> Nat] /\ lastTime \in [Client -> Nat]
               /\ flag \in [Client -> BOOLEAN]
               /\ \A c \in Client : startTime[c] <= lastTime[c] /\ lastTime[c] <= now
    BY <2>3 DEF Init
  <2>4. ASSUME Init
        PROVE  /\ now \in Nat /\ nextTick \in Nat /\ ticks \in Nat /\ graceEnd \in Nat
               /\ stop \in BOOLEAN /\ exited \in {"running", "main", "collector", "panicked"}
               /\ chan \in SUBSET Client /\ received \in SUBSET Client
               /\ collector \in {"idle", "collecting", "created", "refused", "written", "unsaved"}
    BY <2>4 DEF Init
  <2> QED BY <2>2, <2>3, <2>4 DEF TypeInv, TypeOK
<1>2. TypeInv /\ [Next]_vars => TypeInv'
  <2> SUFFICES ASSUME TypeInv, [Next]_vars PROVE TypeInv' OBVIOUS
  <2>1. ASSUME NEW c \in Client, ClientStep(c) PROVE TypeInv'
    BY <2>1, ClientStepType
  <2>2. CASE Tick
    BY <2>2 DEF TypeInv, TypeOK, Tick, clientVars, reportVars, mainVars
  <2>3. CASE StopTest
    BY <2>3 DEF TypeInv, TypeOK, StopTest, clientVars, tickVars
  <2>4. CASE MainReturns \/ CollectorExits
    BY <2>4 DEF TypeInv, TypeOK, MainReturns, CollectorExits, clientVars, tickVars, reportVars
  <2>5. CASE Receive
    BY <2>5 DEF TypeInv, TypeOK, Receive, clientVars, tickVars, mainVars
  <2>6. CASE CreateFile \/ WriteFile
    BY <2>6 DEF TypeInv, TypeOK, CreateFile, WriteFile, clientVars, tickVars, mainVars
  <2>7. CASE Advance
    BY <2>7 DEF TypeInv, TypeOK, Advance, clientVars, tickVars, reportVars, mainVars
  <2>8. CASE UNCHANGED vars
    BY <2>8 DEF TypeInv, TypeOK, vars, clientVars, tickVars, reportVars, mainVars
  <2> QED BY <2>1, <2>2, <2>3, <2>4, <2>5, <2>6, <2>7, <2>8 DEF Next, Ended
<1> QED BY <1>1, <1>2, PTL DEF Spec

\* The types alone.
THEOREM TypeCorrect == Spec => []TypeOK
<1>1. TypeInv => TypeOK
  BY DEF TypeInv
<1> QED BY <1>1, TypeInvariance, PTL

-----------------------------------------------------------------------------
\* A step that is no client's leaves every client's own state as it was.
LEMMA OtherSteps ==
  ASSUME [Next]_vars
  PROVE  (\E c \in Client : ClientStep(c)) \/ UNCHANGED clientVars
BY DEF Next, Ended, Tick, StopTest, MainReturns, Receive, CreateFile, WriteFile,
       CollectorExits, Advance, vars

\* A collection moves the pending operations of a client, all of them, into
\* its results, with at most the time since the last one.
LEMMA CollectIntoAccounts ==
  ASSUME TypeInv, NEW c \in Client, CollectInto(c)
  PROVE  /\ stats'[c].inter # <<>>
         /\ Len(stats'[c].inter) <= Len(stats[c].inter) + 1
         /\ Accounted(stats'[c]) = Accounted(stats[c]) + cur[c]
         /\ Covered(stats'[c]) <= Covered(stats[c]) + (now - lastTime[c])
         /\ \A d \in Client \ {c} : stats'[d] = stats[d]
<1>1. stats[c] \in Results /\ cur[c] \in Nat /\ Elapsed(c) \in Nat
  BY DEF TypeInv, TypeOK, Elapsed
<1>2. stats'[c] = UpdateBenchmarkStats(stats[c], cur[c], Elapsed(c))
  BY DEF CollectInto, TypeInv, TypeOK
<1>3. \A d \in Client \ {c} : stats'[d] = stats[d]
  BY DEF CollectInto, TypeInv, TypeOK
<1> QED BY <1>1, <1>2, <1>3, UpdateAccounts DEF Elapsed

\* The numbers a client's results stand for are numbers.
LEMMA ResultNumbers ==
  ASSUME NEW r \in Results
  PROVE  Accounted(r) \in Nat /\ Covered(r) \in Nat /\ Len(r.inter) \in Nat
<1>1. r.inter \in Seq(Mix) /\ r.total \in Mix
  BY DEF Results
<1>2. r.inter # <<>> => r.inter[1] \in Mix
  BY <1>1, EmptySeq, ElementOfSeq
<1>3. /\ r.total.ops \in Nat /\ r.total.dur \in Nat
      /\ r.inter # <<>> => r.inter[1].ops \in Nat /\ r.inter[1].dur \in Nat
  BY <1>1, <1>2 DEF Mix
<1>4. Len(r.inter) \in Nat
  BY <1>1, LenProperties
<1>5. CASE r.inter = <<>> BY <1>3, <1>4, <1>5 DEF Accounted, Covered
<1>6. CASE r.inter # <<>>
  <2>1. /\ Accounted(r) = r.inter[1].ops + r.total.ops
        /\ Covered(r) = r.inter[1].dur + r.total.dur
    BY <1>6 DEF Accounted, Covered
  <2> QED BY <1>3, <1>4, <1>6, <2>1
<1> QED BY <1>5, <1>6

\* No operation is lost or counted twice (Conservation), whatever the order of
\* ticks, operations, collections and merges.
THEOREM ConservationHolds == Spec => []Conservation
<1>1. Init => Conservation
  <2>1. Accounted(EmptyResults) = 0
    BY DEF Accounted, EmptyResults, Zero
  <2>2. ASSUME Init, NEW c \in Client PROVE executed[c] = cur[c] + Accounted(stats[c])
    <3>1. executed[c] = 0 /\ cur[c] = 0 /\ stats[c] = EmptyResults
      BY <2>2 DEF Init
    <3> QED BY <2>1, <3>1
  <2> QED BY <2>2 DEF Conservation
<1>2. TypeInv /\ Conservation /\ [Next]_vars => Conservation'
  <2> SUFFICES ASSUME TypeInv, Conservation, [Next]_vars PROVE Conservation' OBVIOUS
  <2>1. ASSUME NEW c \in Client, CollectInto(c), executed' = executed
        PROVE  Conservation'
    <3>1. cur'[c] = 0 /\ \A d \in Client \ {c} : cur'[d] = cur[d]
      BY <2>1 DEF CollectInto, ClearCounters, TypeInv, TypeOK
    <3>2. /\ Accounted(stats'[c]) = Accounted(stats[c]) + cur[c]
          /\ \A d \in Client \ {c} : stats'[d] = stats[d]
      BY <2>1, CollectIntoAccounts
    <3>3. Accounted(stats[c]) \in Nat /\ cur[c] \in Nat
      BY ResultNumbers DEF TypeInv, TypeOK
    <3>4. executed'[c] = cur'[c] + Accounted(stats'[c])
      BY <2>1, <3>1, <3>2, <3>3 DEF Conservation
    <3>5. ASSUME NEW d \in Client \ {c} PROVE executed'[d] = cur'[d] + Accounted(stats'[d])
      BY <2>1, <3>1, <3>2 DEF Conservation
    <3> QED BY <3>4, <3>5 DEF Conservation
  <2>2. ASSUME NEW c \in Client, Operate(c) PROVE Conservation'
    <3>1. ASSUME NEW d \in Client PROVE executed'[d] = cur'[d] + Accounted(stats'[d])
      <4>1. Accounted(stats[d]) \in Nat /\ stats' = stats
        BY <2>2, ResultNumbers DEF TypeInv, TypeOK, Operate
      <4> QED BY <2>2, <4>1 DEF Operate, Conservation, TypeInv, TypeOK
    <3> QED BY <3>1 DEF Conservation
  <2>3. CASE UNCHANGED <<cur, stats, executed>>
    BY <2>3 DEF Conservation
  <2>4. ASSUME NEW c \in Client, ClientStep(c) PROVE Conservation'
    BY <2>1, <2>2, <2>3, <2>4 DEF ClientStep, Start, LoopHead, Collect, Leave, Send
  <2> QED BY <2>3, <2>4, OtherSteps DEF clientVars
<1> QED BY <1>1, <1>2, TypeInvariance, PTL DEF Spec

-----------------------------------------------------------------------------
\* What TotalWithinRun needs: a client that has not started has no results.
TimeInv == TotalWithinRun /\ \A c \in Client : pc[c] = "spawned" => stats[c] = EmptyResults

\* A client's total never covers more time than the client was measured.
THEOREM TotalWithinRunHolds == Spec => []TotalWithinRun
<1>1. Init => TimeInv
  BY DEF Init, TimeInv, TotalWithinRun, Covered, EmptyResults, Zero
<1>2. TypeInv /\ TimeInv /\ [Next]_vars => TimeInv'
  <2> SUFFICES ASSUME TypeInv, TimeInv, [Next]_vars PROVE TimeInv' OBVIOUS
  <2>1. ASSUME NEW c \in Client, CollectInto(c), startTime' = startTime,
               pc[c] # "spawned", NEW l \in {"operate", "loop", "send"},
               pc' = [pc EXCEPT ![c] = l]
        PROVE  TimeInv'
    <3>1. /\ Covered(stats'[c]) <= Covered(stats[c]) + (now - lastTime[c])
          /\ \A d \in Client \ {c} : stats'[d] = stats[d]
      BY <2>1, CollectIntoAccounts
    <3>2. lastTime'[c] = now /\ \A d \in Client \ {c} : lastTime'[d] = lastTime[d]
      BY <2>1 DEF CollectInto, TypeInv, TypeOK
    <3>3. /\ stats[c] \in Results /\ stats'[c] \in Results
          /\ now \in Nat /\ lastTime[c] \in Nat /\ startTime[c] \in Nat
      BY <2>1, CollectIntoType DEF TypeInv, TypeOK
    <3>4. Covered(stats[c]) \in Nat /\ Covered(stats'[c]) \in Nat
      BY <3>3, ResultNumbers
    <3>5. Covered(stats[c]) <= lastTime[c] - startTime[c]
      BY DEF TimeInv, TotalWithinRun
    <3>6. Covered(stats'[c]) <= lastTime'[c] - startTime'[c]
      BY <2>1, <3>1, <3>2, <3>3, <3>4, <3>5
    <3>7. \A d \in Client \ {c} : Covered(stats'[d]) <= lastTime'[d] - startTime'[d]
      BY <2>1, <3>1, <3>2 DEF TimeInv, TotalWithinRun
    <3>8. TotalWithinRun'
      BY <3>6, <3>7 DEF TotalWithinRun
    <3>9. \A d \in Client : pc'[d] = "spawned" => d # c /\ pc[d] = "spawned"
      BY <2>1 DEF TypeInv, TypeOK
    <3> QED BY <3>1, <3>8, <3>9 DEF TimeInv
  <2>2. ASSUME NEW c \in Client, Start(c) PROVE TimeInv'
    <3>1. stats[c] = EmptyResults
      BY <2>2 DEF Start, TimeInv
    <3>2. Covered(EmptyResults) = 0
      BY DEF Covered, EmptyResults, Zero
    <3> QED
      BY <2>2, <3>1, <3>2 DEF Start, TimeInv, TotalWithinRun, TypeInv, TypeOK
  <2>3. ASSUME NEW c \in Client, LoopHead(c) \/ Operate(c) \/ Send(c) PROVE TimeInv'
    BY <2>3 DEF LoopHead, Operate, Send, TimeInv, TotalWithinRun, TypeInv, TypeOK
  <2>4. CASE UNCHANGED clientVars
    BY <2>4 DEF TimeInv, TotalWithinRun, clientVars
  <2>5. ASSUME NEW c \in Client, Collect(c) \/ Leave(c) PROVE TimeInv'
    BY <2>1, <2>5 DEF Collect, Leave
  <2> QED BY <2>2, <2>3, <2>4, <2>5, OtherSteps DEF ClientStep
<1>3. TimeInv => TotalWithinRun
  BY DEF TimeInv
<1> QED BY <1>1, <1>2, <1>3, TypeInvariance, PTL DEF Spec

-----------------------------------------------------------------------------
\* A raised flag stands for a tick whose interval is still to come, and a
\* client on its way to a collection has its flag up: nobody else lowers it.
Raised(c) == IF flag[c] THEN 1 ELSE 0

Left(c) == IF pc[c] \in {"send", "done"} THEN 1 ELSE 0

TickInv ==
  \A c \in Client : /\ pc[c] = "collect" => flag[c]
                    /\ Len(stats[c].inter) + Raised(c) <= ticks + Left(c)

\* A client opens at most one interval for each tick, and one when it leaves.
THEOREM OneIntervalPerTickHolds == Spec => []OneIntervalPerTick
<1>1. Init => TickInv
  <2>1. ASSUME Init, NEW c \in Client
        PROVE  pc[c] # "collect" /\ Len(stats[c].inter) + Raised(c) <= ticks + Left(c)
    <3>1. /\ stats[c].inter = <<>> /\ flag[c] = FALSE /\ pc[c] = "spawned" /\ ticks = 0
      BY <2>1 DEF Init, EmptyResults
    <3>2. Len(stats[c].inter) = 0
      BY <3>1
    <3> QED BY <3>1, <3>2 DEF Raised, Left
  <2> QED BY <2>1 DEF TickInv
<1>2. TypeInv /\ TickInv /\ [Next]_vars => TickInv'
  <2> SUFFICES ASSUME TypeInv, TickInv, [Next]_vars,
                      NEW c \in Client
               PROVE  /\ pc'[c] = "collect" => flag'[c]
                      /\ Len(stats'[c].inter) + Raised(c)' <= ticks' + Left(c)'
    BY DEF TickInv
  <2>1. /\ Len(stats[c].inter) \in Nat /\ ticks \in Nat
        /\ pc[c] = "collect" => flag[c]
        /\ Len(stats[c].inter) + Raised(c) <= ticks + Left(c)
    BY ResultNumbers DEF TypeInv, TypeOK, TickInv
  <2>2. Raised(c) \in {0, 1} /\ Left(c) \in {0, 1}
    BY DEF Raised, Left
  <2>3. ASSUME NEW d \in Client, ClientStep(d), d # c
        PROVE  stats'[c] = stats[c] /\ flag'[c] = flag[c] /\ pc'[c] = pc[c] /\ ticks' = ticks
    BY <2>3 DEF ClientStep, Start, LoopHead, Collect, Operate, Leave, Send, CollectInto,
                ClearCounters, LowerFlag, TypeInv, TypeOK, tickVars
  <2>4. ASSUME CollectInto(c), ticks' = ticks,
               \/ pc[c] = "collect" /\ pc'[c] \in {"operate", "loop"}
               \/ pc[c] = "leave" /\ pc'[c] = "send"
        PROVE  /\ pc'[c] = "collect" => flag'[c]
               /\ Len(stats'[c].inter) + Raised(c)' <= ticks' + Left(c)'
    <3>1. stats'[c] \in Results /\ Len(stats'[c].inter) <= Len(stats[c].inter) + 1
      BY <2>4, CollectIntoAccounts, CollectIntoType
    <3>2. flag'[c] = FALSE
      BY <2>4 DEF CollectInto, LowerFlag, TypeInv, TypeOK
    <3>3. Len(stats'[c].inter) \in Nat /\ Raised(c)' = 0
      BY <3>1, <3>2, ResultNumbers DEF Raised
    <3>4. CASE pc[c] = "collect" /\ pc'[c] \in {"operate", "loop"}
      <4>1. Raised(c) = 1 /\ Left(c) = 0 /\ Left(c)' = 0
        BY <2>1, <3>4 DEF Raised, Left
      <4> QED BY <2>1, <2>4, <3>1, <3>3, <3>4, <4>1
    <3>5. CASE pc[c] = "leave" /\ pc'[c] = "send"
      <4>1. Left(c) = 0 /\ Left(c)' = 1
        BY <3>5 DEF Left
      <4> QED BY <2>1, <2>2, <2>4, <3>1, <3>3, <3>5, <4>1
    <3> QED BY <2>4, <3>4, <3>5
  <2>5. CASE Collect(c) \/ Leave(c)
    <3>1. CollectInto(c) /\ ticks' = ticks
      BY <2>5 DEF Collect, Leave, tickVars
    <3>2. \/ pc[c] = "collect" /\ pc'[c] \in {"operate", "loop"}
          \/ pc[c] = "leave" /\ pc'[c] = "send"
      BY <2>5 DEF Collect, Leave, TypeInv, TypeOK
    <3> QED BY <2>4, <3>1, <3>2
  <2>6. CASE Start(c) \/ LoopHead(c) \/ Operate(c) \/ Send(c)
    <3>1. stats' = stats /\ flag' = flag /\ ticks' = ticks
      BY <2>6 DEF Start, LoopHead, Operate, Send, tickVars
    <3>2. Left(c)' = Left(c) /\ (pc'[c] = "collect" => flag[c])
      BY <2>6 DEF Start, LoopHead, Operate, Send, Left, TypeInv, TypeOK
    <3>3. Raised(c)' = Raised(c)
      BY <3>1 DEF Raised
    <3> QED BY <2>1, <3>1, <3>2, <3>3
  <2>7. CASE Tick
    <3>1. /\ flag'[c] = TRUE /\ ticks' = ticks + 1 /\ stats' = stats /\ pc' = pc
      BY <2>7 DEF Tick, clientVars
    <3>2. Raised(c)' = 1 /\ Left(c)' = Left(c)
      BY <3>1 DEF Raised, Left
    <3> QED BY <2>1, <2>2, <3>1, <3>2
  <2>8. CASE UNCHANGED <<stats, pc, flag, ticks>>
    BY <2>1, <2>8 DEF Raised, Left
  <2>9. ASSUME NEW d \in Client, ClientStep(d)
        PROVE  /\ pc'[c] = "collect" => flag'[c]
               /\ Len(stats'[c].inter) + Raised(c)' <= ticks' + Left(c)'
    <3>1. CASE d = c
      BY <2>5, <2>6, <2>9, <3>1 DEF ClientStep
    <3>2. CASE d # c
      <4>1. stats'[c] = stats[c] /\ flag'[c] = flag[c] /\ pc'[c] = pc[c] /\ ticks' = ticks
        BY <2>3, <2>9, <3>2
      <4> QED BY <2>1, <4>1 DEF Raised, Left
    <3> QED BY <3>1, <3>2
  <2>10. (\E d \in Client : ClientStep(d)) \/ Tick \/ UNCHANGED <<stats, pc, flag, ticks>>
    BY DEF Next, Ended, StopTest, MainReturns, Receive, CreateFile, WriteFile,
           CollectorExits, Advance, vars, clientVars, tickVars
  <2> QED BY <2>7, <2>8, <2>9, <2>10
<1>3. TypeInv /\ TickInv => OneIntervalPerTick
  <2> SUFFICES ASSUME TypeInv, TickInv, NEW c \in Client
               PROVE  Len(stats[c].inter) <= ticks + Left(c)
    BY DEF OneIntervalPerTick, Left
  <2>1. Len(stats[c].inter) \in Nat /\ ticks \in Nat
    BY ResultNumbers DEF TypeInv, TypeOK
  <2>2. Raised(c) \in {0, 1} /\ Left(c) \in {0, 1}
    BY DEF Raised, Left
  <2>3. Len(stats[c].inter) + Raised(c) <= ticks + Left(c)
    BY DEF TickInv
  <2> QED BY <2>1, <2>2, <2>3
<1> QED BY <1>1, <1>2, <1>3, TypeInvariance, PTL DEF Spec

-----------------------------------------------------------------------------
\* A client that is finished has handed everything over; only such clients
\* are in the channel or received; the file waits for all of them.
ReportInv ==
  /\ \A c \in Client :
       /\ pc[c] \in {"send", "done"} => cur[c] = 0 /\ stats[c].inter # <<>>
       /\ c \in chan \cup received => pc[c] = "done"
  /\ collector \in {"created", "refused", "written", "unsaved"} => received = Client

\* The statistics file is made of finished results only, with nothing
\* uncounted and at least one interval each.
THEOREM ReportCompleteHolds == Spec => []ReportComplete
<1>1. Init => ReportInv
  BY DEF Init, ReportInv
<1>2. TypeInv /\ ReportInv /\ [Next]_vars => ReportInv'
  <2> SUFFICES ASSUME TypeInv, ReportInv, [Next]_vars PROVE ReportInv' OBVIOUS
  <2>1. ASSUME NEW c \in Client, Collect(c) \/ Leave(c) PROVE ReportInv'
    <3>1. CollectInto(c) /\ pc[c] \in {"collect", "leave"} /\ UNCHANGED <<chan, received, collector>>
      BY <2>1 DEF Collect, Leave, reportVars
    <3>2. stats'[c].inter # <<>> /\ \A d \in Client \ {c} : stats'[d] = stats[d]
      BY <3>1, CollectIntoAccounts
    <3>3. cur'[c] = 0 /\ \A d \in Client \ {c} : cur'[d] = cur[d]
      BY <3>1 DEF CollectInto, ClearCounters, TypeInv, TypeOK
    <3>4. /\ pc'[c] # "done" /\ \A d \in Client \ {c} : pc'[d] = pc[d]
      BY <2>1 DEF Collect, Leave, TypeInv, TypeOK
    <3> QED BY <3>1, <3>2, <3>3, <3>4 DEF ReportInv
  <2>2. ASSUME NEW c \in Client, Start(c) \/ LoopHead(c) \/ Operate(c) PROVE ReportInv'
    BY <2>2 DEF Start, LoopHead, Operate, ReportInv, TypeInv, TypeOK, reportVars
  <2>3. ASSUME NEW c \in Client, Send(c) PROVE ReportInv'
    BY <2>3 DEF Send, ReportInv, TypeInv, TypeOK
  <2>4. CASE Receive
    BY <2>4 DEF Receive, ReportInv, clientVars
  <2>5. CASE CreateFile \/ WriteFile
    BY <2>5 DEF CreateFile, AllReceived, WriteFile, ReportInv, clientVars
  <2>6. CASE StopTest
    BY <2>6 DEF StopTest, ReportInv, clientVars
  <2>7. CASE UNCHANGED <<clientVars, reportVars>>
    BY <2>7 DEF ReportInv, clientVars, reportVars
  <2> QED
    BY <2>1, <2>2, <2>3, <2>4, <2>5, <2>6, <2>7
    DEF Next, ClientStep, Ended, Tick, MainReturns, CollectorExits, Advance, vars
<1>3. ReportInv /\ Conservation /\ TypeInv => ReportComplete
  <2> SUFFICES ASSUME ReportInv, Conservation, TypeInv,
                      collector \in {"created", "refused", "written", "unsaved"}, NEW c \in Client
               PROVE  /\ pc[c] = "done" /\ stats[c].inter # <<>>
                      /\ executed[c] = Accounted(stats[c])
    BY DEF ReportComplete
  <2>1. pc[c] = "done" /\ cur[c] = 0 /\ stats[c].inter # <<>>
    BY DEF ReportInv
  <2>2. Accounted(stats[c]) \in Nat
    BY ResultNumbers DEF TypeInv, TypeOK
  <2> QED BY <2>1, <2>2 DEF Conservation
<1> QED BY <1>1, <1>2, <1>3, TypeInvariance, ConservationHolds, PTL DEF Spec

-----------------------------------------------------------------------------
\* A client's total is the sum of its intervals after the first, and its
\* intervals cover its time: what TotalIsSumOfIntervals and IntervalsTile need to
\* be inductive is that they hold of the empty list as well, and that a client
\* that has not started has no results.
SumInv ==
  \A c \in Client :
    /\ pc[c] = "spawned" => stats[c] = EmptyResults
    /\ stats[c].total.ops = SumFrom(2, stats[c].inter, "ops")
    /\ SumFrom(1, stats[c].inter, "dur") = lastTime[c] - startTime[c]

\* A collection makes a total and intervals that are as in SumInv.
LEMMA CollectIntoSums ==
  ASSUME TypeInv, SumInv, NEW c \in Client, CollectInto(c), startTime' = startTime
  PROVE  /\ stats'[c].total.ops = SumFrom(2, stats'[c].inter, "ops")
         /\ SumFrom(1, stats'[c].inter, "dur") = lastTime'[c] - startTime'[c]
<1> DEFINE r == stats[c]
           n == cur[c]
           d == Elapsed(c)
           new == NewIntervals(r, n, d)
<1>1. /\ r \in Results /\ n \in Nat /\ d \in Nat /\ d = now - lastTime[c]
      /\ now \in Nat /\ lastTime[c] \in Nat /\ startTime[c] \in Nat
  BY DEF TypeInv, TypeOK, Elapsed
<1>2. stats'[c].inter = new /\ stats'[c].total = NewTotal(r, n, d) /\ lastTime'[c] = now
  BY DEF CollectInto, TypeInv, TypeOK, UpdateBenchmarkStats
<1>3. new \in Seq(Mix) /\ new # <<>>
  BY <1>1, UpdateIntervals
<1>4. Len(new) \in Nat \ {0}
  BY <1>3, LenProperties, EmptySeq
<1>5. SumFrom(1, new, "dur") = SumFrom(1, r.inter, "dur") + d
  BY <1>1, <1>4, SumFromUpdate
<1>6. SumFrom(2, new, "ops") = SumFrom(2, r.inter, "ops") + (IF Len(new) >= 2 THEN n ELSE 0)
  BY <1>1, SumFromUpdate
<1>7. SumFrom(2, r.inter, "ops") \in Nat /\ r.total.ops \in Nat
  BY <1>1, SumFromIs DEF Results, Mix
<1>8. NewTotal(r, n, d).ops = r.total.ops + (IF Len(new) >= 2 THEN n ELSE 0)
  <2> HIDE DEF r, n, d
  <2> QED BY <1>4, <1>7 DEF NewTotal, Plus
<1>9. r.total.ops = SumFrom(2, r.inter, "ops") /\ SumFrom(1, r.inter, "dur") = lastTime[c] - startTime[c]
  BY DEF SumInv
<1> HIDE DEF r, n, d, new
<1> QED BY <1>1, <1>2, <1>5, <1>6, <1>7, <1>8, <1>9

\* SumInv holds in every reachable state.
THEOREM SumInvariance == Spec => []SumInv
<1>1. Init => SumInv
  <2>1. ASSUME Init, NEW c \in Client
        PROVE  stats[c] = EmptyResults /\ lastTime[c] = 0 /\ startTime[c] = 0
    BY <2>1 DEF Init
  <2> QED BY <2>1, SumFromEmpty DEF SumInv, EmptyResults, Zero
<1>2. TypeInv /\ SumInv /\ [Next]_vars => SumInv'
  <2> SUFFICES ASSUME TypeInv, SumInv, [Next]_vars PROVE SumInv' OBVIOUS
  <2>1. ASSUME NEW c \in Client, Collect(c) \/ Leave(c) PROVE SumInv'
    <3>1. CollectInto(c) /\ startTime' = startTime
      BY <2>1 DEF Collect, Leave
    <3>2. /\ \A d \in Client \ {c} : stats'[d] = stats[d] /\ lastTime'[d] = lastTime[d]
      BY <3>1 DEF CollectInto, TypeInv, TypeOK
    <3>3. \A d \in Client : pc'[d] = "spawned" => d # c /\ pc[d] = "spawned"
      BY <2>1 DEF Collect, Leave, TypeInv, TypeOK
    <3>4. /\ stats'[c].total.ops = SumFrom(2, stats'[c].inter, "ops")
          /\ SumFrom(1, stats'[c].inter, "dur") = lastTime'[c] - startTime'[c]
      BY <3>1, CollectIntoSums
    <3>5. ASSUME NEW d \in Client
          PROVE  /\ pc'[d] = "spawned" => stats'[d] = EmptyResults
                 /\ stats'[d].total.ops = SumFrom(2, stats'[d].inter, "ops")
                 /\ SumFrom(1, stats'[d].inter, "dur") = lastTime'[d] - startTime'[d]
      BY <3>1, <3>2, <3>3, <3>4 DEF SumInv
    <3> QED BY <3>5 DEF SumInv
  <2>2. ASSUME NEW c \in Client, Start(c) PROVE SumInv'
    <3>1. /\ stats' = stats /\ stats[c].inter = <<>>
          /\ \A d \in Client : pc'[d] = "spawned" => pc[d] = "spawned"
          /\ lastTime'[c] = now /\ startTime'[c] = now
          /\ \A d \in Client \ {c} : lastTime'[d] = lastTime[d] /\ startTime'[d] = startTime[d]
      BY <2>2 DEF Start, SumInv, EmptyResults, TypeInv, TypeOK
    <3>2. SumFrom(1, <<>>, "dur") = now - now
      BY SumFromEmpty DEF TypeInv, TypeOK
    <3>3. ASSUME NEW d \in Client
          PROVE  /\ pc'[d] = "spawned" => stats'[d] = EmptyResults
                 /\ stats'[d].total.ops = SumFrom(2, stats'[d].inter, "ops")
                 /\ SumFrom(1, stats'[d].inter, "dur") = lastTime'[d] - startTime'[d]
      BY <3>1, <3>2 DEF SumInv
    <3> QED BY <3>3 DEF SumInv
  <2>3. ASSUME NEW c \in Client, LoopHead(c) \/ Operate(c) \/ Send(c) PROVE SumInv'
    <3>1. /\ stats' = stats /\ lastTime' = lastTime /\ startTime' = startTime
          /\ \A d \in Client : pc'[d] = "spawned" => pc[d] = "spawned"
      BY <2>3 DEF LoopHead, Operate, Send, TypeInv, TypeOK
    <3> QED BY <3>1 DEF SumInv
  <2>4. CASE UNCHANGED clientVars
    BY <2>4 DEF SumInv, clientVars
  <2> QED BY <2>1, <2>2, <2>3, <2>4, OtherSteps DEF ClientStep
<1> QED BY <1>1, <1>2, TypeInvariance, PTL DEF Spec

\* The total of a client is the sum of its intervals but the warm-up, however
\* many collections, merges among them, have made it (updateBenchmarkStats).
THEOREM TotalIsSumHolds == Spec => []TotalIsSumOfIntervals
<1>1. SumInv => TotalIsSumOfIntervals
  BY DEF SumInv, TotalIsSumOfIntervals
<1> QED BY <1>1, SumInvariance, PTL

\* The intervals of a client cover its time without gap or overlap, late ticks
\* and lost ones notwithstanding (doBench, updateBenchmarkStats).
THEOREM IntervalsTileHolds == Spec => []IntervalsTile
<1>1. SumInv => IntervalsTile
  BY DEF SumInv, IntervalsTile
<1> QED BY <1>1, SumInvariance, PTL

\* The rows of the statistics file add up to at most its last line, and to just
\* that if all clients have as many intervals (convertStats, writeTotalStatsFile).
THEOREM RowsAgreeHolds == Spec => []RowsAgreeWithTotal
<1>1. TypeInv /\ SumInv /\ ReportComplete => RowsAgreeWithTotal
  <2> SUFFICES ASSUME TypeInv, SumInv, ReportComplete, collector = "written"
               PROVE  LET report == Report(stats)
                          shown == SumFrom(1, report.rows, "ops") IN
                        /\ shown <= report.total.ops
                        /\ Cardinality({Len(stats[c].inter) : c \in Client}) = 1
                             => shown = report.total.ops
    BY DEF RowsAgreeWithTotal
  <2>1. Reportable(stats)
    BY DEF Reportable, TypeInv, TypeOK, SumInv, ReportComplete
  <2> QED BY <2>1, RowsAgree
<1> QED BY <1>1, TypeInvariance, SumInvariance, ReportCompleteHolds, PTL
=============================================================================
