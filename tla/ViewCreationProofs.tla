------------------------- MODULE ViewCreationProofs -------------------------
(* The creation of the views, for every number of dates and years and every *)
(* choice of queries.                                                       *)
EXTENDS ViewCreation, FiniteSetTheorems, TLAPS

\* The jobs of a query are finitely many numbers; those waited for are among them.
LEMMA JobsFacts ==
  ASSUME NEW q \in Queries
  PROVE  /\ IsFiniteSet(Jobs(q)) /\ Jobs(q) \subseteq Nat /\ Awaited(q) \in Nat
         /\ Capacity(q) = Awaited(q)
         /\ Inline(q) => Jobs(q) = {1} /\ Awaited(q) = 1
<1>1. IsFiniteSet({1}) BY FS_Singleton
<1>2. Jobs(q) \in {{1}, 0..Q3Dates, 1..Q5Years, 1..Q14Years}
  BY DEF Jobs, Inline, Queries
<1>3. IsFiniteSet(0..Q3Dates) /\ IsFiniteSet(1..Q5Years) /\ IsFiniteSet(1..Q14Years)
  BY FS_Interval, SizesAssumption
<1>4. Jobs(q) \subseteq Nat BY <1>2, SizesAssumption
<1>5. Awaited(q) \in Nat BY SizesAssumption DEF Awaited, Inline, Queries
<1>6. Inline(q) => Jobs(q) = {1} /\ Awaited(q) = 1 BY DEF Jobs, Awaited
<1> QED BY <1>1, <1>2, <1>3, <1>4, <1>5, <1>6 DEF Capacity

\* The jobs are those of the configuration, which does not change.
LEMMA SameJobs ==
  ASSUME TypeOK, UNCHANGED config
  PROVE  /\ AllJobs' = AllJobs /\ selected' = selected /\ redirect' = redirect
         /\ \A q \in selected : /\ Jobs(q)' = Jobs(q) /\ Inline(q)' = Inline(q)
                               /\ Awaited(q)' = Awaited(q) /\ Capacity(q)' = Capacity(q)
<1>1. redirect' = redirect /\ selected' = selected BY DEF redirect, selected
<1>2. \A q : Inline(q)' = Inline(q) BY <1>1 DEF Inline
<1>3. selected \subseteq Queries BY ConfigurationsAssumption DEF selected
<1>4. ASSUME NEW q \in selected PROVE Jobs(q)' = Jobs(q)
  <2>1. CASE Inline(q) BY <1>2, <2>1 DEF Jobs
  <2>2. CASE ~Inline(q)
    <3>1. q \in {"q3", "q5", "q14"} BY <2>2 DEF Inline
    <3> QED BY <1>2, <2>2, <3>1 DEF Jobs
  <2> QED BY <2>1, <2>2
<1>5. ASSUME NEW q \in selected PROVE Awaited(q)' = Awaited(q) /\ Capacity(q)' = Capacity(q)
  <2>1. CASE Inline(q) BY <1>2, <2>1 DEF Awaited, Capacity
  <2>2. CASE ~Inline(q)
    <3>1. q \in {"q3", "q5", "q14"} BY <2>2 DEF Inline
    <3> QED BY <1>2, <2>2, <3>1 DEF Awaited, Capacity
  <2> QED BY <2>1, <2>2
<1>6. AllJobs' = AllJobs BY <1>1, <1>4 DEF AllJobs
<1> QED BY <1>1, <1>2, <1>4, <1>5, <1>6

\* The jobs of all queries are the pairs of a query and one of its jobs.
LEMMA JobOf ==
  ASSUME TypeOK, NEW q \in selected, NEW i \in Jobs(q)
  PROVE  <<q, i>> \in AllJobs /\ q \in Queries /\ i \in Nat
<1>1. q \in Queries BY ConfigurationsAssumption DEF selected
<1> QED BY <1>1, JobsFacts DEF AllJobs

\* The selected queries are finitely many.
LEMMA SelectedFinite == TypeOK => IsFiniteSet(selected) /\ selected \subseteq Queries
<1> SUFFICES ASSUME TypeOK PROVE IsFiniteSet(selected) /\ selected \subseteq Queries OBVIOUS
<1>1. selected \subseteq Queries BY ConfigurationsAssumption DEF selected
<1>2. ASSUME NEW x, NEW y PROVE IsFiniteSet({x, y})
  <2>1. IsFiniteSet({x} \cup {y}) BY FS_Singleton, FS_Union
  <2> QED BY <2>1
<1>3. IsFiniteSet({"q1", "q3"} \cup {"q5", "q6"}) BY <1>2, FS_Union
<1>4. IsFiniteSet({"q11", "q14"} \cup {"q15", "q18"}) BY <1>2, FS_Union
<1>5. IsFiniteSet(({"q1", "q3"} \cup {"q5", "q6"}) \cup ({"q11", "q14"} \cup {"q15", "q18"}))
  BY <1>3, <1>4, FS_Union
<1>6. Queries = ({"q1", "q3"} \cup {"q5", "q6"}) \cup ({"q11", "q14"} \cup {"q15", "q18"})
  BY DEF Queries
<1>7. IsFiniteSet(selected) BY <1>1, <1>5, <1>6, FS_Subset
<1> QED BY <1>1, <1>7

-----------------------------------------------------------------------------

\* The first state has the types.
LEMMA InitType == Init => TypeOK
<1> SUFFICES ASSUME Init PROVE TypeOK OBVIOUS
<1>1. selected \subseteq Queries BY ConfigurationsAssumption DEF selected
<1>2. ASSUME NEW q \in selected
      PROVE  chan[q] = {} /\ got[q] = {} /\ Cardinality(chan[q]) <= Capacity(q)
  BY <1>1, <1>2, JobsFacts, FS_EmptySet DEF Init
<1>3. /\ chan \in [selected -> SUBSET Nat] /\ got \in [selected -> SUBSET Nat]
      /\ notifyChan \subseteq selected /\ notified \subseteq selected
  BY DEF Init
<1>4. /\ config \in Configurations
      /\ main \in {"creating", "querying", "exited", "panicked"}
  BY DEF Init
<1>5. /\ maker \in [selected -> {"started", "waiting", "returned", "done"}]
      /\ success \in [selected -> BOOLEAN]
      /\ report \in [selected -> {"none", "success", "silent"}]
  BY DEF Init
<1>6. /\ job \in [AllJobs -> {"none", "running", "signalling", "done"}]
      /\ outcome \in [AllJobs -> {"pending", "ok", "failed"}]
  BY DEF Init
<1> QED BY <1>2, <1>3, <1>4, <1>5, <1>6 DEF TypeOK

\* Every step keeps them: no channel gets more signals than it has room for.
LEMMA StepType == TypeOK /\ [Next]_vars => TypeOK'
<1> SUFFICES ASSUME TypeOK, [Next]_vars PROVE TypeOK' OBVIOUS
<1>0. selected \subseteq Queries BY SelectedFinite
<1>a. ASSUME UNCHANGED config, UNCHANGED <<chan, got>>,
             maker' \in [selected -> {"started", "waiting", "returned", "done"}],
             job' \in [AllJobs -> {"none", "running", "signalling", "done"}],
             outcome' \in [AllJobs -> {"pending", "ok", "failed"}],
             success' \in [selected -> BOOLEAN],
             report' \in [selected -> {"none", "success", "silent"}],
             notifyChan' \subseteq selected, notified' \subseteq selected,
             main' \in {"creating", "querying", "exited", "panicked"}
      PROVE  TypeOK'
  <2>1. \A q \in selected : Jobs(q)' = Jobs(q) /\ Capacity(q)' = Capacity(q)
    BY <1>a, SameJobs
  <2>2. AllJobs' = AllJobs /\ selected' = selected BY <1>a, SameJobs
  <2> QED BY <1>a, <2>1, <2>2 DEF TypeOK
<1> USE DEF queryVars
<1>1. ASSUME NEW q \in selected, NEW i \in Jobs(q), RunJob(q, i) PROVE TypeOK'
  <2>1. success' \in [selected -> BOOLEAN] BY <1>1 DEF RunJob, Record, TypeOK
  <2>2. outcome' \in [AllJobs -> {"pending", "ok", "failed"}] BY <1>1 DEF RunJob, TypeOK
  <2>3. job' \in [AllJobs -> {"none", "running", "signalling", "done"}]
    BY <1>1 DEF RunJob, TypeOK
  <2> QED BY <1>1, <1>a, <2>1, <2>2, <2>3 DEF RunJob, TypeOK
<1>2. ASSUME NEW q \in selected, NEW i \in Jobs(q), SignalJob(q, i) PROVE TypeOK'
  <2>1. /\ UNCHANGED <<config, maker, outcome, success, report, got, notifyChan, notified, main>>
        /\ chan' = [chan EXCEPT ![q] = @ \cup {i}] /\ Cardinality(chan[q]) < Capacity(q)
        /\ job' = [job EXCEPT ![<<q, i>>] = "done"]
    BY <1>2 DEF SignalJob, HasRoom
  <2>2. i \in Nat BY JobOf
  <2>3. chan' \in [selected -> SUBSET Nat] BY <2>1, <2>2 DEF TypeOK
  <2>4. ASSUME NEW r \in selected
        PROVE  chan'[r] \subseteq Jobs(r) /\ Cardinality(chan'[r]) <= Capacity(r)
    <3>1. CASE r = q
      <4>1. chan'[q] = chan[q] \cup {i} /\ chan[q] \subseteq Jobs(q) BY <2>1 DEF TypeOK
      <4>2. IsFiniteSet(chan[q]) BY <1>0, <4>1, JobsFacts, FS_Subset
      <4>3. Cardinality(chan[q]) \in Nat /\ Capacity(q) \in Nat
        BY <1>0, <4>2, FS_CardinalityType, JobsFacts
      <4>4. Cardinality(chan'[q]) <= Cardinality(chan[q]) + 1
        <5>1. Cardinality(chan[q] \cup {i}) =
                IF i \in chan[q] THEN Cardinality(chan[q]) ELSE Cardinality(chan[q]) + 1
          BY <4>2, FS_AddElement
        <5> QED BY <4>1, <4>3, <5>1
      <4>5. Cardinality(chan'[q]) \in Nat
        BY <4>1, <4>2, FS_AddElement, FS_CardinalityType
      <4> QED BY <2>1, <3>1, <4>1, <4>3, <4>4, <4>5
    <3>2. CASE r # q BY <2>1, <3>2 DEF TypeOK
    <3> QED BY <3>1, <3>2
  <2>5. job' \in [AllJobs -> {"none", "running", "signalling", "done"}] BY <2>1 DEF TypeOK
  <2>6. \A r \in selected : Jobs(r)' = Jobs(r) /\ Capacity(r)' = Capacity(r)
    BY <2>1, SameJobs
  <2>7. AllJobs' = AllJobs BY <2>1, SameJobs
  <2>8. ASSUME NEW r \in selected
        PROVE  /\ chan'[r] \subseteq Jobs(r)' /\ got'[r] \subseteq Jobs(r)'
               /\ Cardinality(chan'[r]) <= Capacity(r)'
    <3>1. got'[r] \subseteq Jobs(r) BY <2>1 DEF TypeOK
    <3> QED BY <2>4, <2>6, <3>1
  <2>9. selected' = selected BY <2>1, SameJobs
  <2>10. \A r \in selected' : (/\ chan[r] \subseteq Jobs(r) /\ got[r] \subseteq Jobs(r)
                              /\ Cardinality(chan[r]) <= Capacity(r))'
    BY <2>8, <2>9
  <2> QED BY <2>1, <2>3, <2>5, <2>7, <2>9, <2>10 DEF TypeOK
<1>3. ASSUME NEW q \in selected, StartJobs(q) PROVE TypeOK'
  <2>1. job' \in [AllJobs -> {"none", "running", "signalling", "done"}]
    BY <1>3 DEF StartJobs, TypeOK
  <2>2. maker' \in [selected -> {"started", "waiting", "returned", "done"}]
    BY <1>3 DEF StartJobs, TypeOK
  <2> QED BY <1>3, <1>a, <2>1, <2>2 DEF StartJobs, TypeOK
<1>4. ASSUME NEW q \in selected, AwaitJob(q) PROVE TypeOK'
  <2>1. PICK i \in chan[q] : /\ chan' = [chan EXCEPT ![q] = @ \ {i}]
                             /\ got' = [got EXCEPT ![q] = @ \cup {i}]
    BY <1>4 DEF AwaitJob
  <2>2. UNCHANGED <<config, maker, job, outcome, success, report, notifyChan, notified, main>>
    BY <1>4 DEF AwaitJob
  <2>3. i \in Nat /\ i \in Jobs(q) BY <2>1 DEF TypeOK
  <2>4. chan' \in [selected -> SUBSET Nat] /\ got' \in [selected -> SUBSET Nat]
    BY <2>1, <2>3 DEF TypeOK
  <2>5. ASSUME NEW r \in selected
        PROVE  /\ chan'[r] \subseteq Jobs(r) /\ got'[r] \subseteq Jobs(r)
               /\ Cardinality(chan'[r]) <= Capacity(r)
    <3>1. CASE r = q
      <4>1. chan'[q] = chan[q] \ {i} /\ chan[q] \subseteq Jobs(q) BY <2>1 DEF TypeOK
      <4>2. IsFiniteSet(chan[q]) BY <1>0, <4>1, JobsFacts, FS_Subset
      <4>3. /\ Cardinality(chan[q]) \in Nat /\ Capacity(q) \in Nat
            /\ Cardinality(chan[q]) <= Capacity(q)
        BY <1>0, <4>2, FS_CardinalityType, JobsFacts DEF TypeOK
      <4>4. Cardinality(chan'[q]) <= Cardinality(chan[q]) /\ Cardinality(chan'[q]) \in Nat
        BY <4>1, <4>2, FS_Subset, FS_CardinalityType
      <4>5. got'[q] = got[q] \cup {i} /\ got[q] \subseteq Jobs(q) BY <2>1 DEF TypeOK
      <4> QED BY <2>3, <3>1, <4>1, <4>3, <4>4, <4>5
    <3>2. CASE r # q BY <2>1, <3>2 DEF TypeOK
    <3> QED BY <3>1, <3>2
  <2>6. \A r \in selected : Jobs(r)' = Jobs(r) /\ Capacity(r)' = Capacity(r)
    BY <2>2, SameJobs
  <2>7. AllJobs' = AllJobs /\ selected' = selected BY <2>2, SameJobs
  <2> QED BY <2>2, <2>4, <2>5, <2>6, <2>7 DEF TypeOK
<1>5. ASSUME NEW q \in selected, Return(q) PROVE TypeOK'
  BY <1>5, <1>a DEF Return, TypeOK
<1>6. ASSUME NEW q \in selected, NotifyMain(q) PROVE TypeOK'
  BY <1>6, <1>a DEF NotifyMain, TypeOK
<1>7. CASE MainAwait BY <1>7, <1>a DEF MainAwait, TypeOK
<1>8. CASE MainGoesOn \/ MakerPanics BY <1>8, <1>a DEF MainGoesOn, MakerPanics, TypeOK
<1>9. CASE UNCHANGED vars BY <1>9, <1>a DEF vars, TypeOK
<1>10. ASSUME NEW q \in selected, NEW i \in Jobs(q), PanicJob(q, i) PROVE TypeOK'
  BY <1>10, <1>a DEF PanicJob, TypeOK
<1>11. CASE CloserPanics BY <1>11, <1>a DEF CloserPanics, TypeOK
<1> QED BY <1>1, <1>2, <1>3, <1>4, <1>5, <1>6, <1>7, <1>8, <1>9, <1>10, <1>11
        DEF Next, JobStep, QueryStep, MainStep, Ended

\* The variables of the creation keep their types, and no channel holds more than
\* its capacity (CreateViews and the Make..View functions).
THEOREM TypeCorrect == Spec => []TypeOK
  BY InitType, StepType, PTL DEF Spec

-----------------------------------------------------------------------------

\* What a signal stands for: the job that gave it has run its statements.
QueryInv(q) ==
  /\ maker[q] = "started" => \A i \in Jobs(q) : job[<<q, i>>] = "none"
  /\ \A i \in Jobs(q) : job[<<q, i>>] \in {"signalling", "done"} => outcome[<<q, i>>] # "pending"
  /\ \A i \in chan[q] \cup got[q] : job[<<q, i>>] = "done"
  /\ maker[q] \in {"returned", "done"} =>
       IF Inline(q) THEN job[<<q, 1>>] = "done" ELSE Cardinality(got[q]) = Awaited(q)

JobInv == \A q \in selected : QueryInv(q)

\* A query that has signalled main has returned.
MainInv ==
  /\ \A q \in notifyChan \cup notified : maker[q] = "done"
  /\ main \in {"querying", "exited"} => notified = selected

\* At first no job has signalled and no query returned.
LEMMA InitJob == Init => JobInv /\ MainInv
<1> SUFFICES ASSUME Init PROVE JobInv /\ MainInv OBVIOUS
<1>1. TypeOK BY InitType
<1>2. ASSUME NEW q \in selected, NEW i \in Jobs(q) PROVE job[<<q, i>>] = "none"
  BY <1>1, JobOf DEF Init
<1> QED BY <1>2 DEF Init, JobInv, QueryInv, MainInv

\* Who signals has run, and who returns has received the signals.
LEMMA StepJob == TypeOK /\ JobInv /\ [Next]_vars => JobInv'
<1> SUFFICES ASSUME TypeOK, JobInv, [Next]_vars, NEW q \in selected'
             PROVE  QueryInv(q)'
  BY DEF JobInv
<1>0. UNCHANGED config
  BY DEF Next, JobStep, QueryStep, MainStep, Ended, vars, RunJob, SignalJob, StartJobs,
         AwaitJob, Return, NotifyMain, MainAwait, MainGoesOn, MakerPanics, PanicJob,
         CloserPanics
<1>a. /\ q \in selected /\ q \in Queries /\ selected' = selected
      /\ Jobs(q)' = Jobs(q) /\ Inline(q)' = Inline(q) /\ Awaited(q)' = Awaited(q)
  BY <1>0, SameJobs, SelectedFinite
<1>b. chan[q] \subseteq Jobs(q) /\ got[q] \subseteq Jobs(q) /\ (Inline(q) => 1 \in Jobs(q))
  BY <1>a, JobsFacts DEF TypeOK
<1>c. \A i \in Jobs(q) : <<q, i>> \in AllJobs BY <1>a, JobOf
<1> USE DEF queryVars, QueryInv
<1>1. ASSUME UNCHANGED <<maker, job, outcome, chan, got>> PROVE QueryInv(q)'
  BY <1>1, <1>a DEF JobInv
<1>2. ASSUME NEW r \in selected, NEW i \in Jobs(r), RunJob(r, i) PROVE QueryInv(q)'
  <2>1. /\ UNCHANGED <<maker, chan, got>> /\ job[<<r, i>>] = "running"
        /\ job' = [job EXCEPT ![<<r, i>>] = IF Signals(r) THEN "signalling" ELSE "done"]
        /\ \E o \in {"ok", "failed"} : outcome' = [outcome EXCEPT ![<<r, i>>] = o]
    BY <1>2 DEF RunJob
  <2>2. \A k \in Jobs(q) : <<q, k>> # <<r, i>> =>
          job'[<<q, k>>] = job[<<q, k>>] /\ outcome'[<<q, k>>] = outcome[<<q, k>>]
    BY <2>1, <1>c DEF TypeOK
  <2>3. <<r, i>> \in AllJobs BY <1>2, JobOf
  <2>4. outcome'[<<r, i>>] # "pending" BY <2>1, <2>3 DEF TypeOK
  <2>5. q = r => maker[q] # "started" BY <1>2, <2>1 DEF JobInv
  <2>6. \A k \in Jobs(q) : job[<<q, k>>] = "done" => job'[<<q, k>>] = "done"
    BY <2>1, <2>2
  <2> QED BY <1>a, <1>b, <2>1, <2>2, <2>4, <2>5, <2>6 DEF JobInv
<1>3. ASSUME NEW r \in selected, NEW i \in Jobs(r), SignalJob(r, i) PROVE QueryInv(q)'
  <2>1. /\ UNCHANGED <<maker, outcome, got>> /\ job[<<r, i>>] = "signalling"
        /\ job' = [job EXCEPT ![<<r, i>>] = "done"]
        /\ chan' = [chan EXCEPT ![r] = @ \cup {i}]
    BY <1>3 DEF SignalJob
  <2>2. \A k \in Jobs(q) : <<q, k>> # <<r, i>> => job'[<<q, k>>] = job[<<q, k>>]
    BY <2>1, <1>c DEF TypeOK
  <2>3. <<r, i>> \in AllJobs BY <1>3, JobOf
  <2>4. job'[<<r, i>>] = "done" BY <2>1, <2>3 DEF TypeOK
  <2>5. outcome[<<r, i>>] # "pending" BY <2>1, <1>3 DEF JobInv
  <2>6. q = r => maker[q] # "started" BY <1>3, <2>1 DEF JobInv
  <2>7. \A k \in chan'[q] : k \in chan[q] \/ <<q, k>> = <<r, i>>
    BY <2>1, <1>a DEF TypeOK
  <2>8. \A k \in Jobs(q) : job[<<q, k>>] = "done" => job'[<<q, k>>] = "done"
    BY <2>2, <2>4
  <2>9. \A k \in chan'[q] \cup got'[q] : job'[<<q, k>>] = "done"
    BY <1>a, <1>b, <2>1, <2>4, <2>7, <2>8 DEF JobInv
  <2> QED BY <1>a, <1>b, <2>1, <2>2, <2>4, <2>5, <2>6, <2>8, <2>9 DEF JobInv
<1>4. ASSUME NEW r \in selected, StartJobs(r) PROVE QueryInv(q)'
  <2>1. /\ UNCHANGED <<outcome, chan, got>> /\ maker[r] = "started"
        /\ maker' = [maker EXCEPT ![r] = "waiting"]
        /\ job' = [j \in AllJobs |-> IF j[1] = r THEN "running" ELSE job[j]]
    BY <1>4 DEF StartJobs
  <2>2. CASE q = r
    <3>1. maker'[q] = "waiting" BY <1>a, <2>1, <2>2 DEF TypeOK
    <3>2. \A k \in Jobs(q) : job'[<<q, k>>] = "running" BY <1>c, <2>1, <2>2
    <3>3. chan[q] = {} /\ got[q] = {} BY <1>a, <1>b, <2>1, <2>2 DEF JobInv
    <3> QED BY <1>a, <2>1, <3>1, <3>2, <3>3
  <2>3. CASE q # r
    <3>1. maker'[q] = maker[q] BY <1>a, <2>1, <2>3 DEF TypeOK
    <3>2. \A k \in Jobs(q) : job'[<<q, k>>] = job[<<q, k>>] BY <1>c, <2>1, <2>3
    <3> QED BY <1>a, <1>b, <2>1, <3>1, <3>2 DEF JobInv
  <2> QED BY <2>2, <2>3
<1>5. ASSUME NEW r \in selected, AwaitJob(r) PROVE QueryInv(q)'
  <2>1. PICK i \in chan[r] : /\ chan' = [chan EXCEPT ![r] = @ \ {i}]
                             /\ got' = [got EXCEPT ![r] = @ \cup {i}]
    BY <1>5 DEF AwaitJob
  <2>2. UNCHANGED <<maker, job, outcome>> /\ maker[r] = "waiting" BY <1>5 DEF AwaitJob
  <2>3. chan'[q] \cup got'[q] = chan[q] \cup got[q] BY <1>a, <2>1 DEF TypeOK
  <2>4. maker[q] \in {"returned", "done"} => got'[q] = got[q] BY <1>a, <2>1, <2>2 DEF TypeOK
  <2> QED BY <1>a, <2>2, <2>3, <2>4 DEF JobInv
<1>6. ASSUME NEW r \in selected, Return(r) PROVE QueryInv(q)'
  <2>1. UNCHANGED <<job, outcome, chan, got>> BY <1>6 DEF Return
  <2>2. CASE q = r
    <3>1. maker'[q] = "returned" /\ Waited(q) BY <1>6, <1>a, <2>2 DEF Return, TypeOK
    <3> QED BY <1>a, <2>1, <3>1 DEF JobInv, Waited
  <2>3. CASE q # r
    <3>1. maker'[q] = maker[q] BY <1>6, <1>a, <2>3 DEF Return, TypeOK
    <3> QED BY <1>a, <2>1, <3>1 DEF JobInv
  <2> QED BY <2>2, <2>3
<1>7. ASSUME NEW r \in selected, NotifyMain(r) PROVE QueryInv(q)'
  <2>1. UNCHANGED <<job, outcome, chan, got>> BY <1>7 DEF NotifyMain
  <2>2. \/ maker'[q] = maker[q]
        \/ maker[q] = "returned" /\ maker'[q] = "done"
    BY <1>7, <1>a DEF NotifyMain, TypeOK
  <2> QED BY <1>a, <2>1, <2>2 DEF JobInv
<1>8. CASE MainStep \/ CloserPanics \/ UNCHANGED vars
  BY <1>1, <1>8 DEF MainStep, MainAwait, MainGoesOn, MakerPanics, CloserPanics, vars
<1>9. ASSUME NEW r \in selected, NEW i \in Jobs(r), PanicJob(r, i) PROVE QueryInv(q)'
  BY <1>1, <1>9 DEF PanicJob
<1> QED BY <1>2, <1>3, <1>4, <1>5, <1>6, <1>7, <1>8, <1>9
        DEF Next, JobStep, QueryStep, Ended

\* Main goes on when all queries have signalled.
LEMMA StepMain == TypeOK /\ JobInv /\ MainInv /\ [Next]_vars => MainInv'
<1> SUFFICES ASSUME TypeOK, MainInv, [Next]_vars PROVE MainInv' OBVIOUS
<1>1. IsFiniteSet(selected) /\ notifyChan \subseteq selected /\ notified \subseteq selected
  BY SelectedFinite DEF TypeOK
<1>2. notifyChan \cup notified \subseteq DOMAIN maker /\ DOMAIN maker = selected
  BY <1>1 DEF TypeOK
<1>0. UNCHANGED config
  BY DEF Next, JobStep, QueryStep, MainStep, Ended, vars, RunJob, SignalJob, StartJobs,
         AwaitJob, Return, NotifyMain, MainAwait, MainGoesOn, MakerPanics, PanicJob,
         CloserPanics
<1>b. selected' = selected BY <1>0, SameJobs
<1>a. ASSUME UNCHANGED <<maker, notifyChan, notified, main>> PROVE MainInv'
  BY <1>a, <1>b DEF MainInv
<1>3. ASSUME NEW q \in selected, NEW i \in Jobs(q), JobStep(q, i) PROVE MainInv'
  <2>1. CASE RunJob(q, i) \/ SignalJob(q, i) BY <2>1, <1>a DEF RunJob, SignalJob
  <2>2. CASE PanicJob(q, i) BY <1>b, <2>2 DEF PanicJob, MainInv
  <2> QED BY <1>3, <2>1, <2>2 DEF JobStep
<1>4. ASSUME NEW q \in selected, StartJobs(q) \/ Return(q) PROVE MainInv'
  <2>1. /\ maker[q] \in {"started", "waiting"}
        /\ \A r \in selected \ {q} : maker'[r] = maker[r]
        /\ UNCHANGED <<notifyChan, notified, main>>
    BY <1>4, <1>2 DEF StartJobs, Return
  <2>2. q \notin notifyChan \cup notified BY <2>1 DEF MainInv
  <2> QED BY <1>1, <1>b, <2>1, <2>2 DEF MainInv
<1>5. ASSUME NEW q \in selected, AwaitJob(q) PROVE MainInv'
  BY <1>5, <1>a DEF AwaitJob
<1>6. ASSUME NEW q \in selected, NotifyMain(q) PROVE MainInv'
  BY <1>6, <1>1, <1>2, <1>b DEF NotifyMain, MainInv
<1>7. CASE MainAwait BY <1>1, <1>7, <1>b DEF MainAwait, MainInv
<1>8. CASE MainGoesOn \/ MakerPanics \/ CloserPanics
  <2>0. CASE MakerPanics \/ CloserPanics BY <1>b, <2>0 DEF MakerPanics, CloserPanics, MainInv
  <2>1. ASSUME MainGoesOn PROVE MainInv'
    <3>1. notified = selected BY <1>1, <2>1, FS_Subset DEF MainGoesOn
    <3> QED BY <1>b, <2>1, <3>1 DEF MainGoesOn, MainInv
  <2> QED BY <1>8, <2>0, <2>1
<1>9. CASE UNCHANGED vars BY <1>9, <1>a DEF vars
<1> QED BY <1>3, <1>4, <1>5, <1>6, <1>7, <1>8, <1>9
        DEF Next, QueryStep, MainStep, Ended

\* The signals a query has received are of different jobs, all of which have run.
LEMMA ReturnedIsCreated == TypeOK /\ JobInv /\ MainInv => AwaitedAreCreated
<1> SUFFICES ASSUME TypeOK, JobInv, MainInv PROVE AwaitedAreCreated OBVIOUS
<1>1. ASSUME NEW q \in selected, maker[q] \in {"returned", "done"}
      PROVE  Cardinality(Pending(q)) <= Cardinality(Jobs(q)) - Awaited(q)
  <2>1. q \in Queries BY SelectedFinite
  <2>2. QueryInv(q) BY DEF JobInv
  <2>3. IsFiniteSet(Jobs(q)) BY <2>1, JobsFacts
  <2>4. CASE Inline(q)
    <3>1. Jobs(q) = {1} /\ Awaited(q) = 1 BY <2>1, <2>4, JobsFacts
    <3>2. Pending(q) = {} BY <1>1, <2>2, <2>4, <3>1 DEF QueryInv, Pending
    <3>3. Cardinality({1}) = 1 /\ Cardinality({}) = 0 BY FS_Singleton, FS_EmptySet
    <3> QED BY <3>1, <3>2, <3>3
  <2>5. CASE ~Inline(q)
    <3>1. got[q] \subseteq Jobs(q) /\ Cardinality(got[q]) = Awaited(q)
      BY <1>1, <2>2, <2>5 DEF QueryInv, TypeOK
    <3>2. Pending(q) \subseteq Jobs(q) \ got[q] BY <2>2 DEF QueryInv, Pending
    <3>3. /\ IsFiniteSet(Jobs(q) \ got[q])
          /\ Cardinality(Jobs(q) \ got[q]) = Cardinality(Jobs(q)) - Cardinality(Jobs(q) \cap got[q])
      BY <2>3, FS_Difference
    <3>4. Jobs(q) \cap got[q] = got[q] BY <3>1
    <3>5. Cardinality(Pending(q)) <= Cardinality(Jobs(q) \ got[q]) BY <3>2, <3>3, FS_Subset
    <3> QED BY <3>1, <3>3, <3>4, <3>5
  <2> QED BY <2>4, <2>5
<1>2. ASSUME main \in {"querying", "exited"}, NEW q \in selected PROVE maker[q] = "done"
  BY <1>2 DEF MainInv
<1> QED BY <1>1, <1>2 DEF AwaitedAreCreated

\* A query that has returned misses at most the views of the jobs it does not wait
\* for, and main goes on only when every query has returned (CreateViews): for any
\* number of dates and years.
THEOREM AwaitedAreCreatedHolds == Spec => []AwaitedAreCreated
<1>1. Init => TypeOK /\ JobInv /\ MainInv BY InitType, InitJob
<1>2. TypeOK /\ JobInv /\ MainInv /\ [Next]_vars => (TypeOK /\ JobInv /\ MainInv)'
  BY StepType, StepJob, StepMain
<1>3. TypeOK /\ JobInv /\ MainInv => AwaitedAreCreated BY ReturnedIsCreated
<1> QED BY <1>1, <1>2, <1>3, PTL DEF Spec

-----------------------------------------------------------------------------

\* All goroutines but those of MakeQ1View keep their failures in success.
Records(q) == q # "q1" \/ redirect

SomeFailed(q) == \E i \in Jobs(q) : outcome[<<q, i>>] = "failed"

\* What success and a report say of the jobs. That a report comes with the end of
\* a query fixes the set got, of which the report speaks.
ReportInv(q) ==
  /\ \A i \in Jobs(q) : job[<<q, i>>] \in {"none", "running"} => outcome[<<q, i>>] = "pending"
  /\ ~success[q] => SomeFailed(q)
  /\ Records(q) /\ success[q] => ~SomeFailed(q)
  /\ report[q] = "silent" => SomeFailed(q)
  /\ Records(q) /\ report[q] = "success" =>
       \A i \in Jobs(q) : i \in got[q] \/ Inline(q) => outcome[<<q, i>>] = "ok"
  /\ report[q] # "none" => maker[q] \in {"returned", "done"}

\* At first nothing has failed and nothing is reported.
LEMMA InitReport == Init => \A q \in selected : ReportInv(q)
<1> SUFFICES ASSUME Init, NEW q \in selected PROVE ReportInv(q) OBVIOUS
<1>1. TypeOK BY InitType
<1>2. ASSUME NEW i \in Jobs(q) PROVE outcome[<<q, i>>] = "pending"
  BY <1>1, JobOf DEF Init
<1> QED BY <1>2 DEF Init, ReportInv, SomeFailed

\* A failure of a job is recorded in the same step.
LEMMA StepReport ==
  TypeOK /\ JobInv /\ (\A q \in selected : ReportInv(q)) /\ [Next]_vars
    => (\A q \in selected : ReportInv(q))'
<1> SUFFICES ASSUME TypeOK, JobInv, \A q \in selected : ReportInv(q), [Next]_vars,
                    NEW q \in selected'
             PROVE  ReportInv(q)'
  OBVIOUS
<1>0. UNCHANGED config
  BY DEF Next, JobStep, QueryStep, MainStep, Ended, vars, RunJob, SignalJob, StartJobs,
         AwaitJob, Return, NotifyMain, MainAwait, MainGoesOn, MakerPanics, PanicJob,
         CloserPanics
<1>a. /\ q \in selected /\ q \in Queries /\ selected' = selected
      /\ Jobs(q)' = Jobs(q) /\ Inline(q)' = Inline(q) /\ Records(q)' = Records(q)
  BY <1>0, SameJobs, SelectedFinite DEF Records
<1>b. got[q] \subseteq Jobs(q) /\ (Inline(q) => Jobs(q) = {1})
  BY <1>a, JobsFacts DEF TypeOK
<1>c. \A i \in Jobs(q) : <<q, i>> \in AllJobs BY <1>a, JobOf
<1>d. ReportInv(q) /\ QueryInv(q) BY <1>a DEF JobInv
<1>e. ASSUME UNCHANGED outcome PROVE SomeFailed(q)' = SomeFailed(q)
  BY <1>a, <1>e DEF SomeFailed
<1> USE DEF queryVars
<1>1. ASSUME UNCHANGED <<maker, job, outcome, success, report, got>> PROVE ReportInv(q)'
  BY <1>1, <1>a, <1>d, <1>e DEF ReportInv
<1>2. ASSUME NEW r \in selected, NEW i \in Jobs(r), RunJob(r, i) PROVE ReportInv(q)'
  <2>1. PICK ok \in BOOLEAN :
          /\ outcome' = [outcome EXCEPT ![<<r, i>>] = IF ok THEN "ok" ELSE "failed"]
          /\ success' = [success EXCEPT ![r] = @ /\ (ok \/ (r = "q1" /\ ~redirect))]
    BY <1>2 DEF RunJob, Record
  <2>2. /\ UNCHANGED <<maker, report, got>> /\ job[<<r, i>>] = "running"
        /\ job' = [job EXCEPT ![<<r, i>>] = IF Signals(r) THEN "signalling" ELSE "done"]
    BY <1>2 DEF RunJob
  <2>3. \A k \in Jobs(q) : <<q, k>> # <<r, i>> =>
          outcome'[<<q, k>>] = outcome[<<q, k>>] /\ job'[<<q, k>>] = job[<<q, k>>]
    BY <2>1, <2>2, <1>c DEF TypeOK
  <2>4. CASE q # r
    <3>1. success'[q] = success[q] BY <1>a, <2>1, <2>4 DEF TypeOK
    <3>2. \A k \in Jobs(q) : outcome'[<<q, k>>] = outcome[<<q, k>>]
                              /\ job'[<<q, k>>] = job[<<q, k>>]
      BY <2>3, <2>4
    <3>3. SomeFailed(q)' = SomeFailed(q) BY <1>a, <3>2 DEF SomeFailed
    <3> QED BY <1>a, <1>d, <2>2, <3>1, <3>2, <3>3 DEF ReportInv
  <2>5. CASE q = r
    <3>1. <<q, i>> \in AllJobs /\ i \in Jobs(q) BY <1>2, <1>c, <2>5
    <3>2. /\ outcome'[<<q, i>>] = IF ok THEN "ok" ELSE "failed"
          /\ job'[<<q, i>>] \in {"signalling", "done"} /\ outcome[<<q, i>>] = "pending"
      BY <1>d, <2>1, <2>2, <2>5, <3>1 DEF TypeOK, ReportInv
    <3>3. success'[q] = (success[q] /\ (ok \/ (q = "q1" /\ ~redirect)))
      BY <1>a, <2>1, <2>5 DEF TypeOK
    <3>4. i \notin got[q] BY <1>d, <2>2, <2>5 DEF QueryInv
    <3>5. Inline(q) => report[q] = "none"
      BY <1>b, <1>d, <2>2, <2>5, <3>1 DEF QueryInv, ReportInv
    <3>6. SomeFailed(q)' = (SomeFailed(q) \/ ~ok)
      BY <1>a, <2>3, <2>5, <3>1, <3>2 DEF SomeFailed
    <3>7. \A k \in Jobs(q) : job'[<<q, k>>] \in {"none", "running"} =>
            outcome'[<<q, k>>] = "pending"
      BY <1>d, <2>3, <3>2, <2>5 DEF ReportInv
    <3>8. ~success'[q] => SomeFailed(q)' BY <1>d, <3>3, <3>6 DEF ReportInv
    <3>9. Records(q) /\ success'[q] => ~SomeFailed(q)'
      BY <1>d, <3>3, <3>6 DEF ReportInv, Records
    <3>10. Records(q) /\ report[q] = "success" =>
             \A k \in Jobs(q) : k \in got[q] \/ Inline(q) => outcome'[<<q, k>>] = "ok"
      BY <1>d, <2>3, <2>5, <3>4, <3>5 DEF ReportInv
    <3> QED BY <1>a, <1>d, <2>2, <3>6, <3>7, <3>8, <3>9, <3>10 DEF ReportInv
  <2> QED BY <2>4, <2>5
<1>3. ASSUME NEW r \in selected, NEW i \in Jobs(r), SignalJob(r, i) PROVE ReportInv(q)'
  <2>1. /\ UNCHANGED <<maker, outcome, success, report, got>>
        /\ job' = [job EXCEPT ![<<r, i>>] = "done"]
    BY <1>3 DEF SignalJob
  <2>2. \A k \in Jobs(q) : job'[<<q, k>>] \in {"none", "running"} =>
          job[<<q, k>>] \in {"none", "running"}
    BY <1>c, <2>1 DEF TypeOK
  <2> QED BY <1>a, <1>d, <1>e, <2>1, <2>2 DEF ReportInv
<1>4. ASSUME NEW r \in selected, StartJobs(r) PROVE ReportInv(q)'
  <2>1. /\ UNCHANGED <<outcome, success, report, got>> /\ maker[r] = "started"
        /\ maker' = [maker EXCEPT ![r] = "waiting"]
        /\ job' = [j \in AllJobs |-> IF j[1] = r THEN "running" ELSE job[j]]
    BY <1>4 DEF StartJobs
  <2>2. \A k \in Jobs(q) : job'[<<q, k>>] \in {"none", "running"} =>
          job[<<q, k>>] \in {"none", "running"}
    <3>1. CASE q = r
      <4>1. \A k \in Jobs(q) : job[<<q, k>>] = "none" BY <1>d, <2>1, <3>1 DEF QueryInv
      <4> QED BY <4>1
    <3>2. CASE q # r BY <1>c, <2>1, <3>2
    <3> QED BY <3>1, <3>2
  <2>3. report[q] # "none" => maker'[q] \in {"returned", "done"}
    BY <1>a, <1>d, <2>1 DEF ReportInv, TypeOK
  <2> QED BY <1>a, <1>d, <1>e, <2>1, <2>2, <2>3 DEF ReportInv
<1>5. ASSUME NEW r \in selected, AwaitJob(r) PROVE ReportInv(q)'
  <2>1. /\ UNCHANGED <<maker, job, outcome, success, report>> /\ maker[r] = "waiting"
        /\ q # r => got'[q] = got[q]
    BY <1>5, <1>a DEF AwaitJob, TypeOK
  <2>2. q = r => report[q] = "none" BY <1>d, <2>1 DEF ReportInv
  <2> QED BY <1>a, <1>d, <1>e, <2>1, <2>2 DEF ReportInv
<1>6. ASSUME NEW r \in selected, Return(r) PROVE ReportInv(q)'
  <2>1. UNCHANGED <<job, outcome, success, chan, got>> BY <1>6 DEF Return
  <2>2. CASE q = r
    <3>1. /\ maker'[q] = "returned" /\ Waited(q)
          /\ report'[q] = IF success[q] THEN "success" ELSE "silent"
      BY <1>6, <1>a, <2>2 DEF Return, TypeOK
    <3>2. Records(q) /\ success[q] => \A i \in Jobs(q) : outcome[<<q, i>>] # "failed"
      BY <1>d DEF ReportInv, SomeFailed
    <3>3. \A i \in Jobs(q) : i \in got[q] \/ Inline(q) => outcome[<<q, i>>] # "pending"
      BY <1>b, <1>d, <3>1 DEF Waited, QueryInv
    <3>4. \A i \in Jobs(q) : outcome[<<q, i>>] \in {"pending", "ok", "failed"}
      BY <1>c DEF TypeOK
    <3> QED BY <1>a, <1>d, <1>e, <2>1, <3>1, <3>2, <3>3, <3>4 DEF ReportInv
  <2>3. CASE q # r
    <3>1. maker'[q] = maker[q] /\ report'[q] = report[q]
      BY <1>6, <1>a, <2>3 DEF Return, TypeOK
    <3> QED BY <1>a, <1>d, <1>e, <2>1, <3>1 DEF ReportInv
  <2> QED BY <2>2, <2>3
<1>7. ASSUME NEW r \in selected, NotifyMain(r) PROVE ReportInv(q)'
  <2>1. UNCHANGED <<job, outcome, success, report, got>> BY <1>7 DEF NotifyMain
  <2>2. maker'[q] = maker[q] \/ maker'[q] = "done"
    BY <1>7, <1>a DEF NotifyMain, TypeOK
  <2> QED BY <1>a, <1>d, <1>e, <2>1, <2>2 DEF ReportInv
<1>8. CASE MainStep \/ CloserPanics \/ UNCHANGED vars
  BY <1>1, <1>8 DEF MainStep, MainAwait, MainGoesOn, MakerPanics, CloserPanics, vars
<1>9. ASSUME NEW r \in selected, NEW i \in Jobs(r), PanicJob(r, i) PROVE ReportInv(q)'
  BY <1>1, <1>9 DEF PanicJob
<1> QED BY <1>2, <1>3, <1>4, <1>5, <1>6, <1>7, <1>8, <1>9
        DEF Next, JobStep, QueryStep, Ended

\* A query that prints its success has had none of the jobs it waited for fail, and
\* one that does not has had some fail (Make..View, whose goroutines share success
\* without a lock): for any number of dates and years.
THEOREM ReportIsHonestHolds == Spec => []ReportIsHonest
<1> DEFINE Inv == TypeOK /\ JobInv /\ \A q \in selected : ReportInv(q)
<1>1. Init => Inv BY InitType, InitJob, InitReport
<1>2. Inv /\ [Next]_vars => Inv' BY StepType, StepJob, StepReport
<1>3. Inv => ReportIsHonest
  <2> SUFFICES ASSUME Inv, NEW q \in selected
               PROVE  /\ Records(q) /\ report[q] = "success" =>
                           {i \in Jobs(q) : outcome[<<q, i>>] = "ok"} \cup
                           {i \in Jobs(q) : i \notin got[q] /\ ~Inline(q)} = Jobs(q)
                      /\ report[q] = "silent" => SomeFailed(q)
    BY DEF ReportIsHonest, Records, SomeFailed
  <2> QED BY DEF ReportInv
<1> QED BY <1>1, <1>2, <1>3, PTL DEF Spec

-----------------------------------------------------------------------------

\* The names: each that a query may ask for is one that its goroutines make.
LEMMA NamesAsked ==
  /\ Q1Asked \subseteq Q1Made
  /\ Q3Asked \subseteq UNION {Q3Made(d) : d \in 0..Q3Dates}
  /\ Q5Asked \subseteq UNION {Q5Made(y) : y \in 1..Q5Years}
  /\ Q6Asked \subseteq Q6Made
  /\ Q11Asked \subseteq Q11Made
  /\ Q14Asked \subseteq UNION {Q14Made(y) : y \in 1..Q14Years}
  /\ Q15Asked \subseteq Q15Made
  /\ Q18Asked \subseteq Q18Made
<1> USE SizesAssumption
<1>1. Q1Asked \subseteq Q1Made BY DEF Q1Asked, Q1Made, Intn
<1>2. ASSUME NEW r \in Intn(Q3Dates + 1), NEW s \in Segments
      PROVE  <<r + 1, s>> \in UNION {Q3Made(d) : d \in 0..Q3Dates}
  <2>1. r \in 0..Q3Dates BY DEF Intn
  <2>2. <<r + 1, s>> \in Q3Made(r) BY <2>1 DEF Q3Made
  <2> QED BY <2>1, <2>2
<1>3. Q3Asked \subseteq UNION {Q3Made(d) : d \in 0..Q3Dates}
  BY <1>2 DEF Q3Asked
<1>4. ASSUME NEW y \in Intn(Q5Years), NEW r \in Intn(5)
      PROVE  <<y + 1993, r>> \in UNION {Q5Made(i) : i \in 1..Q5Years}
  <2>1. y + 1 \in 1..Q5Years /\ y + 1993 = 1992 + (y + 1) /\ r \in 0..4 BY DEF Intn
  <2>2. <<y + 1993, r>> \in Q5Made(y + 1) BY <2>1 DEF Q5Made, Regions
  <2> QED BY <2>1, <2>2
<1>5. Q5Asked \subseteq UNION {Q5Made(y) : y \in 1..Q5Years}
  BY <1>4 DEF Q5Asked
<1>6. ASSUME NEW y \in Intn(5), NEW q \in Intn(8), NEW a \in Intn(2)
      PROVE  <<y + 1993, q + 2, a + 24>> \in Q6Made
  <2>1. y + 1993 \in Years /\ q + 1 \in 1..8 /\ a + 24 \in {24, 25} /\ q + 2 = (q + 1) + 1
    BY DEF Years, Intn
  <2> QED BY <2>1 DEF Q6Made
<1>7. Q6Asked \subseteq Q6Made BY <1>6 DEF Q6Asked
<1>8. Q11Asked \subseteq Q11Made BY DEF Q11Asked, Q11Made, Nations, Intn
<1>9. ASSUME NEW y \in Intn(Q14Years), NEW m \in Intn(12)
      PROVE  <<y + 1993, m + 1>> \in UNION {Q14Made(i) : i \in 1..Q14Years}
  <2>1. y + 1 \in 1..Q14Years /\ y + 1993 = 1992 + (y + 1) /\ m + 1 \in 1..12 BY DEF Intn
  <2>2. <<y + 1993, m + 1>> \in Q14Made(y + 1) BY <2>1 DEF Q14Made
  <2> QED BY <2>1, <2>2
<1>10. Q14Asked \subseteq UNION {Q14Made(y) : y \in 1..Q14Years}
  BY <1>9 DEF Q14Asked
<1>11. ASSUME NEW y \in Intn(5), NEW q \in Intn(4)
       PROVE  <<y + 1993, q * 3 + 1>> \in Q15Made
  <2>1. y + 1993 \in Years /\ q * 3 + 1 \in {m \in 1..12 : m % 3 = 1} BY DEF Years, Intn
  <2> QED BY <2>1 DEF Q15Made
<1>12. Q15Asked \subseteq Q15Made BY <1>11 DEF Q15Asked
<1>13. Q18Asked \subseteq Q18Made BY DEF Q18Asked, Q18Made, Intn
<1> QED BY <1>1, <1>3, <1>5, <1>7, <1>8, <1>10, <1>12, <1>13

\* The jobs of a query share out the views that it may ask for.
LEMMA AskedAreMade ==
  ASSUME TypeOK, NEW q \in selected
  PROVE  Asked(q) \subseteq UNION {ViewsOf(q, i) : i \in Jobs(q)}
<1>1. q \in Queries BY SelectedFinite
<1>2. CASE Inline(q)
  <2>1. Jobs(q) = {1} BY <1>1, <1>2, JobsFacts
  <2>2. Asked(q) \subseteq ViewsOf(q, 1)
    <3>1. CASE q \in {"q3", "q5", "q14"}
      <4>1. redirect BY <1>2, <3>1 DEF Inline
      <4> QED BY <3>1, <4>1, NamesAsked DEF Asked, ViewsOf
    <3>2. CASE q \in {"q1", "q6", "q11", "q15", "q18"}
      BY <3>2, NamesAsked DEF Asked, ViewsOf
    <3> QED BY <1>1, <3>1, <3>2 DEF Queries
  <2> QED BY <2>1, <2>2
<1>3. CASE ~Inline(q)
  <2>1. ~redirect /\ q \in {"q3", "q5", "q14"} BY <1>3 DEF Inline
  <2>2. CASE q = "q3"
    <3>1. Jobs(q) = 0..Q3Dates /\ Asked(q) = Q3Asked BY <1>3, <2>2 DEF Jobs, Asked
    <3>2. \A i : ViewsOf(q, i) = Q3Made(i) BY <2>1, <2>2 DEF ViewsOf
    <3> QED BY <3>1, <3>2, NamesAsked
  <2>3. CASE q = "q5"
    <3>1. Jobs(q) = 1..Q5Years /\ Asked(q) = Q5Asked BY <1>3, <2>3 DEF Jobs, Asked
    <3>2. \A i : ViewsOf(q, i) = Q5Made(i) BY <2>1, <2>3 DEF ViewsOf
    <3> QED BY <3>1, <3>2, NamesAsked
  <2>4. CASE q = "q14"
    <3>1. Jobs(q) = 1..Q14Years /\ Asked(q) = Q14Asked BY <1>3, <2>4 DEF Jobs, Asked
    <3>2. \A i : ViewsOf(q, i) = Q14Made(i) BY <2>1, <2>4 DEF ViewsOf
    <3> QED BY <3>1, <3>2, NamesAsked
  <2> QED BY <2>1, <2>2, <2>3, <2>4
<1> QED BY <1>2, <1>3

\* A view that may be asked for is missing only while its goroutine is at work or
\* because that failed (Make..View and Do..Query, names and all), and clients whose
\* list is served ask for no other: for any number of dates and years.
THEOREM MissingViewsAreExplainedHolds == Spec => []MissingViewsAreExplained
<1>1. TypeOK => MissingViewsAreExplained
  <2> SUFFICES ASSUME TypeOK PROVE MissingViewsAreExplained OBVIOUS
  <2>1. ASSUME NEW q \in selected, NEW v \in Asked(q), v \notin ViewsWith(q, {"ok"})
        PROVE  v \in ViewsWith(q, {"pending", "failed"})
    <3>1. PICK i \in Jobs(q) : v \in ViewsOf(q, i) BY AskedAreMade
    <3>2. <<q, i>> \in AllJobs BY JobOf
    <3>3. outcome[<<q, i>>] \in {"pending", "ok", "failed"} BY <3>2 DEF TypeOK
    <3> QED BY <2>1, <3>1, <3>3 DEF ViewsWith
  <2>2. ASSUME ListIsServed PROVE QueryFuncs \subseteq selected
    <3>1. config.list \subseteq Queries /\ config.list # {"all"}
      BY <2>2 DEF ListIsServed, Queries
    <3>2. QueryFuncs = config.list
      BY <2>2, <3>1 DEF ListIsServed, QueryFuncs, FunctionsFor
    <3> QED BY <2>2, <3>1, <3>2 DEF ListIsServed, selected
  <2> QED BY <2>1, <2>2 DEF MissingViewsAreExplained
<1> QED BY <1>1, TypeCorrect, PTL
=============================================================================
