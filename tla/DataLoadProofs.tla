--------------------------- MODULE DataLoadProofs ---------------------------
(***************************************************************************)
(* Proofs about DataLoad: for every order in which the tables may be read  *)
(* and all flags and files, what is used has been built, and the start of  *)
(* the client implements LoadOutcome.                                      *)
(*                                                                         *)
(* The tables go through the program in the order in which they are read,  *)
(* so that what each goroutine has done is a beginning of the schedule.    *)
(* IdleInv, ReadInv and SendInv say so; the properties follow from it.     *)
(***************************************************************************)
EXTENDS DataLoad, TLAPS

\* How many tables ProcessBaseData has taken, how many it is through with, and
\* how many SendInserts has taken.
Processed == read - Len(readChan)
Handed == IF building = NoTable THEN Processed ELSE Processed - 1
Received == Handed - Len(procChan)

\* Nothing is done before main begins to load.
IdleInv ==
  main \in {"starting", "connecting", "connected"} =>
    /\ read = 0 /\ readChan = <<>> /\ building = NoTable /\ built = {}
    /\ procChan = <<>> /\ taken = {} /\ sent = {}
    /\ creator = "none" /\ updater = "none" /\ dropped = FALSE /\ setup = "nothing"
    /\ ready = 0 /\ completeChan = 0 /\ updateChan = 0

\* Where the tables of the schedule are, up to ProcessBaseData.
ReadInv ==
  /\ Processed \in Nat
  /\ \A i \in 1..Len(readChan) : readChan[i] = schedule[Processed + i]
  /\ building # NoTable => Processed > 0 /\ building = schedule[Processed]
  /\ \A t \in built : \E i \in 1..Processed : schedule[i] = t
  /\ \A i \in 1..Handed : schedule[i] \in built

\* Where the tables are from there to the database.
SendInv ==
  /\ Received \in Nat
  /\ ~sending => procChan = <<>> /\ taken = {}
  /\ \A i \in 1..Len(procChan) : procChan[i] = schedule[Received + i]
  /\ \A t \in taken : \E i \in 1..Received : schedule[i] = t
  /\ sending => \A i \in 1..Received : schedule[i] \in taken
  /\ sending => \A i \in 1..(Received - 1) : schedule[i] \in sent \cup Postponed
  /\ taken # {} => creator = "done"
  /\ sent \subseteq taken
  /\ \A t \in sent : Parents[t] \subseteq sent

\* What a signal stands for.
SignalInv ==
  /\ ready > 0 => "CUSTOMER" \in built
  /\ updater \in {"splitting", "done"} => "CUSTOMER" \in built
  /\ updateChan > 0 => updater = "done"
  /\ completeChan > 0 => built = Tables
  /\ main \in {"loaded", "preparing", "benchmark"} => built = Tables
  /\ updater # "none" => updates
  /\ main = "benchmark" /\ updates => updater = "done"

\* Where main is and what it has done follow from its settings.
SettingsInv ==
  /\ main # "starting" => settings \in loadConfigs(input)
  /\ dropped => main # "starting" /\ (sending \/ ResetOnly(input))
  /\ creator # "none" => main # "starting" /\ sending /\ dropped
  /\ ResetOnly(input) => /\ main \in {"starting", "connecting", "connected", "exited"}
                        /\ read = 0 /\ creator = "none" /\ updater = "none"
  /\ main \in {"preparing", "benchmark"} => settings["doQueries"] \/ settings["doUpdates"]
  /\ main = "ended" => ~settings["doQueries"] /\ ~settings["doUpdates"]
  /\ main \in {"reading", "loading", "loaded"} => setup = "nothing"
  /\ setup = "indexes" => main # "starting" /\ ~settings["doViewload"]
  /\ main \in {"preparing", "benchmark", "ended"} =>
       /\ setup = "views" <=> settings["doViewload"]
       /\ setup = "indexes" <=> ~settings["doViewload"] /\ settings["doIndexload"]

\* What is assumed of a schedule.
LEMMA ScheduleFacts ==
  ASSUME NEW order \in Schedules
  PROVE  /\ order \in Seq(Tables) /\ Len(order) \in Nat
         /\ \A i \in 1..Len(order) : order[i] \in Tables
         /\ RespectsParents(order)
  BY SchedulesAssumption

-----------------------------------------------------------------------------

\* The settings that are loaded are Booleans.
LEMMA LoadedSettings ==
  ASSUME NEW i, NEW c \in loadConfigs(i)
  PROVE  c \in [Settings -> BOOLEAN]
  BY DEF loadConfigs, loadConfigsFile

\* The first state has the types.
LEMMA InitType == Init => TypeOK
<1> SUFFICES ASSUME Init PROVE TypeOK OBVIOUS
<1>1. PackageDefault \in [Settings -> BOOLEAN] BY DEF PackageDefault
<1>2. schedule \in Schedules /\ Len(schedule) \in Nat BY ScheduleFacts DEF Init
<1>3. <<>> \in Seq(Tables) OBVIOUS
<1>4. /\ input \in Inputs /\ settings \in [Settings -> BOOLEAN] /\ schedule \in Schedules
  BY <1>1, Zenon DEF Init
<1>5. dropped \in BOOLEAN /\ setup \in {"nothing", "views", "indexes"}
  BY DEF Init
<1>6. read \in 0..Len(schedule)
  BY <1>2 DEF Init
<1>7. /\ built \subseteq Tables /\ taken \subseteq Tables /\ sent \subseteq Tables
       /\ readChan \in Seq(Tables) /\ procChan \in Seq(Tables)
       /\ building \in Tables \cup {NoTable}
  BY <1>3 DEF Init
<1>8. /\ creator = "none" /\ updater = "none" /\ main = "starting"
       /\ ready = 0 /\ completeChan = 0 /\ updateChan = 0
  BY DEF Init
<1> QED BY <1>4, <1>5, <1>6, <1>7, <1>8 DEF TypeOK

\* Every step keeps them.
LEMMA StepType == TypeOK /\ [Next]_vars => TypeOK'
<1> SUFFICES ASSUME TypeOK, [Next]_vars PROVE TypeOK' OBVIOUS
<1> USE DEF TypeOK, start, reading, inserting, NoTable
<1>0. schedule \in Seq(Tables) /\ Len(schedule) \in Nat BY ScheduleFacts
<1>1. CASE LoadConfigs BY <1>1, LoadedSettings DEF LoadConfigs
<1>2. CASE Connect BY <1>2 DEF Connect
<1>3. CASE Reset BY <1>3 DEF Reset
<1>4. CASE StartLoad
  <2>1. sending \in BOOLEAN BY DEF sending, Settings
  <2> QED BY <1>4, <2>1 DEF StartLoad
<1>5. CASE SetUp BY <1>5 DEF SetUp, AfterSetUp
<1>6. CASE ReadTable
  <2>1. schedule[read + 1] \in Tables BY <1>0, <1>6 DEF ReadTable
  <2> QED BY <1>0, <1>6, <2>1 DEF ReadTable
<1>7. CASE ReadBaseDataEnds BY <1>7 DEF ReadBaseDataEnds
<1>8. CASE LoadComplete BY <1>8 DEF LoadComplete
<1>9. CASE StartClients BY <1>9 DEF StartClients
<1>10. CASE TakeRead BY <1>10 DEF TakeRead
<1>11. CASE ProcessTable BY <1>11 DEF ProcessTable
<1>12. CASE SignalReady BY <1>12 DEF SignalReady, ReadyHasRoom
<1>13. CASE HandOn BY <1>13 DEF HandOn
<1>14. CASE Complete BY <1>14 DEF Complete
<1>15. CASE CreateTables BY <1>15 DEF CreateTables
<1>16. CASE TakeBuilt BY <1>16 DEF TakeBuilt
<1>17. ASSUME NEW t \in Tables, InsertTable(t) PROVE TypeOK' BY <1>17 DEF InsertTable
<1>18. CASE UpdatesRead BY <1>18 DEF UpdatesRead
<1>19. CASE BeginSplit BY <1>19 DEF BeginSplit
<1>20. CASE SplitPanics BY <1>20 DEF SplitPanics
<1>21. CASE EndSplit BY <1>21 DEF EndSplit
<1>22. CASE UNCHANGED vars BY <1>22 DEF vars
<1> QED BY <1>1, <1>2, <1>3, <1>4, <1>5, <1>6, <1>7, <1>8, <1>9, <1>10, <1>11, <1>12,
           <1>13, <1>14, <1>15, <1>16, <1>17, <1>18, <1>19, <1>20, <1>21, <1>22
        DEF Next, MainStep, ProcessStep, InsertStep, UpdateStep

\* The variables of the start keep their types (all goroutines of Start).
THEOREM TypeCorrect == Spec => []TypeOK
  BY InitType, StepType, PTL DEF Spec

-----------------------------------------------------------------------------
(* The order of the tables. *)

\* At first nothing has been read.
LEMMA InitOrder == Init => IdleInv /\ ReadInv
<1> SUFFICES ASSUME Init PROVE IdleInv /\ ReadInv OBVIOUS
<1>0. read = 0 /\ Len(readChan) = 0 /\ building = NoTable BY DEF Init
<1>1. Processed = 0 /\ Handed = 0 BY <1>0 DEF Processed, Handed
<1>2. IdleInv BY DEF Init, IdleInv
<1>3. ReadInv BY <1>0, <1>1 DEF Init, ReadInv
<1> QED BY <1>2, <1>3

\* The goroutines start when main begins to load, not before.
LEMMA StepIdle == TypeOK /\ IdleInv /\ [Next]_vars => IdleInv'
<1> SUFFICES ASSUME TypeOK, IdleInv, [Next]_vars PROVE IdleInv' OBVIOUS
<1> USE DEF IdleInv, start, reading, inserting, NoTable
<1>1. CASE LoadConfigs BY <1>1 DEF LoadConfigs
<1>2. CASE Connect BY <1>2 DEF Connect
<1>3. CASE Reset BY <1>3 DEF Reset
<1>4. CASE StartLoad BY <1>4 DEF StartLoad
<1>5. CASE SetUp BY <1>5 DEF SetUp, AfterSetUp
<1>6. CASE ReadTable BY <1>6 DEF ReadTable
<1>7. CASE ReadBaseDataEnds BY <1>7 DEF ReadBaseDataEnds
<1>8. CASE LoadComplete BY <1>8 DEF LoadComplete
<1>9. CASE StartClients BY <1>9 DEF StartClients
<1>10. CASE TakeRead BY <1>10 DEF TakeRead
<1>11. CASE ProcessTable BY <1>11 DEF ProcessTable
<1>12. CASE SignalReady BY <1>12 DEF SignalReady
<1>13. CASE HandOn BY <1>13 DEF HandOn
<1>14. CASE Complete BY <1>14 DEF Complete
<1>15. CASE CreateTables BY <1>15 DEF CreateTables
<1>16. CASE TakeBuilt BY <1>16 DEF TakeBuilt
<1>17. ASSUME NEW t \in Tables, InsertTable(t) PROVE IdleInv' BY <1>17 DEF InsertTable, Due
<1>18. CASE UpdatesRead BY <1>18 DEF UpdatesRead
<1>19. CASE BeginSplit BY <1>19 DEF BeginSplit
<1>20. CASE SplitPanics BY <1>20 DEF SplitPanics
<1>21. CASE EndSplit BY <1>21 DEF EndSplit
<1>22. CASE UNCHANGED vars BY <1>22 DEF vars
<1> QED BY <1>1, <1>2, <1>3, <1>4, <1>5, <1>6, <1>7, <1>8, <1>9, <1>10, <1>11, <1>12,
           <1>13, <1>14, <1>15, <1>16, <1>17, <1>18, <1>19, <1>20, <1>21, <1>22
        DEF Next, MainStep, ProcessStep, InsertStep, UpdateStep

\* A step that leaves the reading, the building and the schedule alone.
LEMMA SameReading ==
  ASSUME ReadInv, UNCHANGED <<schedule, readChan, read, building, built>>
  PROVE  ReadInv' /\ Processed' = Processed /\ Handed' = Handed
  BY DEF ReadInv, Processed, Handed

\* A table that is read, taken or built is the next of the schedule.
LEMMA StepRead == TypeOK /\ ReadInv /\ [Next]_vars => ReadInv'
<1> SUFFICES ASSUME TypeOK, ReadInv, [Next]_vars PROVE ReadInv' OBVIOUS
<1>0. /\ schedule \in Seq(Tables) /\ Len(schedule) \in Nat
      /\ read \in Nat /\ readChan \in Seq(Tables) /\ Len(readChan) \in Nat
  BY ScheduleFacts DEF TypeOK
<1> USE DEF start, reading, inserting
<1>1. CASE ReadTable
  <2>1. /\ read' = read + 1 /\ readChan' = Append(readChan, schedule[read + 1])
        /\ UNCHANGED <<schedule, building, built>>
    BY <1>1 DEF ReadTable
  <2>2. schedule[read + 1] \in Tables BY <1>0, <1>1, ScheduleFacts DEF ReadTable, TypeOK
  <2>3. Len(readChan') = Len(readChan) + 1 BY <1>0, <2>1, <2>2
  <2>4. Processed' = Processed /\ Handed' = Handed
    BY <1>0, <2>1, <2>3 DEF Processed, Handed
  <2>5. \A i \in 1..Len(readChan') : readChan'[i] = schedule[Processed + i]
    <3> SUFFICES ASSUME NEW i \in 1..Len(readChan') PROVE readChan'[i] = schedule[Processed + i]
      OBVIOUS
    <3>1. CASE i = Len(readChan) + 1 BY <1>0, <2>1, <2>2, <3>1 DEF Processed
    <3>2. CASE i \in 1..Len(readChan) BY <1>0, <2>1, <2>2, <3>2 DEF ReadInv
    <3> QED BY <1>0, <2>3, <3>1, <3>2
  <2> QED BY <2>1, <2>4, <2>5 DEF ReadInv
<1>2. CASE TakeRead
  <2>1. /\ building = NoTable /\ readChan # <<>> /\ read' = read
        /\ building' = Head(readChan) /\ readChan' = Tail(readChan)
        /\ UNCHANGED <<schedule, built>>
    BY <1>2 DEF TakeRead
  <2>2. Len(readChan) > 0 /\ Len(readChan') = Len(readChan) - 1 BY <1>0, <2>1
  <2>3. building' = readChan[1] /\ building' \in Tables BY <1>0, <2>1
  <2>4. building' # NoTable BY <2>3 DEF Tables, NoTable
  <2>5. /\ Processed' = Processed + 1 /\ Processed' - 1 = Processed
        /\ Handed' = Processed /\ Handed = Processed
    BY <1>0, <2>1, <2>2, <2>4 DEF Processed, Handed
  <2>6. \A i \in 1..Len(readChan') : readChan'[i] = schedule[Processed' + i]
    <3> SUFFICES ASSUME NEW i \in 1..Len(readChan') PROVE readChan'[i] = schedule[Processed' + i]
      OBVIOUS
    <3>1. i + 1 \in 1..Len(readChan) /\ readChan'[i] = readChan[i + 1] BY <1>0, <2>1, <2>2
    <3>2. Processed + (i + 1) = Processed' + i BY <2>5 DEF ReadInv
    <3> QED BY <3>1, <3>2 DEF ReadInv
  <2>7. building' = schedule[Processed'] BY <1>0, <2>2, <2>3, <2>5 DEF ReadInv
  <2> QED BY <2>1, <2>5, <2>6, <2>7 DEF ReadInv
<1>3. CASE ProcessTable
  <2>1. /\ building # NoTable /\ built' = built \cup {building}
        /\ UNCHANGED <<schedule, readChan, read, building>>
    BY <1>3 DEF ProcessTable
  <2>2. Processed' = Processed /\ Handed' = Handed BY <2>1 DEF Processed, Handed
  <2> QED BY <2>1, <2>2 DEF ReadInv
<1>4. ASSUME building \in built, building # NoTable, building' = NoTable,
             UNCHANGED <<schedule, readChan, read, built>>
      PROVE  ReadInv'
  <2>1. Processed' = Processed /\ Handed' = Processed /\ Handed = Processed - 1
    BY <1>4 DEF Processed, Handed
  <2>2. schedule[Processed] \in built BY <1>4 DEF ReadInv
  <2> QED BY <1>4, <2>1, <2>2 DEF ReadInv
<1>5. NoTable \notin built BY DEF TypeOK, Tables, NoTable
<1>6. CASE SignalReady BY <1>4, <1>5, <1>6 DEF SignalReady
<1>7. CASE HandOn BY <1>4, <1>5, <1>7 DEF HandOn
<1>8. ASSUME UNCHANGED <<schedule, readChan, read, building, built>> PROVE ReadInv'
  BY <1>8, SameReading
<1>9. CASE LoadConfigs \/ Connect \/ Reset \/ StartLoad \/ SetUp
  BY <1>8, <1>9 DEF LoadConfigs, Connect, Reset, StartLoad, SetUp
<1>10. CASE ReadBaseDataEnds \/ LoadComplete \/ StartClients \/ Complete \/ CreateTables
  BY <1>8, <1>10 DEF ReadBaseDataEnds, LoadComplete, StartClients, Complete, CreateTables
<1>11. CASE InsertStep BY <1>8, <1>11 DEF InsertStep, TakeBuilt, InsertTable
<1>12. CASE UpdateStep
  BY <1>8, <1>12 DEF UpdateStep, UpdatesRead, BeginSplit, SplitPanics, EndSplit
<1>13. CASE UNCHANGED vars BY <1>8, <1>13 DEF vars
<1> QED BY <1>1, <1>2, <1>3, <1>6, <1>7, <1>9, <1>10, <1>11, <1>12, <1>13
        DEF Next, MainStep, ProcessStep

-----------------------------------------------------------------------------
(* What is sent to PostgreSQL. *)

\* No table refers to one that is postponed.
LEMMA ParentsNotPostponed ==
  ASSUME NEW t \in Tables PROVE Parents[t] \subseteq Tables \ Postponed
  BY DEF Tables, Parents, Postponed

\* What has been handed on can be counted.
LEMMA HandedType == TypeOK /\ ReadInv => Handed \in Nat
  BY DEF ReadInv, Handed, TypeOK

\* Reading a table, and taking one, hand nothing on.
LEMMA HandedStays ==
  ASSUME TypeOK, ReadInv, ReadTable \/ TakeRead PROVE Handed' = Handed
<1>0. /\ schedule \in Seq(Tables) /\ read \in Nat
      /\ readChan \in Seq(Tables) /\ Len(readChan) \in Nat
  BY ScheduleFacts DEF TypeOK
<1>1. CASE ReadTable
  <2>1. schedule[read + 1] \in Tables BY <1>0, <1>1, ScheduleFacts DEF ReadTable, TypeOK
  <2>2. Len(readChan') = Len(readChan) + 1 BY <1>0, <1>1, <2>1 DEF ReadTable
  <2>3. read' = read + 1 /\ building' = building BY <1>1 DEF ReadTable
  <2> QED BY <1>0, <2>2, <2>3 DEF Handed, Processed
<1>2. CASE TakeRead
  <2>1. Len(readChan') = Len(readChan) - 1 BY <1>0, <1>2 DEF TakeRead
  <2>2. building' \in Tables /\ read' = read /\ building = NoTable
    BY <1>0, <1>2 DEF TakeRead, reading
  <2>3. building' # NoTable BY <2>2 DEF Tables, NoTable
  <2> QED BY <1>0, <2>1, <2>2, <2>3 DEF Handed, Processed
<1> QED BY <1>1, <1>2

\* At first nothing has been sent.
LEMMA InitSend == Init => SendInv
<1> SUFFICES ASSUME Init PROVE SendInv OBVIOUS
<1>1. read = 0 /\ Len(readChan) = 0 /\ Len(procChan) = 0 /\ building = NoTable BY DEF Init
<1>2. Received = 0 BY <1>1 DEF Received, Handed, Processed
<1> QED BY <1>1, <1>2 DEF Init, SendInv

\* A table that is taken by SendInserts is the next of the schedule, and goes out
\* after those it refers to.
LEMMA StepSend == TypeOK /\ IdleInv /\ ReadInv /\ SendInv /\ [Next]_vars => SendInv'
<1> SUFFICES ASSUME TypeOK, IdleInv, ReadInv, SendInv, [Next]_vars PROVE SendInv' OBVIOUS
<1>0. /\ schedule \in Seq(Tables) /\ read \in Nat
      /\ readChan \in Seq(Tables) /\ Len(readChan) \in Nat
      /\ procChan \in Seq(Tables) /\ Len(procChan) \in Nat
      /\ Handed \in Nat
  BY ScheduleFacts, HandedType DEF TypeOK
<1> USE DEF start, reading, inserting
<1>1. ASSUME UNCHANGED <<sending, schedule, procChan, taken, sent, creator>>, Handed' = Handed
      PROVE  SendInv'
  BY <1>1 DEF SendInv, Received
<1>2. ASSUME UNCHANGED <<settings, schedule, readChan, read, building, procChan, taken, sent, creator>>
      PROVE  SendInv'
  BY <1>2, <1>1 DEF sending, Handed, Processed
<1>3. CASE LoadConfigs
  <2>1. /\ main = "starting"
        /\ UNCHANGED <<schedule, readChan, read, building, procChan, taken, sent, creator>>
    BY <1>3 DEF LoadConfigs
  <2>2. procChan = <<>> /\ taken = {} /\ sent = {} /\ readChan = <<>> /\ read = 0 /\ building = NoTable
    BY <2>1 DEF IdleInv
  <2>3. read' = 0 /\ Len(readChan') = 0 /\ Len(procChan') = 0 /\ building' = NoTable
    BY <2>1, <2>2
  <2>4. Received' = 0 BY <2>3 DEF Received, Handed, Processed
  <2> QED BY <2>1, <2>2, <2>4 DEF SendInv
<1>4. CASE StartLoad
  <2>1. /\ main = "connected"
        /\ UNCHANGED <<settings, schedule, readChan, read, building, procChan, taken, sent>>
    BY <1>4 DEF StartLoad
  <2>2. taken = {} BY <2>1 DEF IdleInv
  <2>3. sending' = sending /\ Received' = Received
    BY <2>1 DEF sending, Received, Handed, Processed
  <2> QED BY <2>1, <2>2, <2>3 DEF SendInv
<1>5. CASE ReadTable \/ TakeRead
  BY <1>1, <1>5, HandedStays DEF ReadTable, TakeRead, sending
<1>6. ASSUME building \in built, building' = NoTable,
             procChan' = IF sending THEN Append(procChan, building) ELSE procChan,
             UNCHANGED <<settings, schedule, readChan, read, creator, taken, sent>>
      PROVE  SendInv'
  <2>1. building \in Tables /\ building # NoTable BY <1>6 DEF TypeOK, Tables, NoTable
  <2>2. Handed' = Handed + 1 /\ building = schedule[Handed + 1]
    BY <1>0, <1>6, <2>1 DEF Handed, Processed, ReadInv
  <2>3. sending' = sending BY <1>6 DEF sending
  <2>4. CASE sending
    <3>1. procChan' = Append(procChan, building) /\ Len(procChan') = Len(procChan) + 1
      BY <1>0, <1>6, <2>1, <2>4
    <3>2. Received' = Received BY <1>0, <2>2, <3>1 DEF Received
    <3>3. Received + (Len(procChan) + 1) = Handed + 1 BY <1>0 DEF Received
    <3>4. \A i \in 1..Len(procChan') : procChan'[i] = schedule[Received + i]
      <4> SUFFICES ASSUME NEW i \in 1..Len(procChan') PROVE procChan'[i] = schedule[Received + i]
        OBVIOUS
      <4>1. CASE i = Len(procChan) + 1 BY <1>0, <2>1, <2>2, <3>1, <3>3, <4>1
      <4>2. CASE i \in 1..Len(procChan) BY <1>0, <2>1, <3>1, <4>2 DEF SendInv
      <4> QED BY <1>0, <3>1, <4>1, <4>2
    <3> QED BY <1>6, <2>3, <2>4, <3>2, <3>4 DEF SendInv
  <2>5. CASE ~sending
    <3>1. procChan' = procChan /\ Received' = Received + 1
      BY <1>0, <1>6, <2>2, <2>5 DEF Received
    <3>2. procChan = <<>> /\ taken = {} BY <2>5 DEF SendInv
    <3> QED BY <1>6, <2>3, <2>5, <3>1, <3>2 DEF SendInv
  <2> QED BY <2>4, <2>5
<1>7. CASE SignalReady BY <1>6, <1>7 DEF SignalReady
<1>8. CASE HandOn BY <1>6, <1>8 DEF HandOn
<1>9. CASE TakeBuilt
  <2>1. /\ creator = "done" /\ procChan # <<>> /\ taken \subseteq sent \cup Postponed
        /\ taken' = taken \cup {Head(procChan)} /\ procChan' = Tail(procChan)
        /\ UNCHANGED <<settings, schedule, readChan, read, building, creator, sent>>
    BY <1>9 DEF TakeBuilt
  <2>2. sending /\ sending' BY <2>1 DEF SendInv, sending
  <2>3. Len(procChan) > 0 /\ Len(procChan') = Len(procChan) - 1 BY <1>0, <2>1
  <2>4. Head(procChan) = schedule[Received + 1] BY <1>0, <2>1, <2>3 DEF SendInv
  <2>5. Received' = Received + 1 /\ Received' - 1 = Received /\ Received \in Nat
    BY <1>0, <2>1, <2>3 DEF Received, Handed, Processed, SendInv
  <2>6. \A i \in 1..Len(procChan') : procChan'[i] = schedule[Received' + i]
    <3> SUFFICES ASSUME NEW i \in 1..Len(procChan') PROVE procChan'[i] = schedule[Received' + i]
      OBVIOUS
    <3>1. i + 1 \in 1..Len(procChan) /\ procChan'[i] = procChan[i + 1] BY <1>0, <2>1, <2>3
    <3>2. Received + (i + 1) = Received' + i BY <2>5
    <3> QED BY <3>1, <3>2 DEF SendInv
  <2>7. \A i \in 1..Received' : schedule[i] \in taken'
    BY <2>1, <2>2, <2>4, <2>5 DEF SendInv
  <2>8. \A t \in taken' : \E i \in 1..Received' : schedule[i] = t
    BY <2>1, <2>4, <2>5 DEF SendInv
  <2>9. \A i \in 1..(Received' - 1) : schedule[i] \in sent \cup Postponed
    BY <2>1, <2>2, <2>5 DEF SendInv
  <2>10. Received' \in Nat BY <2>5
  <2>11. sent \subseteq taken' BY <2>1 DEF SendInv
  <2> QED BY <2>1, <2>2, <2>6, <2>7, <2>8, <2>9, <2>10, <2>11 DEF SendInv
<1>10. ASSUME NEW t \in Tables, InsertTable(t) PROVE SendInv'
  <2>1. /\ Due(t) /\ sent' = sent \cup {t}
        /\ UNCHANGED <<settings, schedule, readChan, read, building, procChan, creator, taken>>
    BY <1>10 DEF InsertTable
  <2>2. Received' = Received /\ sending' = sending
    BY <2>1 DEF Received, Handed, Processed, sending
  <2>3. t \in taken /\ sending BY <2>1 DEF Due, SendInv
  <2>4. Parents[t] \subseteq sent
    <3>1. CASE t \in Postponed BY <2>1, <3>1, ParentsNotPostponed DEF Due
    <3>2. CASE t \notin Postponed
      <4>1. PICK i \in 1..Received : schedule[i] = t BY <2>3 DEF SendInv
      <4>2. i \in DOMAIN schedule
        <5>1. i <= Handed /\ Handed <= read /\ read <= Len(schedule)
          BY <1>0 DEF Received, Handed, Processed, TypeOK, SendInv
        <5> QED BY <1>0, <5>1
      <4>3. \A p \in Parents[t] : \E k \in 1..(i - 1) : schedule[k] = p
        BY <3>2, <4>1, <4>2, ScheduleFacts DEF RespectsParents, TypeOK
      <4>4. ASSUME NEW p \in Parents[t] PROVE p \in sent
        <5>1. PICK k \in 1..(i - 1) : schedule[k] = p BY <4>3
        <5>2. k \in 1..(Received - 1) BY <4>1, <5>1 DEF SendInv
        <5> QED BY <2>3, <5>1, <5>2, ParentsNotPostponed DEF SendInv
      <4> QED BY <4>4
    <3> QED BY <3>1, <3>2
  <2> QED BY <2>1, <2>2, <2>3, <2>4 DEF SendInv
<1>11. CASE Connect \/ Reset \/ SetUp BY <1>2, <1>11 DEF Connect, Reset, SetUp
<1>12. CASE ReadBaseDataEnds \/ LoadComplete \/ StartClients \/ ProcessTable \/ Complete
  BY <1>2, <1>12 DEF ReadBaseDataEnds, LoadComplete, StartClients, ProcessTable, Complete
<1>13. CASE CreateTables
  <2>1. /\ creator' = "done"
        /\ UNCHANGED <<settings, schedule, readChan, read, building, procChan, taken, sent>>
    BY <1>13 DEF CreateTables
  <2>2. Received' = Received /\ sending' = sending
    BY <2>1 DEF Received, Handed, Processed, sending
  <2> QED BY <2>1, <2>2 DEF SendInv
<1>14. CASE UpdateStep
  BY <1>2, <1>14 DEF UpdateStep, UpdatesRead, BeginSplit, SplitPanics, EndSplit
<1>15. CASE UNCHANGED vars BY <1>2, <1>15 DEF vars
<1> QED BY <1>3, <1>4, <1>5, <1>7, <1>8, <1>9, <1>10, <1>11, <1>12, <1>13, <1>14, <1>15
        DEF Next, MainStep, ProcessStep, InsertStep

\* What is sent was taken, and what was taken was built before.
LEMMA SentIsBuilt == TypeOK /\ ReadInv /\ SendInv => SentInOrder
<1> SUFFICES ASSUME TypeOK, ReadInv, SendInv, NEW t \in sent
             PROVE  t \in built /\ creator = "done" /\ Parents[t] \subseteq sent
  BY DEF SentInOrder
<1>1. t \in taken BY DEF SendInv
<1>2. PICK i \in 1..Received : schedule[i] = t BY <1>1 DEF SendInv
<1>3. Handed \in Nat /\ procChan \in Seq(Tables) BY HandedType DEF TypeOK
<1>4. i \in 1..Handed BY <1>2, <1>3 DEF Received, SendInv
<1> QED BY <1>1, <1>2, <1>4 DEF ReadInv, SendInv

OrderInv == IdleInv /\ ReadInv /\ SendInv

\* What has been read, built, handed on and sent is each time a beginning of the
\* schedule, but for the tables SendInserts postpones (ProcessBaseData, SendInserts).
THEOREM OrderInvariant == Spec => []OrderInv
<1>1. Init => OrderInv BY InitOrder, InitSend DEF OrderInv
<1>2. TypeOK /\ OrderInv /\ [Next]_vars => OrderInv'
  BY StepIdle, StepRead, StepSend DEF OrderInv
<1> QED BY <1>1, <1>2, TypeCorrect, PTL DEF Spec

\* A table is sent after it is built and after those it refers to, whatever the
\* order of reading (SendInserts).
THEOREM SentInOrderHolds == Spec => []SentInOrder
  BY SentIsBuilt, OrderInvariant, TypeCorrect, PTL DEF OrderInv

-----------------------------------------------------------------------------
(* The signals. *)

\* A load that is complete has built every table.
LEMMA AllIsBuilt == TypeOK /\ SentInOrder /\ Loaded => built = Tables
  BY DEF Loaded, SentInOrder, TypeOK

\* There are no signals at first.
LEMMA InitSignal == Init => SignalInv
  BY DEF Init, SignalInv

\* A signal is given by who has done what it stands for.
LEMMA StepSignal ==
  TypeOK /\ OrderInv /\ SignalInv /\ [Next]_vars => SignalInv'
<1> SUFFICES ASSUME TypeOK, OrderInv, SignalInv, [Next]_vars PROVE SignalInv' OBVIOUS
<1>0. SentInOrder BY SentIsBuilt DEF OrderInv
<1> USE DEF SignalInv, TypeOK, start, reading, inserting, updates
<1>1. CASE LoadConfigs BY <1>1 DEF LoadConfigs, OrderInv, IdleInv
<1>2. CASE Connect BY <1>2 DEF Connect
<1>3. CASE Reset BY <1>3 DEF Reset
<1>4. CASE StartLoad BY <1>4 DEF StartLoad, OrderInv, IdleInv
<1>5. CASE SetUp BY <1>5 DEF SetUp, AfterSetUp
<1>6. CASE ReadTable BY <1>6 DEF ReadTable
<1>7. CASE ReadBaseDataEnds BY <1>7 DEF ReadBaseDataEnds
<1>8. CASE LoadComplete BY <1>8 DEF LoadComplete
<1>9. CASE StartClients BY <1>9 DEF StartClients
<1>10. CASE TakeRead BY <1>10 DEF TakeRead
<1>11. CASE ProcessTable BY <1>11 DEF ProcessTable
<1>12. CASE SignalReady BY <1>12 DEF SignalReady, Signals
<1>13. CASE HandOn BY <1>13 DEF HandOn
<1>14. CASE Complete BY <1>0, <1>14, AllIsBuilt DEF Complete
<1>15. CASE CreateTables BY <1>15 DEF CreateTables
<1>16. CASE TakeBuilt BY <1>16 DEF TakeBuilt
<1>17. ASSUME NEW t \in Tables, InsertTable(t) PROVE SignalInv' BY <1>17 DEF InsertTable
<1>18. CASE UpdatesRead BY <1>18 DEF UpdatesRead
<1>19. CASE BeginSplit BY <1>19 DEF BeginSplit
<1>20. CASE SplitPanics BY <1>20 DEF SplitPanics
<1>21. CASE EndSplit BY <1>21 DEF EndSplit
<1>22. CASE UNCHANGED vars BY <1>22 DEF vars
<1> QED BY <1>1, <1>2, <1>3, <1>4, <1>5, <1>6, <1>7, <1>8, <1>9, <1>10, <1>11, <1>12,
           <1>13, <1>14, <1>15, <1>16, <1>17, <1>18, <1>19, <1>20, <1>21, <1>22
        DEF Next, MainStep, ProcessStep, InsertStep, UpdateStep

\* The customers come after the nations and the regions, whatever the order.
LEMMA RegionsBeforeCustomers ==
  TypeOK /\ ReadInv /\ "CUSTOMER" \in built => {"REGION", "NATION", "CUSTOMER"} \subseteq built
<1> SUFFICES ASSUME TypeOK, ReadInv, "CUSTOMER" \in built
             PROVE  "NATION" \in built /\ "REGION" \in built
  OBVIOUS
<1>0. /\ schedule \in Seq(Tables) /\ Len(schedule) \in Nat /\ read \in 0..Len(schedule)
      /\ readChan \in Seq(Tables) /\ Processed \in Nat /\ Handed \in Nat
  BY ScheduleFacts, HandedType DEF TypeOK, ReadInv
<1>1. PICK c \in 1..Processed : schedule[c] = "CUSTOMER" BY DEF ReadInv
<1>2. Processed <= read /\ c \in DOMAIN schedule
  <2>1. Processed <= read BY <1>0 DEF Processed
  <2> QED BY <1>0, <1>1, <2>1
<1>3. ASSUME NEW i \in 1..Processed, NEW p \in Parents[schedule[i]], schedule[i] \notin Postponed
      PROVE  \E k \in 1..(i - 1) : schedule[k] = p /\ p \in built
  <2>1. i \in DOMAIN schedule BY <1>0, <1>2
  <2>2. PICK k \in 1..(i - 1) : schedule[k] = p
    BY <1>3, <2>1, ScheduleFacts DEF RespectsParents, TypeOK
  <2>3. k \in 1..Handed BY <1>0, <2>2 DEF Handed
  <2> QED BY <2>2, <2>3 DEF ReadInv
<1>4. PICK n \in 1..(c - 1) : schedule[n] = "NATION" /\ "NATION" \in built
  BY <1>1, <1>3 DEF Parents, Postponed, Tables
<1>5. "REGION" \in built
  <2>1. n \in 1..Processed BY <1>0, <1>1, <1>4
  <2>2. "REGION" \in Parents[schedule[n]] /\ schedule[n] \notin Postponed
    BY <1>4 DEF Parents, Postponed, Tables
  <2> QED BY <1>3, <2>1, <2>2
<1> QED BY <1>4, <1>5

\* A signal that main or ReadUpdates has received, or can receive, stands for what
\* it is taken for: customers built, all tables built, updates split
\* (tablesReadyChan, completeChan, updateChan).
THEOREM SignalInvariant == Spec => []SignalInv
  BY InitSignal, StepSignal, TypeCorrect, OrderInvariant, PTL DEF Spec

\* The split begins with regions, nations and customers (ReadUpdates).
THEOREM SplitHasRegionsHolds == Spec => []SplitHasRegions
<1>1. TypeOK /\ OrderInv /\ SignalInv => SplitHasRegions
  BY RegionsBeforeCustomers DEF OrderInv, SignalInv, SplitHasRegions
<1> QED BY <1>1, TypeCorrect, OrderInvariant, SignalInvariant, PTL

\* The benchmark begins with all tables and updates (Start,
\* prepareQueryClientsBenchmark).
THEOREM BenchmarkHasDataHolds == Spec => []BenchmarkHasData
<1>1. SignalInv => BenchmarkHasData BY DEF SignalInv, BenchmarkHasData
<1> QED BY <1>1, SignalInvariant, PTL

-----------------------------------------------------------------------------
(* The start implements LoadOutcome. *)

Running == IF main = "benchmark" THEN "running" ELSE IF Over THEN "over" ELSE "loading"

\* The first state is a first state of LoadOutcome.
LEMMA InitOutcome == Init => Outcome!Init
<1> SUFFICES ASSUME Init PROVE Outcome!Init OBVIOUS
<1>1. settings = PackageDefault /\ PackageDefault \in [Settings -> BOOLEAN]
  BY DEF Init, PackageDefault
<1>2. updates \in BOOLEAN BY <1>1 DEF updates, Settings
<1> QED BY <1>2 DEF Init, Outcome!Init, Over

\* Every step is one of LoadOutcome or changes nothing it knows of.
LEMMA StepOutcome ==
  TypeOK /\ OrderInv /\ SignalInv /\ SplitHasRegions /\ [Next]_vars
    => [Outcome!Next]_(Outcome!outcome)
<1> SUFFICES ASSUME TypeOK, OrderInv, SignalInv, SplitHasRegions, [Next]_vars
             PROVE  [Outcome!Next]_(Outcome!outcome)
  OBVIOUS
<1> DEFINE Stutters ==
      /\ built' = built /\ updates' = updates
      /\ (updater = "done")' = (updater = "done")
      /\ Running' = Running
<1>0. Stutters => [Outcome!Next]_(Outcome!outcome)
  BY DEF Outcome!outcome, Running
<1> USE DEF start, reading, inserting, Running, Over, updates
<1>1. CASE LoadConfigs
  <2>1. /\ main = "starting" /\ main' = "connecting" /\ built = {} /\ built' = {}
        /\ updater = "none" /\ updater' = "none" /\ settings' \in [Settings -> BOOLEAN]
    BY <1>1, LoadedSettings DEF LoadConfigs, OrderInv, IdleInv
  <2>2. updates' \in BOOLEAN BY <2>1 DEF Settings
  <2> QED BY <2>1, <2>2 DEF Outcome!Next, Outcome!Decide
<1>2. CASE Connect BY <1>0, <1>2 DEF Connect, Outcome!Next, Outcome!GiveUp
<1>3. CASE Reset BY <1>3 DEF Reset, Outcome!Next, Outcome!GiveUp
<1>4. CASE StartLoad
  <2>1. updater = "none" BY <1>4 DEF StartLoad, OrderInv, IdleInv
  <2> QED BY <1>0, <1>4, <2>1 DEF StartLoad, Outcome!Next, Outcome!GiveUp
<1>5. CASE SetUp BY <1>0, <1>5 DEF SetUp, AfterSetUp, Outcome!Next, Outcome!GiveUp
<1>6. CASE ReadTable BY <1>0, <1>6 DEF ReadTable
<1>7. CASE ReadBaseDataEnds BY <1>0, <1>7 DEF ReadBaseDataEnds
<1>8. CASE LoadComplete BY <1>0, <1>8 DEF LoadComplete
<1>9. CASE StartClients
  <2>1. built = Tables /\ (updates => updater = "done")
    BY <1>9 DEF StartClients, SignalInv, TypeOK
  <2> QED BY <1>9, <2>1 DEF StartClients, Outcome!Next, Outcome!BeginBenchmark
<1>10. CASE TakeRead BY <1>0, <1>10 DEF TakeRead
<1>11. ASSUME ProcessTable, Alive PROVE [Outcome!Next]_(Outcome!outcome)
  <2>1. building \in Tables \ built /\ built' = built \cup {building}
    BY <1>11 DEF ProcessTable, TypeOK
  <2>2. main # "benchmark" BY <2>1 DEF SignalInv
  <2> QED BY <1>11, <2>1, <2>2 DEF ProcessTable, Alive, Outcome!Next, Outcome!GainTable
<1>12. CASE SignalReady BY <1>0, <1>12 DEF SignalReady
<1>13. CASE HandOn BY <1>0, <1>13 DEF HandOn
<1>14. CASE Complete BY <1>0, <1>14 DEF Complete
<1>15. CASE CreateTables BY <1>0, <1>15 DEF CreateTables
<1>16. CASE InsertStep BY <1>0, <1>16 DEF InsertStep, TakeBuilt, InsertTable
<1>17. CASE UpdatesRead BY <1>0, <1>17 DEF UpdatesRead
<1>18. CASE BeginSplit BY <1>0, <1>18 DEF BeginSplit
<1>19. ASSUME SplitPanics, Alive PROVE [Outcome!Next]_(Outcome!outcome)
  <2>1. main # "benchmark" BY <1>19 DEF SplitPanics, SignalInv
  <2> QED BY <1>19, <2>1 DEF SplitPanics, Alive, Outcome!Next, Outcome!GiveUp
<1>20. ASSUME EndSplit, Alive PROVE [Outcome!Next]_(Outcome!outcome)
  <2>1. /\ updater = "splitting" /\ updater' = "done" /\ updates
        /\ {"REGION", "NATION", "CUSTOMER"} \subseteq built
        /\ UNCHANGED <<built, settings, main>>
    BY <1>20 DEF EndSplit, SignalInv, SplitHasRegions
  <2>2. main # "benchmark" BY <2>1 DEF SignalInv
  <2> QED BY <1>20, <2>1, <2>2 DEF Alive, Outcome!Next, Outcome!DealUpdates, Outcome!RegionTables
<1>21. CASE UNCHANGED vars BY <1>0, <1>21 DEF vars
<1> QED BY <1>1, <1>2, <1>3, <1>4, <1>5, <1>6, <1>7, <1>8, <1>9, <1>10, <1>11, <1>12,
           <1>13, <1>14, <1>15, <1>16, <1>17, <1>18, <1>19, <1>20, <1>21
        DEF Next, MainStep, ProcessStep, UpdateStep

\* The start keeps the promise of LoadOutcome, for every order of reading and all
\* flags and files.
THEOREM ImplementsOutcome == Spec => ImplementsLoadOutcome
  BY InitOutcome, StepOutcome, TypeCorrect, OrderInvariant, SignalInvariant,
     SplitHasRegionsHolds, PTL
  DEF Spec, ImplementsLoadOutcome, Outcome!Spec

-----------------------------------------------------------------------------
(* The settings. *)

\* At first main has done nothing.
LEMMA InitSettings == Init => SettingsInv
  BY DEF Init, SettingsInv

\* Main does what its settings say.
LEMMA StepSettings ==
  TypeOK /\ IdleInv /\ SettingsInv /\ [Next]_vars => SettingsInv'
<1> SUFFICES ASSUME TypeOK, IdleInv, SettingsInv, [Next]_vars PROVE SettingsInv' OBVIOUS
<1> USE DEF SettingsInv, TypeOK, sending, start, reading, inserting
<1>1. CASE LoadConfigs BY <1>1 DEF LoadConfigs, IdleInv
<1>2. CASE Connect BY <1>2 DEF Connect, IdleInv
<1>3. CASE Reset BY <1>3 DEF Reset, IdleInv
<1>4. CASE StartLoad BY <1>4 DEF StartLoad, IdleInv
<1>5. CASE SetUp BY <1>5 DEF SetUp, AfterSetUp
<1>6. CASE ReadTable BY <1>6 DEF ReadTable
<1>7. CASE ReadBaseDataEnds BY <1>7 DEF ReadBaseDataEnds
<1>8. CASE LoadComplete BY <1>8 DEF LoadComplete
<1>9. CASE StartClients BY <1>9 DEF StartClients
<1>10. CASE TakeRead BY <1>10 DEF TakeRead
<1>11. CASE ProcessTable BY <1>11 DEF ProcessTable
<1>12. CASE SignalReady BY <1>12 DEF SignalReady
<1>13. CASE HandOn BY <1>13 DEF HandOn
<1>14. CASE Complete BY <1>14 DEF Complete
<1>15. CASE CreateTables BY <1>15 DEF CreateTables
<1>16. CASE TakeBuilt BY <1>16 DEF TakeBuilt
<1>17. ASSUME NEW t \in Tables, InsertTable(t) PROVE SettingsInv' BY <1>17 DEF InsertTable
<1>18. CASE UpdatesRead BY <1>18 DEF UpdatesRead
<1>19. CASE BeginSplit BY <1>19 DEF BeginSplit
<1>20. CASE SplitPanics BY <1>20 DEF SplitPanics, IdleInv
<1>21. CASE EndSplit BY <1>21 DEF EndSplit
<1>22. CASE UNCHANGED vars BY <1>22 DEF vars
<1> QED BY <1>1, <1>2, <1>3, <1>4, <1>5, <1>6, <1>7, <1>8, <1>9, <1>10, <1>11, <1>12,
           <1>13, <1>14, <1>15, <1>16, <1>17, <1>18, <1>19, <1>20, <1>21, <1>22
        DEF Next, MainStep, ProcessStep, InsertStep, UpdateStep

\* The variables of the package are what the user meant, but for DOES_INDEXLOAD.
LEMMA SettingsAreMeant ==
  ASSUME NEW i \in Input, NEW c \in loadConfigs(i), NEW s \in Settings \ {"doIndexload"}
  PROVE  c[s] <=> Meant(i, s)
<1> DEFINE entry == loadFlags(i.flags, i.file)[s]
<1>1. i.flags[s] \in {"none", "true", "false"} /\ i.file[s] \in {"absent", "true", "false"}
  BY DEF Input
<1>2. c[s] \in BOOLEAN /\ c[s] \in GetBoolConfig(entry, Default[s])
  BY DEF loadConfigs, loadConfigsFile
<1>3. entry = IF isFlagValid(i.flags[s]) THEN i.flags[s] ELSE i.file[s]
  BY DEF loadFlags, FlagTested
<1>4. Default[s] = PackageDefault[s] BY DEF Default, PackageDefault
<1>5. CASE isFlagValid(i.flags[s])
  <2>1. entry = i.flags[s] /\ i.flags[s] \in {"true", "false"}
    BY <1>1, <1>3, <1>5 DEF isFlagValid
  <2>2. c[s] = (i.flags[s] = "true") BY <1>2, <2>1 DEF GetBoolConfig
  <2> QED BY <1>5, <2>2 DEF Meant
<1>6. CASE ~isFlagValid(i.flags[s])
  <2>1. entry = i.file[s] BY <1>3, <1>6
  <2>2. CASE i.file[s] = "absent"
    <3>1. c[s] = Default[s] BY <1>2, <2>1, <2>2 DEF GetBoolConfig
    <3> QED BY <1>4, <1>6, <2>2, <3>1 DEF Meant
  <2>3. CASE i.file[s] # "absent"
    <3>1. i.file[s] \in {"true", "false"} BY <1>1, <2>3
    <3>2. c[s] = (i.file[s] = "true") BY <1>2, <2>1, <3>1 DEF GetBoolConfig
    <3> QED BY <1>6, <2>3, <3>2 DEF Meant
  <2> QED BY <2>2, <2>3
<1> QED BY <1>5, <1>6

\* What the client does is what the user meant, as far as the code keeps to the
\* help of its flags (loadFlags, loadConfigsFile, Start): for every combination of
\* flags and lines of the file.
THEOREM StartFollowsSettingsHolds == Spec => []StartFollowsSettings
<1>1. ASSUME TypeOK, IdleInv, SettingsInv, SignalInv PROVE StartFollowsSettings
  <2>1. input \in Input BY <1>1, InputsAssumption DEF TypeOK
  <2>2. main # "starting" =>
          \A s \in Settings \ {"doIndexload"} : settings[s] <=> Meant(input, s)
    BY <1>1, <2>1, SettingsAreMeant DEF SettingsInv
  <2>3. CASE main = "starting" BY <1>1, <2>3 DEF IdleInv, StartFollowsSettings
  <2>4. CASE main # "starting"
    <3>1. input.reset = "none" => ~ResetOnly(input) BY DEF ResetOnly, isFlagValid
    <3>2. input.reset = "true" => ResetOnly(input) BY DEF ResetOnly, isFlagValid
    <3>3. \A s \in {"doDataload", "doViewload", "doQueries", "doUpdates", "updRate"} :
            settings[s] <=> Meant(input, s)
      BY <2>2, <2>4 DEF Settings
    <3>4. /\ dropped /\ input.reset = "none" => Meant(input, "doDataload")
          /\ creator # "none" => Meant(input, "doDataload") /\ dropped
          /\ input.reset = "true" => /\ main \in {"starting", "connecting", "connected", "exited"}
                                    /\ read = 0 /\ creator = "none" /\ updater = "none"
      BY <1>1, <3>1, <3>2, <3>3 DEF SettingsInv, sending
    <3>5. updater # "none" => Meant(input, "doUpdates") /\ Meant(input, "updRate")
      BY <1>1, <3>3 DEF SignalInv, updates
    <3>6. /\ main \in {"preparing", "benchmark"}
                => Meant(input, "doQueries") \/ Meant(input, "doUpdates")
          /\ main = "ended" => ~Meant(input, "doQueries") /\ ~Meant(input, "doUpdates")
          /\ setup = "indexes" => ~Meant(input, "doViewload")
          /\ main \in {"preparing", "benchmark", "ended"} =>
               (setup = "views" <=> Meant(input, "doViewload"))
      BY <1>1, <3>3 DEF SettingsInv
    <3> QED BY <3>4, <3>5, <3>6 DEF StartFollowsSettings
  <2> QED BY <2>3, <2>4
<1>2. TypeOK /\ OrderInv /\ SettingsInv /\ [Next]_vars => SettingsInv'
  BY StepSettings DEF OrderInv
<1> QED BY <1>1, <1>2, InitSettings, TypeCorrect, OrderInvariant, SignalInvariant, PTL
        DEF Spec, OrderInv
=============================================================================
