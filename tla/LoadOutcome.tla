---------------------------- MODULE LoadOutcome ----------------------------
(***************************************************************************)
(* What the start of the client promises the benchmark, without saying how *)
(* it is reached: the tables come into being one by one, the updates are   *)
(* dealt to the clients once, and the benchmark begins when all of it is   *)
(* there, or never. Nothing of it changes once the benchmark runs.         *)
(***************************************************************************)
CONSTANT Tables

VARIABLES
  built,    \* the tables there are
  wanted,   \* whether the benchmark needs updates
  dealt,    \* whether they are dealt
  phase     \* of the program

outcome == <<built, wanted, dealt, phase>>

\* The tables that say of which region an update is.
RegionTables == {"REGION", "NATION", "CUSTOMER"}

Init == built = {} /\ wanted \in BOOLEAN /\ dealt = FALSE /\ phase = "loading"

Decide ==
  /\ phase = "loading" /\ built = {} /\ ~dealt
  /\ wanted' \in BOOLEAN
  /\ UNCHANGED <<built, dealt, phase>>

GainTable ==
  /\ phase = "loading"
  /\ \E t \in Tables \ built : built' = built \cup {t}
  /\ UNCHANGED <<wanted, dealt, phase>>

DealUpdates ==
  /\ phase = "loading" /\ wanted /\ ~dealt
  /\ RegionTables \subseteq built
  /\ dealt' = TRUE
  /\ UNCHANGED <<built, wanted, phase>>

BeginBenchmark ==
  /\ phase = "loading" /\ built = Tables /\ (wanted => dealt)
  /\ phase' = "running"
  /\ UNCHANGED <<built, wanted, dealt>>

GiveUp ==
  /\ phase = "loading"
  /\ phase' = "over"
  /\ UNCHANGED <<built, wanted, dealt>>

Next == Decide \/ GainTable \/ DealUpdates \/ BeginBenchmark \/ GiveUp

Spec == Init /\ [][Next]_outcome
=============================================================================
