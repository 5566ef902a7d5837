----------------------------- MODULE ViewNames -----------------------------
(***************************************************************************)
(* The names of the views (pgViews.go): those that each query's Make..View *)
(* creates, goroutine by goroutine, and those that the query later picks   *)
(* at random from. Nothing but these two loops ties them together. A name  *)
(* is the tuple of what the code appends to "q3", "q5" and so on; the      *)
(* Redirect variants use the same names.                                   *)
(***************************************************************************)
EXTENDS Integers

CONSTANTS
  Q3Dates,     \* nWait of MakeQ3View, which starts one goroutine more
  Q5Years,     \* the years of MakeQ5View
  Q14Years     \* the years, and nWait, of MakeQ14View

ASSUME SizesAssumption == Q3Dates \in Nat /\ Q5Years \in Nat /\ Q14Years \in Nat

Segments == {"AUTOMOBILE", "BUILDING", "FURNITURE", "MACHINERY", "HOUSEHOLD"}
Regions == 0..4
Nations == 0..24
Years == 1993..1997

\* Rng.Intn(n).
Intn(n) == 0..(n - 1)

\* The base view and the 60 days before it.
Q1Made == {60} \cup 61..120

Q1Asked == {60} \cup {r + 61 : r \in Intn(60)}

\* Bug-seeded: the days count from 0.
Q3Made_FromZero(i) == {<<i, s>> : s \in Segments}

\* The i-th goroutine has the i-th day after March 1st.
Q3Made(i) == {<<1 + i, s>> : s \in Segments}

\* A day of March, 31 of them when Q3Dates is 30.
Q3Asked == {<<r + 1, s>> : r \in Intn(Q3Dates + 1), s \in Segments}

\* The i-th goroutine has the i-th year.
Q5Made(i) == {<<1992 + i, r>> : r \in Regions}

Q5Asked == {<<y + 1993, r>> : y \in Intn(Q5Years), r \in Intn(5)}

\* The discounts are those of a loop from 0.01 to 0.08, named by the hundredths
\* of the next one.
Q6Made == {<<y, h + 1, amount>> : y \in Years, h \in 1..8, amount \in {24, 25}}

Q6Asked == {<<y + 1993, q + 2, a + 24>> : y \in Intn(5), q \in Intn(8), a \in Intn(2)}

Q11Made == {"p", "n"} \X Nations

Q11Asked == {"p", "n"} \X Intn(25)

Q14Made(i) == {<<1992 + i, month>> : month \in 1..12}

Q14Asked == {<<y + 1993, m + 1>> : y \in Intn(Q14Years), m \in Intn(12)}

\* The first months of the quarters.
Q15Made == {<<y, month>> : y \in Years, month \in {m \in 1..12 : m % 3 = 1}}

Q15Asked == {<<y + 1993, q * 3 + 1>> : y \in Intn(5), q \in Intn(4)}

Q18Made == 312..315

Q18Asked == {q + 312 : q \in Intn(4)}
=============================================================================
