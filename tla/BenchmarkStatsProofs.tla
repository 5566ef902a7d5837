------------------------ MODULE BenchmarkStatsProofs ------------------------
(* What updateBenchmarkStats does to the results of a client.               *)
EXTENDS BenchmarkStats, SequenceTheorems, SumTheorems

\* Intervals add up to intervals.
LEMMA PlusType ==
  ASSUME NEW a \in Mix, NEW b \in Mix
  PROVE  Plus(a, b) \in Mix
BY DEF Plus, Mix

\* A collection keeps the shape of the results and leaves at least one
\* interval, and at most one more than there were.
LEMMA UpdateIntervals ==
  ASSUME NEW r \in Results, NEW n \in Nat, NEW d \in Nat
  PROVE  /\ NewIntervals(r, n, d) \in Seq(Mix)
         /\ NewIntervals(r, n, d) # <<>>
         /\ Len(NewIntervals(r, n, d)) <= Len(r.inter) + 1
<1> DEFINE m == [ops |-> n, dur |-> d]
<1>1. r.inter \in Seq(Mix) /\ m \in Mix
  BY DEF Results, Mix
<1>2. CASE Merges(r, d)
  <2>1. Len(r.inter) \in 1..Len(r.inter)
    BY <1>1, <1>2, LenProperties DEF Merges
  <2>2. r.inter[Len(r.inter)] \in Mix
    BY <1>1, <2>1, ElementOfSeq
  <2>3. Plus(r.inter[Len(r.inter)], m) \in Mix
    BY <1>1, <2>2, PlusType
  <2>4. /\ [r.inter EXCEPT ![Len(r.inter)] = Plus(@, m)] \in Seq(Mix)
        /\ Len([r.inter EXCEPT ![Len(r.inter)] = Plus(@, m)]) = Len(r.inter)
    BY <1>1, <2>1, <2>3, ExceptSeq
  <2> QED
    BY <1>1, <1>2, <2>1, <2>4, EmptySeq, LenProperties DEF NewIntervals
<1>3. CASE ~Merges(r, d)
  BY <1>1, <1>3, AppendProperties, LenProperties DEF NewIntervals
<1> QED BY <1>2, <1>3

\* The first interval of the results after a collection.
LEMMA FirstInterval ==
  ASSUME NEW r \in Results, NEW n \in Nat, NEW d \in Nat
  PROVE  LET new == NewIntervals(r, n, d) IN
           /\ r.inter = <<>> => Len(new) = 1 /\ new[1] = [ops |-> n, dur |-> d]
           /\ r.inter # <<>> /\ Len(new) = 1
                => new[1] = Plus(r.inter[1], [ops |-> n, dur |-> d])
           /\ r.inter # <<>> /\ Len(new) > 1 => new[1] = r.inter[1]
<1> DEFINE m == [ops |-> n, dur |-> d]
<1>1. r.inter \in Seq(Mix) /\ m \in Mix
  BY DEF Results, Mix
<1>2. Len(r.inter) \in Nat /\ (r.inter = <<>> <=> Len(r.inter) = 0)
  BY <1>1, LenProperties, EmptySeq
<1>3. CASE Merges(r, d)
  <2>1. Len(r.inter) \in 1..Len(r.inter) /\ 1 \in 1..Len(r.inter)
    BY <1>2, <1>3 DEF Merges
  <2>2. r.inter[Len(r.inter)] \in Mix
    BY <1>1, <2>1, ElementOfSeq
  <2>3. Plus(r.inter[Len(r.inter)], m) \in Mix
    BY <1>1, <2>2, PlusType
  <2> DEFINE new == [r.inter EXCEPT ![Len(r.inter)] = Plus(@, m)]
  <2>4. /\ Len(new) = Len(r.inter)
        /\ new[1] = IF 1 = Len(r.inter) THEN Plus(r.inter[Len(r.inter)], m) ELSE r.inter[1]
    BY <1>1, <2>1, <2>3, ExceptSeq
  <2> QED
    BY <1>2, <1>3, <2>1, <2>4 DEF NewIntervals, Merges
<1>4. CASE ~Merges(r, d)
  <2>1. /\ Len(Append(r.inter, m)) = Len(r.inter) + 1
        /\ \A i \in 1..Len(r.inter) : Append(r.inter, m)[i] = r.inter[i]
        /\ Append(r.inter, m)[Len(r.inter) + 1] = m
    BY <1>1, AppendProperties
  <2> QED
    BY <1>2, <1>4, <2>1 DEF NewIntervals
<1> QED BY <1>3, <1>4

\* A collection adds to the results what it collects, once: n operations, and
\* at most d of time. The total it makes is well formed.
LEMMA UpdateAccounts ==
  ASSUME NEW r \in Results, NEW n \in Nat, NEW d \in Nat
  PROVE  LET u == UpdateBenchmarkStats(r, n, d) IN
           /\ u \in Results
           /\ u.inter # <<>>
           /\ Len(u.inter) <= Len(r.inter) + 1
           /\ Accounted(u) = Accounted(r) + n
           /\ Covered(u) <= Covered(r) + d
<1> DEFINE m == [ops |-> n, dur |-> d]
           new == NewIntervals(r, n, d)
           u == UpdateBenchmarkStats(r, n, d)
<1>1. r.inter \in Seq(Mix) /\ r.total \in Mix /\ m \in Mix
  BY DEF Results, Mix
<1>2. new \in Seq(Mix) /\ new # <<>> /\ Len(new) <= Len(r.inter) + 1
  BY UpdateIntervals
<1>3. Len(new) \in Nat /\ Len(new) # 0
  BY <1>2, EmptySeq
<1>4. r.inter # <<>> => r.inter[1] \in Mix
  BY <1>1, EmptySeq, ElementOfSeq
<1>5. CountedTime(r, d) \in 0..d
  BY DEF CountedTime
<1>6. NewTotal(r, n, d) \in Mix
  BY <1>1, <1>5 DEF NewTotal, Plus, Mix
<1>7. u = [inter |-> new, total |-> NewTotal(r, n, d)]
  BY DEF UpdateBenchmarkStats
<1>8. u \in Results /\ u.inter = new /\ u.total = NewTotal(r, n, d)
  BY <1>2, <1>6, <1>7 DEF Results
<1> HIDE DEF u, new
<1>9. /\ r.total.ops \in Nat /\ r.total.dur \in Nat
      /\ r.inter # <<>> => r.inter[1].ops \in Nat /\ r.inter[1].dur \in Nat
  BY <1>1, <1>4 DEF Mix
<1>10. Accounted(u) = u.inter[1].ops + u.total.ops /\ Covered(u) = u.inter[1].dur + u.total.dur
  BY <1>2, <1>8 DEF Accounted, Covered
<1>11. ASSUME r.inter = <<>>
       PROVE  Accounted(u) = Accounted(r) + n /\ Covered(u) <= Covered(r) + d
  <2>1. Len(new) = 1 /\ new[1] = m
    BY <1>11, FirstInterval DEF new
  <2>2. u.total = r.total /\ u.inter[1].ops = n /\ u.inter[1].dur = d
    BY <2>1, <1>8 DEF NewTotal, new
  <2> QED
    BY <1>9, <1>10, <1>11, <2>2 DEF Accounted, Covered
<1>12. ASSUME r.inter # <<>>, Len(new) = 1
       PROVE  Accounted(u) = Accounted(r) + n /\ Covered(u) <= Covered(r) + d
  <2>1. new[1] = Plus(r.inter[1], m)
    BY <1>12, FirstInterval DEF new
  <2>2. /\ u.total = r.total
        /\ u.inter[1].ops = r.inter[1].ops + n /\ u.inter[1].dur = r.inter[1].dur + d
    BY <2>1, <1>8, <1>12 DEF NewTotal, Plus, new
  <2>3. /\ Accounted(r) = r.inter[1].ops + r.total.ops
        /\ Covered(r) = r.inter[1].dur + r.total.dur
    BY <1>12 DEF Accounted, Covered
  <2>4. r.inter[1].ops \in Nat /\ r.inter[1].dur \in Nat
    BY <1>9, <1>12
  <2>5. Accounted(u) = Accounted(r) + n
    BY <1>9, <1>10, <2>2, <2>3, <2>4
  <2>6. Covered(u) <= Covered(r) + d
    BY <1>9, <1>10, <2>2, <2>3, <2>4
  <2> QED BY <2>5, <2>6
<1>13. ASSUME r.inter # <<>>, Len(new) > 1
       PROVE  Accounted(u) = Accounted(r) + n /\ Covered(u) <= Covered(r) + d
  <2>1. new[1] = r.inter[1]
    BY <1>13, FirstInterval DEF new
  <2>2. u.total.ops = r.total.ops + n /\ u.total.dur = r.total.dur + CountedTime(r, d)
    BY <1>13, <1>8 DEF NewTotal, Plus, new
  <2>3. /\ Accounted(r) = r.inter[1].ops + r.total.ops
        /\ Covered(r) = r.inter[1].dur + r.total.dur
    BY <1>13 DEF Accounted, Covered
  <2>4. u.inter[1] = r.inter[1]
    BY <1>8, <2>1
  <2> QED
    <3>1. r.inter[1].ops \in Nat /\ r.inter[1].dur \in Nat
      BY <1>9, <1>13
    <3>2. Accounted(u) = Accounted(r) + n
      BY <1>9, <1>10, <2>2, <2>3, <2>4, <3>1
    <3>3. Covered(u) <= Covered(r) + d
      BY <1>5, <1>9, <1>10, <2>2, <2>3, <2>4, <3>1
    <3> QED BY <3>2, <3>3
<1>14. Len(new) = 1 \/ Len(new) > 1
  <2>1. \A k \in Nat : k = 0 \/ k = 1 \/ k > 1
    OBVIOUS
  <2> QED BY <1>3, <2>1, Zenon
<1>15. Accounted(u) = Accounted(r) + n /\ Covered(u) <= Covered(r) + d
  BY <1>11, <1>12, <1>13, <1>14, Zenon
<1> QED BY <1>2, <1>8, <1>15 DEF u

-----------------------------------------------------------------------------
(* The sums over intervals. *)

\* The values that are summed.
FieldsFrom(first, mixes, field) == [i \in first..Len(mixes) |-> mixes[i][field]]

\* They are natural numbers, and so is their sum.
LEMMA SumFromIs ==
  ASSUME NEW mixes \in Seq(Mix), NEW first \in {1, 2}, NEW field \in {"ops", "dur"}
  PROVE  LET S == first..Len(mixes)
             f == FieldsFrom(first, mixes, field) IN
           /\ Len(mixes) \in Nat /\ IsFiniteSet(S)
           /\ \A i \in S : f[i] = mixes[i][field] /\ f[i] \in Nat
           /\ SumFrom(first, mixes, field) = SumFunctionOnSet(f, S)
           /\ SumFrom(first, mixes, field) \in Nat
<1> DEFINE S == first..Len(mixes)
           f == FieldsFrom(first, mixes, field)
<1>1. Len(mixes) \in Nat /\ IsFiniteSet(S)
  BY LenProperties, FS_Interval
<1>2. ASSUME NEW i \in S PROVE f[i] = mixes[i][field] /\ f[i] \in Nat
  <2>1. i \in 1..Len(mixes)
    BY <1>1
  <2>2. mixes[i] \in Mix
    BY <2>1, ElementOfSeq
  <2> QED BY <2>2 DEF FieldsFrom, Mix
<1>3. SumFrom(first, mixes, field) = SumFunctionOnSet(f, S)
  BY DEF SumFrom, SumFunction, FieldsFrom
<1>4. SumFunctionOnSet(f, S) \in Nat
  <2> HIDE DEF S, f
  <2> QED BY <1>1, <1>2, SumType
<1> QED BY <1>1, <1>2, <1>3, <1>4

\* A collection adds what it collects to the sum, unless it goes into an
\* interval that the sum leaves out.
LEMMA SumFromUpdate ==
  ASSUME NEW r \in Results, NEW n \in Nat, NEW d \in Nat,
         NEW first \in {1, 2}, NEW field \in {"ops", "dur"}
  PROVE  LET new == NewIntervals(r, n, d)
             m == [ops |-> n, dur |-> d] IN
           SumFrom(first, new, field) =
             SumFrom(first, r.inter, field) + (IF Len(new) >= first THEN m[field] ELSE 0)
<1> DEFINE m == [ops |-> n, dur |-> d]
           L == Len(r.inter)
           new == NewIntervals(r, n, d)
           f == FieldsFrom(first, r.inter, field)
           g == FieldsFrom(first, new, field)
           S == first..L
<1> SUFFICES SumFrom(first, new, field) =
               SumFrom(first, r.inter, field) + (IF Len(new) >= first THEN m[field] ELSE 0)
  OBVIOUS
<1>1. r.inter \in Seq(Mix) /\ new \in Seq(Mix) /\ m \in Mix /\ m[field] \in Nat
  <2>1. r.inter \in Seq(Mix)
    BY DEF Results
  <2>2. new \in Seq(Mix)
    BY UpdateIntervals
  <2>3. m \in Mix /\ m[field] \in Nat
    BY DEF Mix
  <2> QED BY <2>1, <2>2, <2>3
<1>2. /\ L \in Nat /\ IsFiniteSet(S)
      /\ \A i \in S : f[i] = r.inter[i][field] /\ f[i] \in Nat
      /\ SumFrom(first, r.inter, field) = SumFunctionOnSet(f, S)
      /\ SumFrom(first, r.inter, field) \in Nat
  BY <1>1, SumFromIs
<1>3. /\ Len(new) \in Nat /\ IsFiniteSet(first..Len(new))
      /\ \A i \in first..Len(new) : g[i] = new[i][field] /\ g[i] \in Nat
      /\ SumFrom(first, new, field) = SumFunctionOnSet(g, first..Len(new))
  BY <1>1, SumFromIs
<1>4. CASE Merges(r, d)
  <2>1. L \in 1..L
    BY <1>2, <1>4 DEF Merges
  <2>2. r.inter[L] \in Mix
    BY <1>1, <2>1, ElementOfSeq
  <2>3. Plus(r.inter[L], m) \in Mix
    BY <1>1, <2>2, PlusType
  <2>4. /\ Len(new) = L
        /\ \A i \in 1..L : new[i] = IF i = L THEN Plus(r.inter[L], m) ELSE r.inter[i]
    BY <1>1, <1>4, <2>1, <2>3, ExceptSeq DEF NewIntervals
  <2>5. \A i \in S : i # L => g[i] = f[i]
    BY <1>2, <1>3, <2>4
  <2>6. CASE L >= first
    <3>1. L \in S
      BY <1>2, <2>6
    <3>2. SumFunctionOnSet(g, S) = SumFunctionOnSet(f, S) + (g[L] - f[L])
      <4>1. \A i \in S : f[i] \in Int /\ g[i] \in Int
        BY <1>2, <1>3, <2>4
      <4> HIDE DEF S, f, g
      <4> QED BY <1>2, <2>5, <3>1, <4>1, SumChange
    <3>3. f[L] = r.inter[L][field] /\ g[L] = Plus(r.inter[L], m)[field]
      BY <1>2, <1>3, <2>1, <2>4, <3>1
    <3>4. f[L] \in Nat /\ g[L] = f[L] + m[field]
      BY <1>2, <2>2, <3>1, <3>3 DEF Plus
    <3>5. SumFrom(first, new, field) = SumFrom(first, r.inter, field) + (g[L] - f[L])
      BY <1>2, <1>3, <2>4, <3>2
    <3>6. g[L] - f[L] = m[field] /\ Len(new) >= first
      <4> HIDE DEF f, g, m
      <4> QED BY <1>1, <2>4, <2>6, <3>4
    <3> HIDE DEF f, g, m, new
    <3> QED BY <3>5, <3>6
  <2>7. CASE ~(L >= first)
    <3>1. S = {} /\ Len(new) = L
      BY <1>2, <2>4, <2>7
    <3> QED BY <1>2, <1>3, <2>7, <3>1, SumEmpty
  <2> QED BY <2>6, <2>7
<1>5. CASE ~Merges(r, d)
  <2>1. /\ Len(new) = L + 1
        /\ \A i \in 1..L : new[i] = r.inter[i]
        /\ new[L + 1] = m
    BY <1>1, <1>5, AppendProperties DEF NewIntervals
  <2>2. SumFunctionOnSet(g, S) = SumFunctionOnSet(f, S)
    <3>1. \A i \in S : g[i] = f[i]
      <4>1. \A i \in S : i \in 1..L /\ i \in first..Len(new)
        BY <1>2, <2>1
      <4> HIDE DEF f, g, S, new
      <4> QED BY <1>2, <1>3, <2>1, <4>1
    <3> HIDE DEF f, g, S
    <3> QED BY <1>2, <3>1, SumEqual
  <2>3. CASE L + 1 >= first
    <3>1. first..(L + 1) = S \cup {L + 1} /\ L + 1 \notin S
      BY <1>2, <2>3
    <3>2. \A i \in S \cup {L + 1} : g[i] \in Int
      BY <1>3, <2>1, <3>1
    <3>3. g[L + 1] = m[field]
      <4>1. L + 1 \in first..Len(new)
        BY <1>2, <2>1, <2>3
      <4> HIDE DEF f, g, m, new
      <4> QED BY <1>3, <2>1, <4>1
    <3>4. SumFunctionOnSet(g, S \cup {L + 1}) = g[L + 1] + SumFunctionOnSet(g, S)
      <4> HIDE DEF g, S
      <4> QED BY <1>2, <3>1, <3>2, SumAdd
    <3>5. SumFrom(first, new, field) = m[field] + SumFrom(first, r.inter, field)
      BY <1>2, <1>3, <2>1, <2>2, <3>1, <3>3, <3>4
    <3>6. Len(new) >= first
      BY <2>1, <2>3
    <3> HIDE DEF f, g, m, new
    <3> QED BY <1>1, <1>2, <3>5, <3>6
  <2>4. CASE ~(L + 1 >= first)
    <3>1. S = {} /\ first..(L + 1) = {}
      BY <1>2, <2>4
    <3> QED BY <1>2, <1>3, <2>1, <2>4, <3>1, SumEmpty
  <2> QED BY <2>3, <2>4
<1> QED BY <1>4, <1>5

\* No intervals have the sum 0.
LEMMA SumFromEmpty ==
  ASSUME NEW first \in {1, 2}, NEW field \in {"ops", "dur"}
  PROVE  SumFrom(first, <<>>, field) = 0
<1>1. first..Len(<<>>) = {}
  OBVIOUS
<1>2. <<>> \in Seq(Mix)
  OBVIOUS
<1>3. SumFrom(first, <<>>, field) =
        SumFunctionOnSet(FieldsFrom(first, <<>>, field), first..Len(<<>>))
  BY <1>2, SumFromIs
<1> QED BY <1>1, <1>3, SumEmpty

-----------------------------------------------------------------------------
(* The rows and the last line of the file. *)

\* The smallest of some natural numbers.
LEMMA MinIs ==
  ASSUME NEW S \in SUBSET Nat, S # {}
  PROVE  Min(S) \in S /\ \A x \in S : Min(S) <= x
<1> DEFINE Less == OpToRel(<, Nat)
<1>1. \E x \in S : \A y \in S : ~ (<<y, x>> \in Less)
  <2>1. IsWellFoundedOn(Less, Nat) BY NatLessThanWellFounded
  <2> HIDE DEF Less
  <2> QED BY <2>1, WFMin
<1>2. PICK x \in S : \A y \in S : ~ (y < x)
  BY <1>1 DEF OpToRel
<1>3. \A y \in S : x <= y
  BY <1>2
<1> QED BY <1>3 DEF Min

\* The results when the report is made of them: each client has an interval,
\* and its total is that of the intervals after the first.
Reportable(results) ==
  /\ results \in [Client -> Results]
  /\ \A c \in Client : /\ results[c].inter # <<>>
                       /\ results[c].total.ops = SumFrom(2, results[c].inter, "ops")

\* There is a row for each interval but the first that all the clients have.
LEMMA RowCountIs ==
  ASSUME NEW results, Reportable(results)
  PROVE  /\ RowCount(results) \in Nat
         /\ \A c \in Client : /\ Len(results[c].inter) \in Nat
                              /\ RowCount(results) + 1 <= Len(results[c].inter)
         /\ Cardinality({Len(results[c].inter) : c \in Client}) = 1
              => \A c \in Client : Len(results[c].inter) = RowCount(results) + 1
<1> DEFINE lengths == {Len(results[c].inter) : c \in Client}
<1>1. ASSUME NEW c \in Client PROVE Len(results[c].inter) \in Nat \ {0}
  <2>1. results[c].inter \in Seq(Mix) /\ results[c].inter # <<>>
    BY DEF Reportable, Results
  <2> QED BY <2>1, LenProperties, EmptySeq
<1>2. lengths \subseteq Nat \ {0} /\ lengths # {}
  BY <1>1, ClientAssumption
<1>3. Min(lengths) \in lengths /\ \A x \in lengths : Min(lengths) <= x
  BY <1>2, MinIs
<1>4. RowCount(results) = Min(lengths) - 1
  BY DEF RowCount
<1>5. ASSUME Cardinality(lengths) = 1, NEW c \in Client
      PROVE  Len(results[c].inter) = Min(lengths)
  <2> DEFINE f == [d \in Client |-> Len(results[d].inter)]
  <2>1. f \in Surjection(Client, lengths)
    BY DEF Surjection
  <2>2. IsFiniteSet(lengths)
    BY <2>1, FS_Surjection, ClientAssumption
  <2>3. \E x : lengths = {x}
    BY <1>5, <2>2, FS_Singleton
  <2> QED BY <1>3, <2>3
<1>6. \A c \in Client : Min(lengths) <= Len(results[c].inter)
  BY <1>3
<1> HIDE DEF lengths
<1>7. RowCount(results) \in Nat /\ Min(lengths) \in Nat /\ RowCount(results) + 1 = Min(lengths)
  <2>1. Min(lengths) \in Nat \ {0}
    BY <1>2, <1>3
  <2>2. \A m \in Nat \ {0} : m - 1 \in Nat /\ (m - 1) + 1 = m
    OBVIOUS
  <2> QED BY <1>4, <2>1, <2>2
<1> QED BY <1>1, <1>5, <1>6, <1>7 DEF lengths

\* The operations of a client's intervals 2 to n + 1.
PartOf(results, c, n) == SumFunctionOnSet(FieldsFrom(2, results[c].inter, "ops"), 2..(n + 1))

\* What the parts are, and how they grow, as long as there are intervals.
LEMMA PartIs ==
  ASSUME NEW results, Reportable(results), NEW c \in Client, NEW n \in 0..RowCount(results)
  PROVE  /\ PartOf(results, c, n) \in Nat
         /\ n < RowCount(results)
              => /\ results[c].inter[n + 2].ops \in Nat
                 /\ PartOf(results, c, n + 1) = PartOf(results, c, n) + results[c].inter[n + 2].ops
         /\ PartOf(results, c, n) <= results[c].total.ops
         /\ n + 1 = Len(results[c].inter) => PartOf(results, c, n) = results[c].total.ops
<1> DEFINE s == results[c].inter
           L == Len(s)
           f == FieldsFrom(2, s, "ops")
           A == 2..(n + 1)
           B == (n + 2)..L
<1>1. n \in Nat /\ n + 1 <= L /\ (n < RowCount(results) => n + 2 <= L)
  <2>1. RowCount(results) \in Nat /\ L \in Nat /\ RowCount(results) + 1 <= L
    BY RowCountIs
  <2> QED BY <2>1
<1>2. /\ L \in Nat
      /\ \A i \in 2..L : f[i] = s[i].ops /\ f[i] \in Nat
      /\ results[c].total.ops = SumFunctionOnSet(f, 2..L)
  <2>1. s \in Seq(Mix) BY DEF Reportable, Results
  <2>2. results[c].total.ops = SumFrom(2, s, "ops") BY DEF Reportable
  <2> QED BY <2>1, <2>2, SumFromIs
<1>3. 2..L = A \cup B /\ A \cap B = {} /\ IsFiniteSet(A) /\ IsFiniteSet(B)
  <2>1. 2..L = A \cup B /\ A \cap B = {}
    BY <1>1, <1>2
  <2>2. n + 1 \in Int /\ n + 2 \in Int /\ L \in Int
    BY <1>1, <1>2
  <2>3. IsFiniteSet(A) /\ IsFiniteSet(B)
    <3>1. \A a, b \in Int : IsFiniteSet(a..b)
      BY FS_Interval
    <3> QED BY <2>2, <3>1
  <2> QED BY <2>1, <2>3
<1>4. PartOf(results, c, n) = SumFunctionOnSet(f, A)
  BY DEF PartOf
<1>5. \A i \in A \cup B : f[i] \in Nat
  BY <1>2, <1>3
<1>6. results[c].total.ops = SumFunctionOnSet(f, A) + SumFunctionOnSet(f, B)
  <2> HIDE DEF A, B, f, s
  <2>1. \A i \in A \cup B : f[i] \in Int
    BY <1>5
  <2>2. SumFunctionOnSet(f, A \cup B) = SumFunctionOnSet(f, A) + SumFunctionOnSet(f, B)
    BY <1>3, <2>1, SumUnion
  <2> QED BY <1>2, <1>3, <2>2
<1>7. SumFunctionOnSet(f, A) \in Nat /\ SumFunctionOnSet(f, B) \in Nat
  <2> HIDE DEF A, B, f
  <2> QED BY <1>3, <1>5, SumType
<1>8. ASSUME n < RowCount(results)
      PROVE  /\ s[n + 2].ops \in Nat
             /\ PartOf(results, c, n + 1) = SumFunctionOnSet(f, A) + s[n + 2].ops
  <2>1. n + 2 \in 2..L /\ n + 2 \notin A /\ 2..((n + 1) + 1) = A \cup {n + 2}
    BY <1>1, <1>2, <1>8
  <2>2. f[n + 2] = s[n + 2].ops /\ f[n + 2] \in Nat
    BY <1>2, <2>1
  <2>3. SumFunctionOnSet(f, A \cup {n + 2}) = f[n + 2] + SumFunctionOnSet(f, A)
    <3>1. \A i \in A \cup {n + 2} : f[i] \in Int
      BY <1>5, <2>2
    <3> HIDE DEF A, f
    <3> QED BY <1>3, <2>1, <3>1, SumAdd
  <2>4. PartOf(results, c, n + 1) = SumFunctionOnSet(f, A \cup {n + 2})
    BY <2>1 DEF PartOf
  <2> HIDE DEF f, A
  <2> QED BY <1>7, <2>2, <2>3, <2>4
<1>9. ASSUME n + 1 = L PROVE SumFunctionOnSet(f, B) = 0
  <2>1. B = {} BY <1>1, <1>9
  <2> QED BY <2>1, SumEmpty
<1> HIDE DEF f, A, B
<1> QED BY <1>4, <1>6, <1>7, <1>8, <1>9

\* The rows up to the n-th, added up, are the clients' parts, added up.
LEMMA RowsAreParts ==
  ASSUME NEW results, Reportable(results)
  PROVE  \A n \in 0..RowCount(results) :
           SumFunctionOnSet([i \in 1..RowCount(results) |-> Row(results, i).ops], 1..n) =
             SumFunctionOnSet([c \in Client |-> PartOf(results, c, n)], Client)
<1> DEFINE K == RowCount(results)
           rows == [i \in 1..K |-> Row(results, i).ops]
           parts(n) == [c \in Client |-> PartOf(results, c, n)]
           T == {n \in Nat : n <= K =>
                   SumFunctionOnSet(rows, 1..n) = SumFunctionOnSet(parts(n), Client)}
<1>1. K \in Nat /\ IsFiniteSet(Client)
  BY RowCountIs, ClientAssumption
<1>2. \A n \in 0..K : \A c \in Client : parts(n)[c] \in Nat
  BY PartIs
<1>3. 0 \in T
  <2>1. 1..0 = {} /\ 2..(0 + 1) = {}
    OBVIOUS
  <2>2. \A c \in Client : parts(0)[c] = 0
    BY <2>1, SumEmpty DEF PartOf
  <2>3. SumFunctionOnSet(parts(0), Client) = 0 * Cardinality(Client)
    <3> HIDE DEF parts
    <3> QED BY <1>1, <2>2, SumConst
  <2>4. Cardinality(Client) \in Nat
    BY <1>1, FS_CardinalityType
  <2> QED BY <2>1, <2>3, <2>4, SumEmpty
<1>4. ASSUME NEW n \in Nat, n \in T PROVE n + 1 \in T
  <2> SUFFICES ASSUME n + 1 <= K
               PROVE  SumFunctionOnSet(rows, 1..(n + 1)) = SumFunctionOnSet(parts(n + 1), Client)
    OBVIOUS
  <2> DEFINE row == [c \in Client |-> results[c].inter[(n + 1) + 1].ops]
  <2>1. n \in 0..K /\ n + 1 \in 0..K /\ n < K /\ (n + 1) + 1 = n + 2
    BY <1>1
  <2>2. \A c \in Client : row[c] \in Nat /\ parts(n + 1)[c] = parts(n)[c] + row[c]
    BY <2>1, PartIs
  <2>3. SumFunctionOnSet(parts(n + 1), Client) =
          SumFunctionOnSet(parts(n), Client) + SumFunctionOnSet(row, Client)
    <3>1. \A c \in Client : /\ parts(n)[c] \in Int /\ row[c] \in Int
                            /\ parts(n + 1)[c] = parts(n)[c] + row[c]
      BY <1>2, <2>1, <2>2
    <3> HIDE DEF parts, row
    <3> QED BY <1>1, <3>1, SumPlus
  <2>4. rows[n + 1] = SumFunctionOnSet(row, Client)
    BY <1>1, <2>1 DEF Row, SumFunction
  <2>5. 1..(n + 1) = 1..n \cup {n + 1} /\ n + 1 \notin 1..n /\ IsFiniteSet(1..n)
    <3>1. 1..(n + 1) = 1..n \cup {n + 1} /\ n + 1 \notin 1..n
      OBVIOUS
    <3>2. IsFiniteSet(1..n)
      BY FS_Interval
    <3> QED BY <3>1, <3>2
  <2>6. \A i \in 1..(n + 1) : rows[i] \in Int
    <3>1. ASSUME NEW i \in 1..(n + 1)
          PROVE  SumFunctionOnSet([c \in Client |-> results[c].inter[i + 1].ops], Client) \in Int
      <4> DEFINE rowI == [c \in Client |-> results[c].inter[i + 1].ops]
      <4>1. i - 1 \in 0..K /\ i - 1 < K /\ (i - 1) + 2 = i + 1
        BY <1>1
      <4>2. \A c \in Client : rowI[c] \in Int
        BY <4>1, PartIs
      <4> HIDE DEF rowI
      <4>3. SumFunctionOnSet(rowI, Client) \in Int
        BY <1>1, <4>2, SumType
      <4> QED BY <4>3 DEF rowI
    <3>2. \A i \in 1..(n + 1) :
            rows[i] = SumFunctionOnSet([c \in Client |-> results[c].inter[i + 1].ops], Client)
      BY <1>1 DEF Row, SumFunction
    <3> QED BY <3>1, <3>2
  <2>7. SumFunctionOnSet(rows, 1..(n + 1)) = rows[n + 1] + SumFunctionOnSet(rows, 1..n)
    <3> HIDE DEF rows
    <3> QED BY <2>5, <2>6, SumAdd
  <2>8. SumFunctionOnSet(rows, 1..n) = SumFunctionOnSet(parts(n), Client)
    BY <1>4, <2>1
  <2>9. SumFunctionOnSet(row, Client) \in Nat /\ SumFunctionOnSet(parts(n), Client) \in Nat
    <3> HIDE DEF parts, row
    <3> QED BY <1>1, <1>2, <2>1, <2>2, SumType
  <2> HIDE DEF rows, parts, row
  <2> QED BY <2>3, <2>4, <2>7, <2>8, <2>9
<1> HIDE DEF T
<1>5. Nat \subseteq T BY <1>3, <1>4, SetInduction
<1>6. \A n \in 0..K : n \in Nat /\ n <= K
  BY <1>1
<1> QED BY <1>5, <1>6 DEF T

\* The rows never show more operations than the last line, and show all of them
\* when every client has the same number of intervals (convertStats).
LEMMA RowsAgree ==
  ASSUME NEW results, Reportable(results)
  PROVE  LET report == Report(results)
             shown == SumFrom(1, report.rows, "ops") IN
           /\ shown <= report.total.ops
           /\ Cardinality({Len(results[c].inter) : c \in Client}) = 1 => shown = report.total.ops
<1> DEFINE K == RowCount(results)
           parts == [c \in Client |-> PartOf(results, c, K)]
           totals == [c \in Client |-> results[c].total.ops]
<1>1. K \in Nat /\ IsFiniteSet(Client)
  BY RowCountIs, ClientAssumption
<1>2. SumFrom(1, Report(results).rows, "ops") = SumFunctionOnSet(parts, Client)
  <2>1. Report(results).rows = [i \in 1..K |-> Row(results, i)] /\ Len(Report(results).rows) = K
    BY <1>1 DEF Report
  <2>2. SumFrom(1, Report(results).rows, "ops") =
          SumFunctionOnSet([i \in 1..K |-> Row(results, i).ops], 1..K)
    BY <2>1 DEF SumFrom, SumFunction
  <2>3. K \in 0..K
    BY <1>1
  <2> QED BY <2>2, <2>3, RowsAreParts
<1>3. Report(results).total.ops = SumFunctionOnSet(totals, Client)
  BY DEF Report, TotalRow, SumFunction
<1>4. \A c \in Client : parts[c] \in Nat /\ totals[c] \in Nat /\ parts[c] <= totals[c]
  <2>1. \A c \in Client : results[c].total.ops \in Nat
    BY DEF Reportable, Results, Mix
  <2> QED BY <1>1, <2>1, PartIs
<1>5. ASSUME Cardinality({Len(results[c].inter) : c \in Client}) = 1
      PROVE  \A c \in Client : parts[c] = totals[c]
  <2>1. \A c \in Client : K + 1 = Len(results[c].inter) /\ K \in 0..K
    BY <1>1, <1>5, RowCountIs
  <2> QED BY <2>1, PartIs
<1> HIDE DEF parts, totals
<1>6. SumFunctionOnSet(parts, Client) <= SumFunctionOnSet(totals, Client)
  BY <1>1, <1>4, SumLeq
<1>7. (\A c \in Client : parts[c] = totals[c])
        => SumFunctionOnSet(parts, Client) = SumFunctionOnSet(totals, Client)
  BY <1>1, SumEqual
<1> QED BY <1>2, <1>3, <1>5, <1>6, <1>7
=============================================================================
