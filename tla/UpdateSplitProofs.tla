------------------------ MODULE UpdateSplitProofs ------------------------
(***************************************************************************)
(* The split of the updates, for every update file and any numbers of      *)
(* regions and routines.                                                   *)
(***************************************************************************)
EXTENDS UpdateSplit, SequenceTheorems, SumTheorems

(* Sequences put one after the other (FlattenSeq). *)

\* g has the beginnings of ss, flattened, up to the n-th.
FlatUpTo(g, ss, n) ==
  g = [i \in 1..n |-> IF i = 1 THEN ss[i] ELSE g[i - 1] \o ss[i]]

\* There is such a function: by induction.
LEMMA FlatExists ==
  ASSUME NEW ss
  PROVE  \A n \in Nat : \E g : FlatUpTo(g, ss, n)
<1> DEFINE T == {n \in Nat : \E g : FlatUpTo(g, ss, n)}
<1>1. 0 \in T
  <2>1. FlatUpTo([i \in 1..0 |-> <<>>], ss, 0) BY DEF FlatUpTo
  <2> QED BY <2>1
<1>2. ASSUME NEW n \in Nat, n \in T PROVE n + 1 \in T
  <2>1. PICK g : FlatUpTo(g, ss, n) BY <1>2
  <2> DEFINE h == [i \in 1..(n + 1) |->
                     IF i = n + 1 THEN (IF i = 1 THEN ss[i] ELSE g[i - 1] \o ss[i]) ELSE g[i]]
  <2>2. \A i \in 1..n : h[i] = g[i] /\ (i # 1 => i - 1 \in 1..n) OBVIOUS
  <2>3. \A i \in 1..n : g[i] = IF i = 1 THEN ss[i] ELSE g[i - 1] \o ss[i]
    BY <2>1 DEF FlatUpTo
  <2>4. \A i \in 1..(n + 1) : h[i] = IF i = 1 THEN ss[i] ELSE h[i - 1] \o ss[i]
    <3> TAKE i \in 1..(n + 1)
    <3>1. CASE i = n + 1
      <4>1. CASE i = 1 BY <3>1, <4>1
      <4>2. CASE i # 1
        <5>1. i - 1 \in 1..n BY <3>1, <4>2
        <5> QED BY <3>1, <4>2, <5>1, <2>2
      <4> QED BY <4>1, <4>2
    <3>2. CASE i # n + 1
      <4>1. i \in 1..n BY <3>2
      <4> QED BY <4>1, <2>2, <2>3
    <3> QED BY <3>1, <3>2
  <2>5. h = [i \in 1..(n + 1) |-> h[i]] OBVIOUS
  <2> HIDE DEF h
  <2>6. FlatUpTo(h, ss, n + 1) BY <2>4, <2>5 DEF FlatUpTo
  <2> QED BY <2>6
<1> HIDE DEF T
<1>3. Nat \subseteq T BY <1>1, <1>2, SetInduction
<1> QED BY <1>3 DEF T

\* What FlattenSeq chooses is one.
LEMMA FlatChosen ==
  ASSUME NEW S, NEW ss \in Seq(S), ss # <<>>
  PROVE  \E g : FlatUpTo(g, ss, Len(ss)) /\ FlattenSeq(ss) = g[Len(ss)]
<1> DEFINE g == CHOOSE h : FlatUpTo(h, ss, Len(ss))
<1>1. Len(ss) \in Nat \ {0} BY EmptySeq
<1>2. FlatUpTo(g, ss, Len(ss)) BY <1>1, FlatExists
<1>3. FlattenSeq(ss) = g[Len(ss)] BY <1>1 DEF FlattenSeq, FlatUpTo
<1> QED BY <1>2, <1>3

\* No sequence is the empty sequence.
LEMMA FlatEmpty == FlattenSeq(<<>>) = <<>>
BY DEF FlattenSeq

\* One more sequence is put at the end.
LEMMA FlatAppend ==
  ASSUME NEW S, NEW ss \in Seq(Seq(S)), NEW s \in Seq(S)
  PROVE  FlattenSeq(Append(ss, s)) = FlattenSeq(ss) \o s
<1> DEFINE n == Len(ss)
           tt == Append(ss, s)
<1> SUFFICES FlattenSeq(tt) = FlattenSeq(ss) \o s OBVIOUS
<1>1. /\ n \in Nat /\ tt \in Seq(Seq(S)) /\ tt # <<>> /\ Len(tt) = n + 1
      /\ tt[n + 1] = s /\ \A i \in 1..n : tt[i] = ss[i]
  BY AppendProperties, LenProperties
<1>2. PICK h : FlatUpTo(h, tt, n + 1) /\ FlattenSeq(tt) = h[n + 1] BY <1>1, FlatChosen
<1> HIDE DEF tt
<1>3. \A i \in 1..(n + 1) : h[i] = IF i = 1 THEN tt[i] ELSE h[i - 1] \o tt[i]
  BY <1>2 DEF FlatUpTo
<1>4. CASE ss = <<>>
  <2>1. n = 0 BY <1>4
  <2>2. h[n + 1] = tt[n + 1] BY <1>3, <2>1
  <2>3. <<>> \o s = s BY ConcatEmptySeq
  <2> QED BY <2>2, <2>3, <1>1, <1>2, <1>4, FlatEmpty
<1>5. CASE ss # <<>>
  <2>1. n \in Nat \ {0} BY <1>5, EmptySeq
  <2>2. PICK g : FlatUpTo(g, ss, n) /\ FlattenSeq(ss) = g[n] BY <1>5, FlatChosen
  <2> DEFINE T == {k \in Nat : k + 1 \in 1..n => h[k + 1] = g[k + 1]}
  <2>3. \A i \in 1..n : /\ g[i] = IF i = 1 THEN ss[i] ELSE g[i - 1] \o ss[i]
                        /\ h[i] = IF i = 1 THEN ss[i] ELSE h[i - 1] \o ss[i]
    <3>1. \A i \in 1..n : g[i] = IF i = 1 THEN ss[i] ELSE g[i - 1] \o ss[i]
      BY <2>2 DEF FlatUpTo
    <3>2. \A i \in 1..n : i \in 1..(n + 1) /\ tt[i] = ss[i]
      BY <1>1
    <3>3. \A i \in 1..n : h[i] = IF i = 1 THEN tt[i] ELSE h[i - 1] \o tt[i]
      BY <1>3, <3>2
    <3> QED BY <3>1, <3>2, <3>3
  <2>4. 0 \in T BY <2>3
  <2>5. ASSUME NEW k \in Nat, k \in T PROVE k + 1 \in T
    <3> SUFFICES ASSUME k + 2 \in 1..n PROVE h[k + 2] = g[k + 2] OBVIOUS
    <3>1. h[k + 1] = g[k + 1] /\ (k + 2) - 1 = k + 1 /\ k + 2 # 1 BY <2>5
    <3> QED BY <3>1, <2>3
  <2> HIDE DEF T
  <2>6. Nat \subseteq T BY <2>4, <2>5, SetInduction
  <2>7. h[n] = g[n]
    <3>1. n - 1 \in T BY <2>1, <2>6
    <3> QED BY <2>1, <3>1 DEF T
  <2>8. h[n + 1] = h[n] \o tt[n + 1]
    <3>1. n + 1 \in 1..(n + 1) /\ n + 1 # 1 /\ (n + 1) - 1 = n BY <2>1
    <3> QED BY <1>3, <3>1
  <2>9. tt[n + 1] = s BY <1>1
  <2>10. FlattenSeq(tt) = h[n + 1] BY <1>2
  <2> QED BY <2>2, <2>7, <2>8, <2>9, <2>10, Zenon
<1> QED BY <1>4, <1>5

\* A sequence with elements has a last one.
LEMMA LastApart ==
  ASSUME NEW S, NEW q \in Seq(S), q # <<>>
  PROVE  \E s \in Seq(S) : \E e \in S : q = Append(s, e)
BY SequenceEmptyOrAppend, Zenon

\* Flattened sequences of elements are sequences of elements.
LEMMA FlatType ==
  ASSUME NEW S, NEW ss \in Seq(Seq(S))
  PROVE  FlattenSeq(ss) \in Seq(S)
<1> DEFINE T == {n \in Nat : \A tt \in Seq(Seq(S)) : Len(tt) = n => FlattenSeq(tt) \in Seq(S)}
<1>1. 0 \in T
  <2>1. \A tt \in Seq(Seq(S)) : Len(tt) = 0 => tt = <<>> BY EmptySeq
  <2>2. <<>> \in Seq(S) OBVIOUS
  <2> QED BY <2>1, <2>2, FlatEmpty
<1>2. ASSUME NEW n \in Nat, n \in T PROVE n + 1 \in T
  <2> SUFFICES ASSUME NEW tt \in Seq(Seq(S)), Len(tt) = n + 1
               PROVE  FlattenSeq(tt) \in Seq(S)
    OBVIOUS
  <2>1. PICK uu \in Seq(Seq(S)), s \in Seq(S) : tt = Append(uu, s)
    <3>1. tt # <<>> BY EmptySeq
    <3> QED BY <3>1, LastApart
  <2>2. Len(uu) = n
    BY <2>1, AppendProperties, LenProperties
  <2>3. FlattenSeq(uu) \in Seq(S) BY <1>2, <2>2
  <2>4. FlattenSeq(tt) = FlattenSeq(uu) \o s BY <2>1, FlatAppend
  <2> QED BY <2>3, <2>4, ConcatProperties
<1> HIDE DEF T
<1>3. Nat \subseteq T BY <1>1, <1>2, SetInduction
<1>4. Len(ss) \in T BY <1>3, LenProperties
<1> QED BY <1>4 DEF T

\* It does not matter which two of three sequences are joined first.
Associate(a, b, c) == (a \o b) \o c = a \o (b \o c)

\* It holds of sequences over one set.
LEMMA Associative ==
  ASSUME NEW S, NEW a \in Seq(S), NEW b \in Seq(S), NEW c \in Seq(S)
  PROVE  Associate(a, b, c)
BY ConcatAssociative DEF Associate

\* Sequences of sequences may be flattened one after the other.
LEMMA FlatConcat ==
  ASSUME NEW S, NEW ss \in Seq(Seq(S)), NEW tt \in Seq(Seq(S))
  PROVE  FlattenSeq(ss \o tt) = FlattenSeq(ss) \o FlattenSeq(tt)
<1> DEFINE Ok(uu) == FlattenSeq(ss \o uu) = FlattenSeq(ss) \o FlattenSeq(uu)
           T == {n \in Nat : \A uu \in Seq(Seq(S)) : Len(uu) = n => Ok(uu)}
<1>1. 0 \in T
  <2>1. \A uu \in Seq(Seq(S)) : Len(uu) = 0 => uu = <<>> BY EmptySeq
  <2>2. Ok(<<>>)
    <3>1. ss \o <<>> = ss BY ConcatEmptySeq
    <3>2. FlattenSeq(ss) \o <<>> = FlattenSeq(ss) BY FlatType, ConcatEmptySeq
    <3> QED BY <3>1, <3>2, FlatEmpty
  <2> HIDE DEF Ok
  <2> QED BY <2>1, <2>2
<1>2. ASSUME NEW n \in Nat, n \in T PROVE n + 1 \in T
  <2> SUFFICES ASSUME NEW uu \in Seq(Seq(S)), Len(uu) = n + 1 PROVE Ok(uu)
    OBVIOUS
  <2>1. PICK vv \in Seq(Seq(S)), s \in Seq(S) : uu = Append(vv, s)
    <3>1. uu # <<>> BY EmptySeq
    <3> QED BY <3>1, LastApart
  <2>2. Len(vv) = n
    BY <2>1, AppendProperties, LenProperties
  <2>3. Ok(vv) BY <1>2, <2>2
  <2>4. ss \o uu = Append(ss \o vv, s)
    <3>1. uu = vv \o <<s>> BY <2>1, AppendIsConcat
    <3>2. <<s>> \in Seq(Seq(S)) OBVIOUS
    <3>3. ss \o uu = (ss \o vv) \o <<s>>
      <4>1. Associate(ss, vv, <<s>>) BY <2>1, <3>2, Associative
      <4> QED BY <3>1, <4>1 DEF Associate
    <3>4. ss \o vv \in Seq(Seq(S)) BY ConcatProperties
    <3> QED BY <3>3, <3>4, AppendIsConcat
  <2>5. FlattenSeq(ss \o uu) = FlattenSeq(ss \o vv) \o s
    <3>1. ss \o vv \in Seq(Seq(S)) BY ConcatProperties
    <3> QED BY <2>4, <3>1, FlatAppend
  <2>6. FlattenSeq(uu) = FlattenSeq(vv) \o s BY <2>1, FlatAppend
  <2>7. FlattenSeq(ss) \in Seq(S) /\ FlattenSeq(vv) \in Seq(S) BY FlatType
  <2>8. (FlattenSeq(ss) \o FlattenSeq(vv)) \o s = FlattenSeq(ss) \o (FlattenSeq(vv) \o s)
    <3>1. Associate(FlattenSeq(ss), FlattenSeq(vv), s) BY <2>1, <2>7, Associative
    <3> QED BY <3>1 DEF Associate
  <2> QED BY <2>3, <2>5, <2>6, <2>8
<1> HIDE DEF T
<1>3. Nat \subseteq T BY <1>1, <1>2, SetInduction
<1>4. Len(tt) \in T BY <1>3, LenProperties
<1>5. Ok(tt) BY <1>4 DEF T
<1> QED BY <1>5

\* One sequence stays as it is.
LEMMA FlatOne ==
  ASSUME NEW S, NEW s \in Seq(S)
  PROVE  FlattenSeq(<<s>>) = s
<1>1. <<>> \in Seq(Seq(S)) OBVIOUS
<1>2. FlattenSeq(Append(<<>>, s)) = FlattenSeq(<<>>) \o s BY <1>1, FlatAppend
<1>3. Append(<<>>, s) = <<s>> OBVIOUS
<1>4. <<>> \o s = s BY ConcatEmptySeq
<1> QED BY <1>2, <1>3, <1>4, FlatEmpty

\* How long each sequence is.
Lens(ss) == [k \in 1..Len(ss) |-> Len(ss[k])]

\* Flattened sequences are together as long as they were.
LEMMA FlatLen ==
  ASSUME NEW S, NEW ss \in Seq(Seq(S))
  PROVE  Len(FlattenSeq(ss)) = SumFunction(Lens(ss))
<1> DEFINE Ok(tt) == Len(FlattenSeq(tt)) = SumFunctionOnSet(Lens(tt), 1..Len(tt))
           T == {n \in Nat : \A tt \in Seq(Seq(S)) : Len(tt) = n => Ok(tt)}
<1>1. 0 \in T
  <2>1. \A tt \in Seq(Seq(S)) : Len(tt) = 0 => tt = <<>> BY EmptySeq
  <2>2. 1..Len(<<>>) = {} OBVIOUS
  <2>3. Ok(<<>>) BY <2>2, FlatEmpty, SumEmpty, Zenon
  <2> HIDE DEF Ok
  <2> QED BY <2>1, <2>3
<1>2. ASSUME NEW n \in Nat, n \in T PROVE n + 1 \in T
  <2> SUFFICES ASSUME NEW tt \in Seq(Seq(S)), Len(tt) = n + 1 PROVE Ok(tt)
    OBVIOUS
  <2>1. PICK uu \in Seq(Seq(S)), s \in Seq(S) : tt = Append(uu, s)
    <3>1. tt # <<>> BY EmptySeq
    <3> QED BY <3>1, LastApart
  <2>2. Len(uu) = n /\ tt[n + 1] = s /\ \A k \in 1..n : tt[k] = uu[k] /\ uu[k] \in Seq(S)
    BY <2>1, AppendProperties, LenProperties
  <2>3. Ok(uu) BY <1>2, <2>2
  <2>4. FlattenSeq(tt) = FlattenSeq(uu) \o s BY <2>1, FlatAppend
  <2>5. Len(FlattenSeq(tt)) = Len(FlattenSeq(uu)) + Len(s)
    BY <2>4, FlatType, ConcatProperties
  <2> DEFINE f == Lens(tt)
             g == Lens(uu)
  <2>6. /\ \A k \in 1..n : f[k] = g[k] /\ f[k] \in Int
        /\ f[n + 1] = Len(s) /\ Len(s) \in Int
    BY <2>2, LenProperties DEF Lens
  <2> HIDE DEF f, g
  <2>7. IsFiniteSet(1..n) BY FS_Interval
  <2>8. SumFunctionOnSet(f, 1..n) = SumFunctionOnSet(g, 1..n)
    BY <2>6, <2>7, SumEqual
  <2>9. SumFunctionOnSet(f, (1..n) \cup {n + 1}) = f[n + 1] + SumFunctionOnSet(f, 1..n)
    <3>1. n + 1 \notin 1..n /\ \A k \in (1..n) \cup {n + 1} : f[k] \in Int BY <2>6
    <3> QED BY <2>7, <3>1, SumAdd
  <2>10. (1..n) \cup {n + 1} = 1..(n + 1) OBVIOUS
  <2>11. SumFunctionOnSet(f, 1..(n + 1)) = Len(s) + SumFunctionOnSet(g, 1..n)
    BY <2>6, <2>8, <2>9, <2>10
  <2>12. Len(FlattenSeq(uu)) = SumFunctionOnSet(g, 1..n) /\ Len(FlattenSeq(uu)) \in Nat
    BY <2>2, <2>3, FlatType, LenProperties DEF g
  <2> QED BY <2>5, <2>6, <2>11, <2>12 DEF f
<1> HIDE DEF T
<1>3. Nat \subseteq T BY <1>1, <1>2, SetInduction
<1>4. Len(ss) \in T BY <1>3, LenProperties
<1>5. Ok(ss) BY <1>4 DEF T
<1>6. DOMAIN Lens(ss) = 1..Len(ss) BY DEF Lens
<1> QED BY <1>5, <1>6, Zenon DEF SumFunction

\* q is its first i elements, those up to the j-th, and the rest.
InThree(q, i, j) ==
  /\ SubSeq(q, 1, j) = SubSeq(q, 1, i) \o SubSeq(q, i + 1, j)
  /\ q = SubSeq(q, 1, j) \o SubSeq(q, j + 1, Len(q))

\* The beginning, a middle and the end of a sequence.
LEMMA ThreeParts ==
  ASSUME NEW S, NEW q \in Seq(S), NEW i \in 0..Len(q), NEW j \in i..Len(q)
  PROVE  /\ SubSeq(q, 1, i) \in Seq(S) /\ SubSeq(q, i + 1, j) \in Seq(S)
         /\ SubSeq(q, j + 1, Len(q)) \in Seq(S)
         /\ InThree(q, i, j)
<1>0. Len(q) \in Nat OBVIOUS
<1>1. SubSeq(q, 1, i) \o SubSeq(q, i + 1, j) = SubSeq(q, 1, j)
  <2>1. 1 \in 1..(Len(q) + 1) /\ i \in (1 - 1)..Len(q) /\ j \in i..Len(q) BY <1>0
  <2> QED BY <2>1, ConcatAdjacentSubSeq
<1>2. SubSeq(q, 1, j) \o SubSeq(q, j + 1, Len(q)) = SubSeq(q, 1, Len(q))
  <2>1. 1 \in 1..(Len(q) + 1) /\ j \in (1 - 1)..Len(q) /\ Len(q) \in j..Len(q) BY <1>0
  <2> QED BY <2>1, ConcatAdjacentSubSeq
<1>3. SubSeq(q, 1, Len(q)) = q BY SubSeqFull
<1>4. \A m, n \in Nat : m >= 1 /\ n <= Len(q) => SubSeq(q, m, n) \in Seq(S)
  BY <1>0, SubSeqProperties
<1>5. /\ SubSeq(q, 1, i) \in Seq(S) /\ SubSeq(q, i + 1, j) \in Seq(S)
      /\ SubSeq(q, j + 1, Len(q)) \in Seq(S)
  BY <1>0, <1>4
<1> QED BY <1>1, <1>2, <1>3, <1>5 DEF InThree

\* The middle one of three sequences.
LEMMA MiddleOf ==
  ASSUME NEW S, NEW a \in Seq(S), NEW b \in Seq(S), NEW c \in Seq(S)
  PROVE  SubSeq((a \o b) \o c, Len(a) + 1, Len(a) + Len(b)) = b
<1> DEFINE q == (a \o b) \o c
           m == SubSeq(q, Len(a) + 1, Len(a) + Len(b))
<1>1. /\ Len(a) \in Nat /\ Len(b) \in Nat /\ Len(c) \in Nat
      /\ q \in Seq(S) /\ Len(q) = Len(a) + Len(b) + Len(c)
      /\ \A k \in 1..Len(b) : q[Len(a) + k] = b[k]
  BY ConcatProperties
<1> HIDE DEF q
<1>2. \A k \in (Len(a) + 1)..(Len(a) + Len(b)) : q[k] \in S BY <1>1
<1>3. /\ m \in Seq(S) /\ Len(m) = Len(b)
      /\ \A k \in 1..Len(b) : m[k] = q[Len(a) + k]
  BY <1>1, <1>2, SubSeqProperties
<1> QED BY <1>1, <1>3, SeqEqual DEF q

\* A slice of flattened sequences that begins and ends with some of them.
LEMMA FlatSlice ==
  ASSUME NEW S, NEW ss \in Seq(Seq(S)), NEW i \in 0..Len(ss), NEW j \in i..Len(ss)
  PROVE  LET Upto(n) == Len(FlattenSeq(SubSeq(ss, 1, n)))
             middle == FlattenSeq(SubSeq(ss, i + 1, j)) IN
         /\ Upto(i) \in Nat /\ Upto(j) \in Nat
         /\ middle \in Seq(S) /\ Upto(j) = Upto(i) + Len(middle)
         /\ Upto(j) <= Len(FlattenSeq(ss))
         /\ SubSeq(FlattenSeq(ss), Upto(i) + 1, Upto(j)) = middle
<1> DEFINE a == SubSeq(ss, 1, i)
           b == SubSeq(ss, i + 1, j)
           c == SubSeq(ss, j + 1, Len(ss))
           ab == SubSeq(ss, 1, j)
<1>1. /\ a \in Seq(Seq(S)) /\ b \in Seq(Seq(S)) /\ c \in Seq(Seq(S))
      /\ ab = a \o b /\ ss = ab \o c
  <2>1. a \in Seq(Seq(S)) /\ b \in Seq(Seq(S)) /\ c \in Seq(Seq(S)) /\ InThree(ss, i, j)
    BY ThreeParts
  <2> QED BY <2>1 DEF InThree
<1> HIDE DEF a, b, c, ab
<1>2. ab \in Seq(Seq(S)) BY <1>1, ConcatProperties
<1> DEFINE fa == FlattenSeq(a)
           fb == FlattenSeq(b)
           fc == FlattenSeq(c)
<1>3. fa \in Seq(S) /\ fb \in Seq(S) /\ fc \in Seq(S) BY <1>1, FlatType
<1>4. FlattenSeq(ab) = fa \o fb BY <1>1, FlatConcat
<1>5. FlattenSeq(ss) = (fa \o fb) \o fc
  <2>1. FlattenSeq(ab \o c) = FlattenSeq(ab) \o fc BY <1>1, <1>2, FlatConcat
  <2> QED BY <2>1, <1>1, <1>4
<1> HIDE DEF fa, fb, fc
<1>6. /\ Len(fa) \in Nat /\ Len(fb) \in Nat /\ Len(fc) \in Nat
      /\ Len(fa \o fb) = Len(fa) + Len(fb)
      /\ Len((fa \o fb) \o fc) = Len(fa) + Len(fb) + Len(fc)
  BY <1>3, ConcatProperties
<1>7. SubSeq((fa \o fb) \o fc, Len(fa) + 1, Len(fa) + Len(fb)) = fb
  BY <1>3, MiddleOf
<1> QED BY <1>3, <1>4, <1>5, <1>6, <1>7 DEF fa, fb, a, b, ab

-----------------------------------------------------------------------------
(* Orders, their line items and their sizes. *)

\* The line items of the orders of os, one sequence for each, and the sizes.
ItemsIn(f, os) == [k \in 1..Len(os) |-> [n \in 1..f[os[k]].size |-> <<os[k], n>>]]
SizesOf(f, os) == [k \in 1..Len(os) |-> f[os[k]].size]

\* Line items are pairs of an order and a number.
Items(f) == (1..Len(f)) \X Nat

\* A function of 1..n is a sequence.
LEMMA SeqOfLength ==
  ASSUME NEW S, NEW n \in Nat, NEW q \in [1..n -> S]
  PROVE  q \in Seq(S) /\ Len(q) = n
OBVIOUS

\* What is assumed of a file.
LEMMA FileFacts ==
  ASSUME NEW f \in Files
  PROVE  /\ f \in Seq(Order) /\ Len(f) \in Nat
         /\ \A i \in 1..Len(f) : /\ f[i].size \in Nat /\ f[i].region \in RegionIds
                               /\ f[i].delRegion \in {NoRegion} \cup RegionIds
<1>1. f \in Seq(Order) BY SplitAssumption
<1>2. Len(f) \in Nat /\ \A i \in 1..Len(f) : f[i] \in Order
  BY <1>1, LenProperties, ElementOfSeq
<1> QED BY <1>1, <1>2 DEF Order

\* They are sequences of sequences, and of numbers.
LEMMA ItemsInType ==
  ASSUME NEW f \in Files, NEW os \in Seq(1..Len(f))
  PROVE  /\ ItemsIn(f, os) \in Seq(Seq(Items(f))) /\ Len(ItemsIn(f, os)) = Len(os)
         /\ SizesOf(f, os) \in Seq(Nat) /\ Len(SizesOf(f, os)) = Len(os)
         /\ \A k \in 1..Len(os) :
              /\ os[k] \in 1..Len(f) /\ SizesOf(f, os)[k] = f[os[k]].size
              /\ Len(ItemsIn(f, os)[k]) = f[os[k]].size
         /\ FlattenSeq(ItemsIn(f, os)) \in Seq(Items(f))
<1> DEFINE row(k) == [n \in 1..f[os[k]].size |-> <<os[k], n>>]
           rows == ItemsIn(f, os)
           ss == SizesOf(f, os)
<1>1. Len(os) \in Nat /\ \A k \in 1..Len(os) : os[k] \in 1..Len(f) /\ f[os[k]].size \in Nat
  BY FileFacts, LenProperties, ElementOfSeq
<1>2. ASSUME NEW k \in 1..Len(os)
      PROVE  row(k) \in Seq(Items(f)) /\ Len(row(k)) = f[os[k]].size
  <2> DEFINE q == row(k)
  <2>1. \A n \in 1..f[os[k]].size : <<os[k], n>> \in Items(f)
    BY <1>1 DEF Items
  <2>2. q \in [1..f[os[k]].size -> Items(f)] BY <2>1
  <2> HIDE DEF q
  <2>3. q \in Seq(Items(f)) /\ Len(q) = f[os[k]].size BY <1>1, <2>2, SeqOfLength
  <2> QED BY <2>3 DEF q
<1>3. /\ rows = [k \in 1..Len(os) |-> rows[k]] /\ ss = [k \in 1..Len(os) |-> ss[k]]
      /\ \A k \in 1..Len(os) : rows[k] = row(k) /\ ss[k] = f[os[k]].size
  BY DEF ItemsIn, SizesOf
<1> HIDE DEF rows, ss, row
<1>4. rows \in Seq(Seq(Items(f))) /\ Len(rows) = Len(os)
  <2>1. \A k \in 1..Len(os) : rows[k] \in Seq(Items(f)) BY <1>2, <1>3
  <2>2. rows \in [1..Len(os) -> Seq(Items(f))] BY <1>3, <2>1
  <2> QED BY <1>1, <2>2, SeqOfLength
<1>5. ss \in Seq(Nat) /\ Len(ss) = Len(os)
  <2>1. \A k \in 1..Len(os) : ss[k] \in Nat BY <1>1, <1>3
  <2>2. ss \in [1..Len(os) -> Nat] BY <1>3, <2>1
  <2> QED BY <1>1, <2>2, SeqOfLength
<1>6. \A k \in 1..Len(os) : Len(rows[k]) = f[os[k]].size BY <1>2, <1>3
<1> QED BY <1>1, <1>3, <1>4, <1>5, <1>6, FlatType DEF rows, ss

\* A sequence is given by its length and its elements.
LEMMA SeqsEqual ==
  ASSUME NEW S, NEW s \in Seq(S), NEW t \in Seq(S),
         Len(s) = Len(t), \A k \in 1..Len(s) : s[k] = t[k]
  PROVE  s = t
BY SeqEqual

\* c is a followed by b.
Joined(c, a, b) == c = a \o b

\* A sequence that has the elements of one and then of another is the two joined.
LEMMA JoinedIs ==
  ASSUME NEW S, NEW a \in Seq(S), NEW b \in Seq(S), NEW c \in Seq(S),
         Len(c) = Len(a) + Len(b),
         \A k \in 1..Len(c) : c[k] = IF k <= Len(a) THEN a[k] ELSE b[k - Len(a)]
  PROVE  Joined(c, a, b)
<1> DEFINE d == a \o b
<1>1. /\ Len(a) \in Nat /\ Len(b) \in Nat /\ d \in Seq(S) /\ Len(d) = Len(a) + Len(b)
      /\ \A k \in 1..Len(d) : d[k] = IF k <= Len(a) THEN a[k] ELSE b[k - Len(a)]
  BY ConcatProperties
<1> HIDE DEF d
<1>2. c = d BY <1>1, SeqsEqual
<1> QED BY <1>2 DEF Joined, d

\* The line items of the orders of os, and of the first n of them how many.
ItemsOf(f, os) == FlattenSeq(ItemsIn(f, os))
ItemsBefore(f, os, n) == Len(ItemsOf(f, SubSeq(os, 1, n)))

\* They are line items of the file.
LEMMA ItemsOfType ==
  ASSUME NEW f \in Files, NEW os \in Seq(1..Len(f))
  PROVE  ItemsOf(f, os) \in Seq(Items(f)) /\ Len(ItemsOf(f, os)) \in Nat
BY ItemsInType, LenProperties DEF ItemsOf

\* The items and sizes of a slice of the orders.
LEMMA SliceOfOrders ==
  ASSUME NEW f \in Files, NEW os \in Seq(1..Len(f)),
         NEW i \in 0..Len(os), NEW j \in i..Len(os)
  PROVE  /\ SubSeq(os, i + 1, j) \in Seq(1..Len(f)) /\ Len(SubSeq(os, i + 1, j)) = j - i
         /\ SubSeq(ItemsIn(f, os), i + 1, j) = ItemsIn(f, SubSeq(os, i + 1, j))
         /\ SubSeq(SizesOf(f, os), i + 1, j) = SizesOf(f, SubSeq(os, i + 1, j))
<1> DEFINE ps == SubSeq(os, i + 1, j)
           is == SubSeq(ItemsIn(f, os), i + 1, j)
           ss == SubSeq(SizesOf(f, os), i + 1, j)
<1>1. Len(os) \in Nat /\ i \in Nat /\ j \in Nat /\ j <= Len(os) OBVIOUS
<1>2. /\ ps \in Seq(1..Len(f)) /\ Len(ps) = j - i
      /\ \A k \in 1..(j - i) : ps[k] = os[i + k]
  <2>1. \A k \in (i + 1)..j : os[k] \in 1..Len(f) BY <1>1, ElementOfSeq
  <2> QED BY <1>1, <2>1, SubSeqProperties
<1>3. ps = [k \in 1..(j - i) |-> os[i + k]] BY <1>1
<1>4. is = [k \in 1..(j - i) |-> ItemsIn(f, os)[i + k]] BY <1>1
<1>5. ss = [k \in 1..(j - i) |-> SizesOf(f, os)[i + k]] BY <1>1
<1>6. \A k \in 1..(j - i) : i + k \in 1..Len(os) /\ ps[k] = os[i + k] BY <1>1, <1>2
<1> HIDE DEF ps, is, ss
<1>7. is = ItemsIn(f, ps) BY <1>2, <1>4, <1>6 DEF ItemsIn
<1>8. ss = SizesOf(f, ps) BY <1>2, <1>5, <1>6 DEF SizesOf
<1> QED BY <1>2, <1>7, <1>8 DEF ps, is, ss

\* The line items of a slice of the orders are a slice of their line items.
LEMMA SliceOfItems ==
  ASSUME NEW f \in Files, NEW os \in Seq(1..Len(f)),
         NEW i \in 0..Len(os), NEW j \in i..Len(os)
  PROVE  LET slice == SubSeq(os, i + 1, j) IN
         /\ ItemsBefore(f, os, i) \in Nat
         /\ ItemsBefore(f, os, j) = ItemsBefore(f, os, i) + SumFunction(SizesOf(f, slice))
         /\ ItemsBefore(f, os, j) = ItemsBefore(f, os, i) + Len(ItemsOf(f, slice))
         /\ ItemsBefore(f, os, j) <= Len(ItemsOf(f, os))
         /\ SubSeq(ItemsOf(f, os), ItemsBefore(f, os, i) + 1, ItemsBefore(f, os, j)) =
              ItemsOf(f, slice)
<1> DEFINE ss == ItemsIn(f, os)
           slice == SubSeq(os, i + 1, j)
           Upto(n) == Len(FlattenSeq(SubSeq(ss, 1, n)))
           middle == FlattenSeq(SubSeq(ss, i + 1, j))
<1>1. ss \in Seq(Seq(Items(f))) /\ Len(ss) = Len(os) BY ItemsInType
<1>2. /\ Upto(i) \in Nat /\ Upto(j) = Upto(i) + Len(middle)
      /\ Upto(j) <= Len(FlattenSeq(ss))
      /\ SubSeq(FlattenSeq(ss), Upto(i) + 1, Upto(j)) = middle
  BY <1>1, FlatSlice
<1>3. 0 \in 0..Len(os) /\ i \in 0..Len(os) /\ j \in 0..Len(os) /\ 0 + 1 = 1 OBVIOUS
<1>4. SubSeq(ss, 1, i) = ItemsIn(f, SubSeq(os, 1, i)) BY <1>3, SliceOfOrders
<1>5. SubSeq(ss, 1, j) = ItemsIn(f, SubSeq(os, 1, j)) BY <1>3, SliceOfOrders
<1>6. SubSeq(ss, i + 1, j) = ItemsIn(f, slice) /\ slice \in Seq(1..Len(f))
  BY <1>3, SliceOfOrders
<1>7. Upto(i) = ItemsBefore(f, os, i) BY <1>4 DEF ItemsBefore, ItemsOf
<1>8. Upto(j) = ItemsBefore(f, os, j) BY <1>5 DEF ItemsBefore, ItemsOf
<1>9. middle = ItemsOf(f, slice) BY <1>6 DEF ItemsOf
<1>10. Len(middle) = SumFunction(SizesOf(f, slice))
  <2>1. /\ ItemsIn(f, slice) \in Seq(Seq(Items(f))) /\ Len(ItemsIn(f, slice)) = Len(slice)
        /\ \A k \in 1..Len(slice) : Len(ItemsIn(f, slice)[k]) = f[slice[k]].size
    BY <1>6, ItemsInType
  <2>2. Lens(ItemsIn(f, slice)) = SizesOf(f, slice)
    <3> HIDE DEF slice
    <3> QED BY <2>1 DEF Lens, SizesOf
  <2> QED BY <1>6, <2>1, <2>2, FlatLen
<1>11. FlattenSeq(ss) = ItemsOf(f, os) BY DEF ItemsOf
<1> HIDE DEF ss, slice, Upto, middle
<1> QED BY <1>2, <1>7, <1>8, <1>9, <1>10, <1>11 DEF slice

\* The items and the sizes of two sequences of orders, one after the other.
LEMMA ItemsConcat ==
  ASSUME NEW f \in Files, NEW os \in Seq(1..Len(f)), NEW ps \in Seq(1..Len(f))
  PROVE  /\ ItemsOf(f, os \o ps) = ItemsOf(f, os) \o ItemsOf(f, ps)
         /\ SizesOf(f, os \o ps) = SizesOf(f, os) \o SizesOf(f, ps)
<1> DEFINE both == os \o ps
<1>1. /\ Len(os) \in Nat /\ Len(ps) \in Nat
      /\ both \in Seq(1..Len(f)) /\ Len(both) = Len(os) + Len(ps)
      /\ \A k \in 1..Len(both) :
           both[k] = IF k <= Len(os) THEN os[k] ELSE ps[k - Len(os)]
  BY ConcatProperties, LenProperties
<1> HIDE DEF both
<1>2. ItemsIn(f, both) = ItemsIn(f, os) \o ItemsIn(f, ps)
  <2> DEFINE a == ItemsIn(f, os)
             b == ItemsIn(f, ps)
             c == ItemsIn(f, both)
  <2>1. a \in Seq(Seq(Items(f))) /\ Len(a) = Len(os) BY ItemsInType
  <2>2. b \in Seq(Seq(Items(f))) /\ Len(b) = Len(ps) BY ItemsInType
  <2>3. c \in Seq(Seq(Items(f))) /\ Len(c) = Len(both) BY <1>1, ItemsInType
  <2>4. \A k \in 1..Len(both) : c[k] = IF k <= Len(os) THEN a[k] ELSE b[k - Len(os)]
    <3> TAKE k \in 1..Len(both)
    <3>1. CASE k <= Len(os)
      <4>1. k \in 1..Len(os) /\ both[k] = os[k] BY <1>1, <3>1
      <4> QED BY <3>1, <4>1 DEF ItemsIn
    <3>2. CASE ~ (k <= Len(os))
      <4>1. k - Len(os) \in 1..Len(ps) /\ both[k] = ps[k - Len(os)] BY <1>1, <3>2
      <4> QED BY <3>2, <4>1 DEF ItemsIn
    <3> QED BY <3>1, <3>2
  <2> HIDE DEF a, b, c
  <2>5. Joined(c, a, b) BY <1>1, <2>1, <2>2, <2>3, <2>4, JoinedIs
  <2> QED BY <2>5 DEF Joined, a, b, c
<1>3. ItemsIn(f, os) \in Seq(Seq(Items(f))) /\ ItemsIn(f, ps) \in Seq(Seq(Items(f)))
  BY ItemsInType
<1>4. ItemsOf(f, both) = ItemsOf(f, os) \o ItemsOf(f, ps)
  BY <1>2, <1>3, FlatConcat DEF ItemsOf
<1>5. SizesOf(f, both) = SizesOf(f, os) \o SizesOf(f, ps)
  <2> DEFINE a == SizesOf(f, os)
             b == SizesOf(f, ps)
             c == SizesOf(f, both)
  <2>1. a \in Seq(Nat) /\ Len(a) = Len(os) BY ItemsInType
  <2>2. b \in Seq(Nat) /\ Len(b) = Len(ps) BY ItemsInType
  <2>3. c \in Seq(Nat) /\ Len(c) = Len(both) BY <1>1, ItemsInType
  <2>4. \A k \in 1..Len(both) : c[k] = IF k <= Len(os) THEN a[k] ELSE b[k - Len(os)]
    <3> TAKE k \in 1..Len(both)
    <3>1. CASE k <= Len(os)
      <4>1. k \in 1..Len(os) /\ both[k] = os[k] BY <1>1, <3>1
      <4> QED BY <3>1, <4>1 DEF SizesOf
    <3>2. CASE ~ (k <= Len(os))
      <4>1. k - Len(os) \in 1..Len(ps) /\ both[k] = ps[k - Len(os)] BY <1>1, <3>2
      <4> QED BY <3>2, <4>1 DEF SizesOf
    <3> QED BY <3>1, <3>2
  <2> HIDE DEF a, b, c
  <2>5. Joined(c, a, b) BY <1>1, <2>1, <2>2, <2>3, <2>4, JoinedIs
  <2> QED BY <2>5 DEF Joined, a, b, c
<1> QED BY <1>4, <1>5 DEF both

-----------------------------------------------------------------------------
(* The inductive invariant. *)

\* The places of a file, and which of the first n are of region r.
Ids(f) == [i \in 1..Len(f) |-> i]
Marks(f, r) == [i \in 1..Len(f) |-> IF f[i].region = r THEN <<i>> ELSE <<>>]
OrdersUpTo(f, r, n) == FlattenSeq(SubSeq(Marks(f, r), 1, n))

\* The first pos orders are grouped by region, their line items and sizes with
\* them.
GroupInv ==
  /\ file \in Files
  /\ phase \in {"grouping", "dealing", "done", "panicked"}
  /\ pos \in 0..NOrders /\ (phase # "grouping" => pos = NOrders)
  /\ startItem = ItemsBefore(file, Ids(file), pos)
  /\ orders \in [RegionIds -> Seq(1..NOrders)]
  /\ DOMAIN items = RegionIds /\ DOMAIN sizes = RegionIds
  /\ \A r \in RegionIds :
       /\ orders[r] = OrdersUpTo(file, r, pos) /\ Len(orders[r]) <= pos
       /\ items[r] = ItemsOf(file, orders[r]) /\ Len(items[r]) <= startItem
       /\ sizes[r] = SizesOf(file, orders[r])

\* Every slice of keys is within its array.
KeysInv ==
  /\ heap \in Seq(Seq(Nat)) /\ DOMAIN dels = RegionIds
  /\ \A r \in RegionIds :
       /\ dels[r] = [arr |-> dels[r].arr, len |-> dels[r].len]
       /\ dels[r].arr \in 1..Len(heap) /\ dels[r].len \in 0..Cap(dels[r])

\* How many orders a routine has: its share, or what of it is dealt.
Given(r) ==
  IF r < routine THEN Share(r)
  ELSE IF r = routine /\ left > 0 THEN Share(r) - left ELSE 0

\* The next share begins where the last one ended, in the orders of the region
\* and in their line items, and each routine has what it should.
DealInv ==
  /\ routine \in 0..Routines /\ region \in RegionIds
  /\ start \in 0..Len(orders[region])
  /\ lineStart = ItemsBefore(file, orders[region], start)
  /\ left \in Nat
  /\ left > 0 => routine < Routines /\ left <= Share(routine)
  /\ phase = "grouping" => routine = 0 /\ region = FirstRegion /\ start = 0 /\ left = 0
  /\ phase = "done" => routine = Routines /\ left = 0
  /\ DOMAIN dealt = 0..(Routines - 1)
  /\ \A r \in 0..(Routines - 1) :
       /\ dealt[r].orders \in Seq(1..NOrders) /\ Len(dealt[r].orders) = Given(r)
       /\ dealt[r].items = ItemsOf(file, dealt[r].orders)
       /\ dealt[r].sizes = SizesOf(file, dealt[r].orders)
       /\ phase = "grouping" => dealt[r].orders = <<>> /\ dealt[r].dels = <<>>

SplitInv == GroupInv /\ KeysInv /\ DealInv

\* Each order comes with a key of its own region.
Local == \A i \in 1..NOrders : file[i].delRegion = file[i].region

\* Then the keys of a region are those of its orders, in an array of its own.
LocalInv ==
  Local =>
    /\ phase # "panicked"
    /\ \A r \in RegionIds :
         /\ dels[r].len = Len(orders[r])
         /\ \A k \in 1..dels[r].len : heap[dels[r].arr][k] = orders[r][k]
    /\ \A r, t \in RegionIds : dels[r].arr = dels[t].arr => r = t
    /\ \A r \in 0..(Routines - 1) : dealt[r].dels = dealt[r].orders

\* The k-th region that orders are taken from, and the orders of that region.
RegionAt(k) == (FirstRegion + k - 1) % NRegions
Groups == [k \in 1..NRegions |-> orders[RegionAt(k)]]

\* How many orders the first n routines are to get.
Shares(n) ==
  n * (NOrders \div Routines) + (IF n < NOrders % Routines THEN n ELSE NOrders % Routines)

\* Every order that is grouped is in one group.
SumInv == SumFunction(Lens(Groups)) = pos

\* What is dealt: the orders of the regions before the current one, and of this
\* one those before start; or, when all regions were come to, every order.
TurnInv ==
  /\ Len(AllDealt("orders")) =
       Shares(routine) + (IF left > 0 THEN Share(routine) - left ELSE 0)
  /\ \/ \E k \in 1..NRegions :
            /\ region = RegionAt(k)
            /\ AllDealt("orders") =
                 FlattenSeq(SubSeq(Groups, 1, k - 1)) \o SubSeq(orders[region], 1, start)
     \/ phase # "grouping" /\ start = 0 /\ AllDealt("orders") = FlattenSeq(Groups)

-----------------------------------------------------------------------------
(* What the grouping relies on. *)

\* The next element of a sequence is put at the end of those before.
LEMMA BeginningGrows ==
  ASSUME NEW S, NEW q \in Seq(S), NEW n \in 0..(Len(q) - 1)
  PROVE  /\ SubSeq(q, 1, n) \in Seq(S) /\ Len(SubSeq(q, 1, n)) = n
         /\ SubSeq(q, 1, n + 1) = Append(SubSeq(q, 1, n), q[n + 1])
<1> DEFINE a == SubSeq(q, 1, n)
           b == SubSeq(q, 1, n + 1)
           c == Append(a, q[n + 1])
<1>1. Len(q) \in Nat /\ n \in Nat /\ n + 1 \in 1..Len(q) OBVIOUS
<1>2. \A k \in 1..Len(q) : q[k] \in S BY ElementOfSeq
<1>3. a \in Seq(S) /\ Len(a) = n /\ \A k \in 1..n : a[k] = q[k]
  <2>1. \A k \in 1..n : q[k] \in S BY <1>1, <1>2
  <2> QED BY <1>1, <2>1, SubSeqProperties
<1>4. b \in Seq(S) /\ Len(b) = n + 1 /\ \A k \in 1..(n + 1) : b[k] = q[k]
  <2>1. \A k \in 1..(n + 1) : q[k] \in S BY <1>1, <1>2
  <2> QED BY <1>1, <2>1, SubSeqProperties
<1> HIDE DEF a, b
<1>5. /\ c \in Seq(S) /\ Len(c) = n + 1
      /\ c[n + 1] = q[n + 1] /\ \A k \in 1..n : c[k] = a[k]
  BY <1>1, <1>2, <1>3, AppendProperties
<1>6. \A k \in 1..(n + 1) : k \in 1..n \/ k = n + 1 BY <1>1
<1>7. \A k \in 1..(n + 1) : b[k] = c[k] BY <1>3, <1>4, <1>5, <1>6
<1> HIDE DEF c
<1>8. b = c BY <1>4, <1>5, <1>7, SeqsEqual
<1> QED BY <1>3, <1>8 DEF a, b, c

\* An order is of its region and of no other.
LEMMA OrdersGrow ==
  ASSUME NEW f \in Files, NEW r, NEW n \in 0..(Len(f) - 1)
  PROVE  /\ OrdersUpTo(f, r, n) \in Seq(1..Len(f))
         /\ f[n + 1].region = r =>
              OrdersUpTo(f, r, n + 1) = OrdersUpTo(f, r, n) \o <<n + 1>>
         /\ f[n + 1].region # r => OrdersUpTo(f, r, n + 1) = OrdersUpTo(f, r, n)
<1> DEFINE S == 1..Len(f)
           q == Marks(f, r)
<1>1. Len(f) \in Nat /\ n + 1 \in 1..Len(f) BY FileFacts
<1>2. \A i \in 1..Len(f) : <<i>> \in Seq(S) /\ <<>> \in Seq(S) OBVIOUS
<1>3. q \in [1..Len(f) -> Seq(S)] BY <1>2 DEF Marks
<1>4. q[n + 1] = IF f[n + 1].region = r THEN <<n + 1>> ELSE <<>> BY <1>1 DEF Marks
<1> HIDE DEF q, S
<1>5. q \in Seq(Seq(S)) /\ Len(q) = Len(f) BY <1>1, <1>3, SeqOfLength
<1>6. SubSeq(q, 1, n) \in Seq(Seq(S)) /\ SubSeq(q, 1, n + 1) = Append(SubSeq(q, 1, n), q[n + 1])
  BY <1>5, BeginningGrows
<1>7. q[n + 1] \in Seq(S) BY <1>1, <1>3
<1>8. /\ OrdersUpTo(f, r, n) \in Seq(S)
      /\ OrdersUpTo(f, r, n + 1) = OrdersUpTo(f, r, n) \o q[n + 1]
  BY <1>6, <1>7, FlatAppend, FlatType DEF OrdersUpTo, q
<1>9. OrdersUpTo(f, r, n) \o <<>> = OrdersUpTo(f, r, n) BY <1>8, ConcatEmptySeq
<1> QED BY <1>4, <1>8, <1>9 DEF S

\* The line items of the file are those of its orders, in turn.
LEMMA AllItems ==
  ASSUME file \in Files
  PROVE  /\ Ids(file) \in Seq(1..NOrders) /\ Len(Ids(file)) = NOrders /\ NOrders \in Nat
         /\ LineItemUpds = ItemsOf(file, Ids(file))
<1>1. NOrders \in Nat BY FileFacts DEF NOrders
<1>2. Ids(file) \in [1..NOrders -> 1..NOrders] BY DEF Ids, NOrders
<1>3. Ids(file) \in Seq(1..NOrders) /\ Len(Ids(file)) = NOrders BY <1>1, <1>2, SeqOfLength
<1>4. ItemsIn(file, Ids(file)) = [i \in 1..NOrders |-> [k \in 1..file[i].size |-> <<i, k>>]]
  <2>1. \A i \in 1..NOrders : Ids(file)[i] = i BY DEF Ids, NOrders
  <2> QED BY <1>3, <2>1 DEF ItemsIn
<1> QED BY <1>1, <1>3, <1>4 DEF ItemsOf, LineItemUpds

\* The next order's line items are those from startItem on.
LEMMA NextItems ==
  ASSUME file \in Files, pos \in 0..(NOrders - 1),
         startItem = ItemsBefore(file, Ids(file), pos)
  PROVE  LET o == file[pos + 1] IN
         /\ startItem \in Nat /\ o.size \in Nat
         /\ <<pos + 1>> \in Seq(1..NOrders) /\ SizesOf(file, <<pos + 1>>) = <<o.size>>
         /\ SubSeq(LineItemUpds, startItem + 1, startItem + o.size) =
              ItemsOf(file, <<pos + 1>>)
         /\ Len(ItemsOf(file, <<pos + 1>>)) = o.size
         /\ startItem + o.size = ItemsBefore(file, Ids(file), pos + 1)
<1> DEFINE one == <<pos + 1>>
           m == file[pos + 1].size
<1>1. NOrders \in Nat /\ NOrders = Len(file) BY FileFacts DEF NOrders
<1>2. pos + 1 \in 1..NOrders /\ pos \in Nat BY <1>1
<1>3. m \in Nat BY <1>1, <1>2, FileFacts
<1>4. one \in Seq(1..NOrders) /\ Len(one) = 1 /\ one[1] = pos + 1 BY <1>2
<1>5. SubSeq(Ids(file), pos + 1, pos + 1) = one
  <2> DEFINE ids == Ids(file)
             q == SubSeq(ids, pos + 1, pos + 1)
  <2>1. /\ ids \in Seq(1..NOrders) /\ Len(ids) = NOrders /\ ids[pos + 1] = pos + 1
    BY <1>1, <1>2, AllItems DEF Ids
  <2> HIDE DEF ids
  <2>2. q \in Seq(1..NOrders) /\ Len(q) = 1 /\ q[1] = ids[pos + 1]
    <3>1. /\ pos + 1 \in Nat /\ (pos + 1) - (pos + 1) + 1 = 1 /\ pos + 1 + 1 - 1 = pos + 1
          /\ \A k \in (pos + 1)..(pos + 1) : ids[k] \in 1..NOrders
      BY <1>2, <2>1
    <3> QED BY <3>1, SubSeqProperties
  <2> HIDE DEF q
  <2>3. q = one BY <2>1, <2>2, <1>4
  <2> QED BY <2>3 DEF q, ids
<1> HIDE DEF one, m
<1>6. /\ ItemsIn(file, one) \in Seq(Seq(Items(file))) /\ Len(ItemsIn(file, one)) = 1
      /\ Len(ItemsIn(file, one)[1]) = file[one[1]].size
      /\ SizesOf(file, one) \in Seq(Nat) /\ Len(SizesOf(file, one)) = 1
      /\ SizesOf(file, one)[1] = file[one[1]].size
  <2>1. one \in Seq(1..Len(file)) /\ 1 \in 1..Len(one) BY <1>1, <1>4
  <2>2. ItemsIn(file, one) \in Seq(Seq(Items(file))) /\ Len(ItemsIn(file, one)) = Len(one)
    BY <2>1, ItemsInType
  <2>3. SizesOf(file, one) \in Seq(Nat) /\ Len(SizesOf(file, one)) = Len(one)
    BY <2>1, ItemsInType
  <2>4. \A k \in 1..Len(one) : /\ SizesOf(file, one)[k] = file[one[k]].size
                               /\ Len(ItemsIn(file, one)[k]) = file[one[k]].size
    BY <2>1, ItemsInType
  <2> QED BY <1>4, <2>1, <2>2, <2>3, <2>4
<1>7. Len(ItemsOf(file, one)) = m
  <2> DEFINE rows == ItemsIn(file, one)
  <2>1. rows[1] \in Seq(Items(file))
    <3>1. rows \in Seq(Seq(Items(file))) /\ 1 \in 1..Len(rows) BY <1>6
    <3> HIDE DEF rows
    <3> QED BY <3>1, ElementOfSeq
  <2>2. rows = <<rows[1]>> BY <1>6
  <2>3. Len(rows[1]) = m BY <1>4, <1>6 DEF m
  <2> HIDE DEF rows
  <2>4. FlattenSeq(rows) = rows[1] BY <2>1, <2>2, FlatOne
  <2> QED BY <2>3, <2>4 DEF ItemsOf, rows
<1>8. SizesOf(file, one) = <<m>> BY <1>4, <1>6 DEF m
<1>9. /\ Ids(file) \in Seq(1..Len(file)) /\ Len(Ids(file)) = Len(file)
      /\ LineItemUpds = ItemsOf(file, Ids(file))
  BY <1>1, AllItems
<1>10. pos \in 0..Len(Ids(file)) /\ pos + 1 \in pos..Len(Ids(file)) BY <1>1, <1>2, <1>9
<1>11. /\ ItemsBefore(file, Ids(file), pos) \in Nat
       /\ ItemsBefore(file, Ids(file), pos + 1) =
            ItemsBefore(file, Ids(file), pos) + Len(ItemsOf(file, one))
       /\ SubSeq(ItemsOf(file, Ids(file)), ItemsBefore(file, Ids(file), pos) + 1,
                 ItemsBefore(file, Ids(file), pos + 1)) = ItemsOf(file, one)
  BY <1>5, <1>9, <1>10, SliceOfItems
<1> QED BY <1>3, <1>4, <1>7, <1>8, <1>9, <1>11 DEF one, m

\* Before the first order there is nothing.
LEMMA Nothing ==
  ASSUME NEW f, NEW os, NEW r
  PROVE  /\ ItemsOf(f, <<>>) = <<>> /\ SizesOf(f, <<>>) = <<>>
         /\ OrdersUpTo(f, r, 0) = <<>> /\ ItemsBefore(f, os, 0) = 0
<1>1. ItemsIn(f, <<>>) = <<>> BY DEF ItemsIn
<1>2. SizesOf(f, <<>>) = <<>> BY DEF SizesOf
<1>3. SubSeq(os, 1, 0) = <<>> /\ SubSeq(Marks(f, r), 1, 0) = <<>> BY SubSeqEmpty
<1>4. ItemsOf(f, <<>>) = <<>> BY <1>1, FlatEmpty DEF ItemsOf
<1>5. OrdersUpTo(f, r, 0) = <<>> BY <1>3, FlatEmpty DEF OrdersUpTo
<1>6. Len(<<>>) = 0 OBVIOUS
<1>7. ItemsBefore(f, os, 0) = 0 BY <1>3, <1>4, <1>6 DEF ItemsBefore
<1> QED BY <1>2, <1>4, <1>5, <1>7

\* The grouping of an order.
LEMMA GroupOrderKeepsGroups ==
  ASSUME GroupInv, GroupOrder
  PROVE  GroupInv'
<1> DEFINE o == file[pos + 1]
           p == pos + 1
           one == <<pos + 1>>
           mine == SubSeq(LineItemUpds, startItem + 1, startItem + o.size)
<1>1. /\ file' = file /\ phase' = phase /\ phase = "grouping" /\ pos' = p
      /\ orders' = [orders EXCEPT ![o.region] = @ \o one]
      /\ items' = [items EXCEPT ![o.region] = @ \o mine]
      /\ sizes' = [sizes EXCEPT ![o.region] = Append(@, o.size)]
      /\ startItem' = startItem + o.size
  BY DEF GroupOrder, Grouped, NextItem
<1>2. NOrders \in Nat /\ NOrders = Len(file) /\ pos \in 0..(NOrders - 1) /\ file \in Files
  BY FileFacts DEF GroupInv, GroupOrder, NOrders
<1>3. pos \in Nat /\ p \in 1..NOrders /\ NOrders' = NOrders /\ o.region \in RegionIds
  BY <1>1, <1>2, FileFacts DEF NOrders
<1>4. /\ startItem \in Nat /\ o.size \in Nat /\ one \in Seq(1..NOrders)
      /\ SizesOf(file, one) = <<o.size>> /\ mine = ItemsOf(file, one)
      /\ Len(ItemsOf(file, one)) = o.size
      /\ startItem + o.size = ItemsBefore(file, Ids(file), p)
  BY <1>2, NextItems DEF GroupInv
<1>5. Len(one) = 1 OBVIOUS
<1> HIDE DEF o, p, one, mine
<1>6. /\ orders \in [RegionIds -> Seq(1..NOrders)]
      /\ DOMAIN items = RegionIds /\ DOMAIN sizes = RegionIds
      /\ \A r \in RegionIds :
           /\ orders[r] = OrdersUpTo(file, r, pos) /\ Len(orders[r]) <= pos
           /\ items[r] = ItemsOf(file, orders[r]) /\ Len(items[r]) <= startItem
           /\ sizes[r] = SizesOf(file, orders[r])
  BY DEF GroupInv
<1>7. /\ orders' \in [RegionIds -> Seq(1..NOrders)]
      /\ DOMAIN items' = RegionIds /\ DOMAIN sizes' = RegionIds
  <2>1. orders[o.region] \o one \in Seq(1..NOrders)
    BY <1>3, <1>4, <1>6, ConcatProperties
  <2> QED BY <1>1, <1>6, <2>1
<1>8. ASSUME NEW r \in RegionIds
      PROVE  /\ orders'[r] = OrdersUpTo(file, r, p) /\ Len(orders'[r]) <= p
             /\ items'[r] = ItemsOf(file, orders'[r]) /\ Len(items'[r]) <= startItem'
             /\ sizes'[r] = SizesOf(file, orders'[r])
  <2>1. orders[r] \in Seq(1..NOrders) /\ Len(orders[r]) \in Nat BY <1>6, LenProperties
  <2>2. Len(ItemsOf(file, orders[r])) \in Nat /\ ItemsOf(file, orders[r]) \in Seq(Items(file))
    BY <1>2, <2>1, ItemsOfType
  <2>3. CASE r = o.region
    <3>1. orders'[r] = orders[r] \o one /\ items'[r] = items[r] \o mine
          /\ sizes'[r] = Append(sizes[r], o.size)
      BY <1>1, <1>6, <2>3
    <3>2. OrdersUpTo(file, r, p) = OrdersUpTo(file, r, pos) \o one
      BY <1>2, <2>3, OrdersGrow DEF o, p, one
    <3>3. Len(orders'[r]) = Len(orders[r]) + 1
      <4>1. Len(orders[r] \o one) = Len(orders[r]) + Len(one)
        BY <1>4, <2>1, ConcatProperties
      <4> QED BY <1>5, <3>1, <4>1
    <3>4. /\ ItemsOf(file, orders[r] \o one) = ItemsOf(file, orders[r]) \o ItemsOf(file, one)
          /\ SizesOf(file, orders[r] \o one) = SizesOf(file, orders[r]) \o SizesOf(file, one)
      BY <1>2, <1>4, <2>1, ItemsConcat
    <3>5. sizes'[r] = SizesOf(file, orders'[r])
      <4>1. SizesOf(file, orders[r]) \in Seq(Nat) BY <1>2, <2>1, ItemsInType
      <4>2. Append(SizesOf(file, orders[r]), o.size) = SizesOf(file, orders[r]) \o <<o.size>>
        BY <1>4, <4>1, AppendIsConcat
      <4> QED BY <1>4, <1>6, <3>1, <3>4, <4>2
    <3>6. items'[r] = ItemsOf(file, orders'[r]) BY <1>4, <1>6, <3>1, <3>4
    <3>7. Len(items'[r]) = Len(items[r]) + o.size
      <4>1. items[r] \in Seq(Items(file)) /\ mine \in Seq(Items(file))
        BY <1>2, <1>4, <1>6, <2>2, ItemsOfType
      <4> QED BY <1>4, <3>1, <4>1, ConcatProperties
    <3>8. Len(items[r]) \in Nat /\ Len(items[r]) <= startItem BY <1>6, <2>2
    <3>9. orders'[r] = OrdersUpTo(file, r, p) BY <1>6, <3>1, <3>2
    <3>10. Len(items'[r]) <= startItem' BY <1>1, <1>4, <3>7, <3>8
    <3>11. Len(orders'[r]) <= p BY <1>3, <1>6, <2>1, <3>3 DEF p
    <3> QED BY <3>5, <3>6, <3>9, <3>10, <3>11
  <2>4. CASE r # o.region
    <3>1. orders'[r] = orders[r] /\ items'[r] = items[r] /\ sizes'[r] = sizes[r]
      BY <1>1, <1>6, <2>4
    <3>2. OrdersUpTo(file, r, p) = OrdersUpTo(file, r, pos)
      BY <1>2, <2>4, OrdersGrow DEF o, p
    <3>3. Len(items[r]) \in Nat /\ Len(items[r]) <= startItem BY <1>6, <2>2
    <3>4. Len(items'[r]) <= startItem' BY <1>1, <1>4, <3>1, <3>3
    <3>5. Len(orders'[r]) <= p BY <1>3, <1>6, <2>1, <3>1 DEF p
    <3> QED BY <1>6, <3>1, <3>2, <3>4, <3>5
  <2> QED BY <2>3, <2>4
<1>9. startItem' = ItemsBefore(file, Ids(file), p) BY <1>1, <1>4
<1>10. p \in 0..NOrders BY <1>3
<1> QED BY <1>1, <1>2, <1>3, <1>7, <1>8, <1>9, <1>10 DEF GroupInv

\* An array of n zeros.
LEMMA ZerosType ==
  ASSUME NEW n \in Nat
  PROVE  Zeros(n) \in Seq(Nat) /\ Len(Zeros(n)) = n
<1>1. Zeros(n) \in [1..n -> Nat] BY DEF Zeros
<1> QED BY <1>1, SeqOfLength

\* The elements of two sequences joined.
LEMMA ConcatFacts ==
  ASSUME NEW S, NEW a \in Seq(S), NEW b \in Seq(S)
  PROVE  /\ Len(a) \in Nat /\ Len(b) \in Nat
         /\ a \o b \in Seq(S) /\ Len(a \o b) = Len(a) + Len(b)
         /\ \A k \in 1..Len(a) : (a \o b)[k] = a[k]
         /\ \A k \in 1..Len(b) : (a \o b)[Len(a) + k] = b[k]
<1>1. Len(a) \in Nat /\ Len(b) \in Nat BY LenProperties
<1>2. a \o b \in Seq(S) /\ Len(a \o b) = Len(a) + Len(b) BY ConcatProperties
<1>3. \A k \in 1..(Len(a) + Len(b)) :
        (a \o b)[k] = IF k <= Len(a) THEN a[k] ELSE b[k - Len(a)]
  BY <1>2, ConcatProperties
<1>4. ASSUME NEW k \in 1..Len(a) PROVE (a \o b)[k] = a[k]
  BY <1>1, <1>3
<1>5. ASSUME NEW k \in 1..Len(b) PROVE (a \o b)[Len(a) + k] = b[k]
  <2>1. /\ Len(a) + k \in 1..(Len(a) + Len(b)) /\ ~ (Len(a) + k <= Len(a))
        /\ Len(a) + k - Len(a) = k
    BY <1>1
  <2> QED BY <1>3, <2>1
<1> QED BY <1>1, <1>2, <1>4, <1>5

\* s, the key and n zeros.
AfterKey(s, key, n) == s \o <<key>> \o Zeros(n)

\* What it holds: s is unchanged, and the key comes after it.
LEMMA AfterKeyIs ==
  ASSUME NEW s \in Seq(Nat), NEW key \in Nat, NEW n \in Nat
  PROVE  /\ AfterKey(s, key, n) \in Seq(Nat) /\ Len(AfterKey(s, key, n)) = Len(s) + 1 + n
         /\ \A k \in 1..Len(s) : AfterKey(s, key, n)[k] = s[k]
         /\ AfterKey(s, key, n)[Len(s) + 1] = key
<1> DEFINE one == <<key>>
           zs == Zeros(n)
           a == s \o one
           b == a \o zs
<1>1. /\ one \in Seq(Nat) /\ Len(one) = 1 /\ one[1] = key
      /\ zs \in Seq(Nat) /\ Len(zs) = n
  BY ZerosType
<1> HIDE DEF one, zs
<1>2. /\ Len(s) \in Nat /\ a \in Seq(Nat) /\ Len(a) = Len(s) + 1
      /\ \A k \in 1..Len(s) : a[k] = s[k]
      /\ a[Len(s) + 1] = key
  <2>1. a = Append(s, key) BY AppendIsConcat DEF one
  <2> HIDE DEF a
  <2> QED BY <2>1, AppendProperties, LenProperties
<1> HIDE DEF a
<1>3. b \in Seq(Nat) /\ Len(b) = Len(a) + n /\ \A k \in 1..Len(a) : b[k] = a[k]
  <2>1. a \in Seq(Nat) /\ zs \in Seq(Nat) /\ Len(zs) = n BY <1>1, <1>2
  <2>2. b \in Seq(Nat) /\ Len(b) = Len(a) + Len(zs) BY <2>1, ConcatFacts
  <2>3. \A k \in 1..Len(a) : b[k] = a[k] BY <2>1, ConcatFacts
  <2> QED BY <2>1, <2>2, <2>3
<1>4. AfterKey(s, key, n) = b BY DEF AfterKey, a, one, zs
<1> HIDE DEF b
<1> QED BY <1>2, <1>3, <1>4

\* What append does: the key comes after the keys of the slice appended to, and
\* only the array of that slice may change.
LEMMA AppendKeyFacts ==
  ASSUME KeysInv, NEW to \in RegionIds, NEW from \in RegionIds, NEW key \in Nat,
         AppendKey(to, from, key)
  PROVE  /\ KeysInv'
         /\ Len(heap) <= Len(heap')
         /\ dels'[to].len = dels[from].len + 1
         /\ \A r \in RegionIds : r # to => dels'[r] = dels[r]
         /\ dels'[to].arr \in {dels[from].arr, Len(heap) + 1}
         /\ heap'[dels'[to].arr][dels[from].len + 1] = key
         /\ \A k \in 1..dels[from].len :
              heap'[dels'[to].arr][k] = heap[dels[from].arr][k]
         /\ \A a \in 1..Len(heap) : a # dels[from].arr => heap'[a] = heap[a]
<1> DEFINE s == dels[from]
           arr == s.arr
           n == s.len
           cap == Len(heap[arr])
<1>1. /\ heap \in Seq(Seq(Nat)) /\ DOMAIN dels = RegionIds /\ Len(heap) \in Nat
      /\ \A a \in 1..Len(heap) : heap[a] \in Seq(Nat) /\ Len(heap[a]) \in Nat
      /\ \A a \in 1..Len(heap) : \A k \in 1..Len(heap[a]) : heap[a][k] \in Nat
  <2>1. heap \in Seq(Seq(Nat)) /\ DOMAIN dels = RegionIds BY DEF KeysInv
  <2>2. \A a \in 1..Len(heap) : heap[a] \in Seq(Nat) BY <2>1, ElementOfSeq
  <2>3. \A a \in 1..Len(heap) : \A k \in 1..Len(heap[a]) : heap[a][k] \in Nat
    BY <2>2, ElementOfSeq
  <2> QED BY <2>1, <2>2, <2>3, LenProperties
<1>2. \A r \in RegionIds :
        /\ dels[r] = [arr |-> dels[r].arr, len |-> dels[r].len]
        /\ dels[r].arr \in 1..Len(heap) /\ dels[r].len \in 0..Len(heap[dels[r].arr])
  BY DEF KeysInv, Cap
<1>3. s = [arr |-> arr, len |-> n] /\ arr \in 1..Len(heap) /\ n \in 0..cap /\ cap \in Nat
  BY <1>1, <1>2
<1>4. CASE n < cap
  <2>1. /\ heap' = [heap EXCEPT ![arr][n + 1] = key]
        /\ dels' = [dels EXCEPT ![to] = [s EXCEPT !.len = @ + 1]]
    BY <1>4 DEF AppendKey, Cap
  <2>2. dels'[to] = [arr |-> arr, len |-> n + 1]
    <3>1. [s EXCEPT !.len = @ + 1] = [arr |-> arr, len |-> n + 1] BY <1>3
    <3> HIDE DEF s
    <3> QED BY <1>1, <2>1, <3>1
  <2>3. DOMAIN dels' = RegionIds /\ \A r \in RegionIds : r # to => dels'[r] = dels[r]
    BY <1>1, <2>1
  <2> DEFINE row == [heap[arr] EXCEPT ![n + 1] = key]
  <2>4. heap' = [heap EXCEPT ![arr] = row] BY <2>1
  <2>5. /\ row \in Seq(Nat) /\ Len(row) = cap
        /\ row[n + 1] = key /\ \A k \in 1..n : row[k] = heap[arr][k]
    <3>1. n + 1 \in 1..cap /\ heap[arr] \in Seq(Nat) BY <1>1, <1>3, <1>4
    <3> DEFINE q == heap[arr]
               p == n + 1
    <3>2. q \in Seq(Nat) /\ p \in 1..Len(q) /\ key \in Nat /\ n \in Nat BY <1>3, <3>1
    <3>3. row = [q EXCEPT ![p] = key] OBVIOUS
    <3> HIDE DEF row, q, p
    <3>4. row \in Seq(Nat) /\ Len(row) = Len(q) BY <3>2, <3>3, ExceptSeq
    <3>5. row[p] = key /\ \A k \in 1..Len(q) : k # p => row[k] = q[k]
      BY <3>2, <3>3, ExceptSeq
    <3>6. \A k \in 1..n : k \in 1..Len(q) /\ k # p BY <3>2 DEF p
    <3> QED BY <3>4, <3>5, <3>6 DEF q, p
  <2> HIDE DEF s, arr, n, cap, row
  <2>6. /\ heap' \in Seq(Seq(Nat)) /\ Len(heap') = Len(heap)
        /\ heap'[arr] = row /\ \A a \in 1..Len(heap) : a # arr => heap'[a] = heap[a]
    <3>1. heap' \in Seq(Seq(Nat)) /\ Len(heap') = Len(heap) BY <1>1, <1>3, <2>4, <2>5, ExceptSeq
    <3> QED BY <1>1, <1>3, <2>4, <3>1
  <2>7. \A a \in 1..Len(heap) : Len(heap'[a]) = Len(heap[a])
    BY <2>5, <2>6 DEF cap
  <2>8. \A r \in RegionIds :
          /\ dels'[r] = [arr |-> dels'[r].arr, len |-> dels'[r].len]
          /\ dels'[r].arr \in 1..Len(heap') /\ dels'[r].len \in 0..Len(heap'[dels'[r].arr])
    <3> TAKE r \in RegionIds
    <3>1. CASE r = to
      <4>1. dels'[r].arr = arr /\ dels'[r].len = n + 1 BY <2>2, <3>1
      <4>2. n + 1 \in 0..cap BY <1>3, <1>4
      <4> QED BY <1>3, <2>2, <2>5, <2>6, <3>1, <4>1, <4>2
    <3>2. CASE r # to BY <1>2, <2>3, <2>6, <2>7, <3>2
    <3> QED BY <3>1, <3>2
  <2>9. KeysInv' BY <2>3, <2>6, <2>8 DEF KeysInv, Cap
  <2>10. dels'[to].arr = arr /\ dels'[to].len = n + 1 BY <2>2
  <2>11. heap'[dels'[to].arr][n + 1] = key BY <2>5, <2>6, <2>10
  <2>12. \A k \in 1..n : heap'[dels'[to].arr][k] = heap[arr][k] BY <2>5, <2>6, <2>10
  <2>13. Len(heap) <= Len(heap') BY <1>1, <2>6
  <2> QED BY <2>3, <2>6, <2>9, <2>10, <2>11, <2>12, <2>13 DEF s, arr, n
<1>5. CASE ~ (n < cap)
  <2> DEFINE row == AfterKey(SubSeq(heap[arr], 1, n), key, Grown(cap) - n - 1)
  <2>1. /\ heap' = Append(heap, row)
        /\ dels' = [dels EXCEPT ![to] = [arr |-> Len(heap) + 1, len |-> n + 1]]
    BY <1>5 DEF AppendKey, Cap, AfterKey
  <2>2. dels'[to] = [arr |-> Len(heap) + 1, len |-> n + 1] BY <1>1, <2>1
  <2>3. DOMAIN dels' = RegionIds /\ \A r \in RegionIds : r # to => dels'[r] = dels[r]
    BY <1>1, <2>1
  <2> HIDE DEF s, arr, n, cap
  <2>4. n = cap /\ n \in Nat BY <1>3, <1>5
  <2>5. Grown(cap) - n - 1 \in Nat BY <2>4 DEF Grown
  <2>6. /\ SubSeq(heap[arr], 1, n) \in Seq(Nat) /\ Len(SubSeq(heap[arr], 1, n)) = n
        /\ \A k \in 1..n : SubSeq(heap[arr], 1, n)[k] = heap[arr][k]
    <3>1. SubSeq(heap[arr], 1, n) = heap[arr] BY <1>1, <1>3, <2>4, SubSeqFull DEF cap
    <3> QED BY <1>1, <1>3, <2>4, <3>1 DEF cap
  <2>7. /\ row \in Seq(Nat) /\ Len(row) = n + 1 + (Grown(cap) - n - 1)
        /\ row[n + 1] = key /\ \A k \in 1..n : row[k] = heap[arr][k]
    <3> DEFINE t == SubSeq(heap[arr], 1, n)
               m == Grown(cap) - n - 1
    <3>0. t \in Seq(Nat) /\ m \in Nat BY <2>5, <2>6
    <3> HIDE DEF t, m
    <3>1. /\ AfterKey(t, key, m) \in Seq(Nat) /\ Len(AfterKey(t, key, m)) = Len(t) + 1 + m
          /\ \A k \in 1..Len(t) : AfterKey(t, key, m)[k] = t[k]
          /\ AfterKey(t, key, m)[Len(t) + 1] = key
      BY <3>0, AfterKeyIs
    <3> QED BY <2>6, <3>1 DEF t, m
  <2> HIDE DEF row
  <2>8. /\ heap' \in Seq(Seq(Nat)) /\ Len(heap') = Len(heap) + 1
        /\ heap'[Len(heap) + 1] = row /\ \A a \in 1..Len(heap) : heap'[a] = heap[a]
    BY <1>1, <2>1, <2>7, AppendProperties
  <2>9. \A r \in RegionIds :
          /\ dels'[r] = [arr |-> dels'[r].arr, len |-> dels'[r].len]
          /\ dels'[r].arr \in 1..Len(heap') /\ dels'[r].len \in 0..Len(heap'[dels'[r].arr])
    <3> TAKE r \in RegionIds
    <3>1. CASE r = to
      <4>1. dels'[r].arr = Len(heap) + 1 /\ dels'[r].len = n + 1 BY <2>2, <3>1
      <4>2. n + 1 \in 0..Len(row) BY <2>4, <2>5, <2>7
      <4> QED BY <1>1, <2>2, <2>8, <3>1, <4>1, <4>2
    <3>2. CASE r # to
      <4>1. dels'[r] = dels[r] BY <2>3, <3>2
      <4>2. dels[r].arr \in 1..Len(heap) /\ heap'[dels[r].arr] = heap[dels[r].arr]
        BY <1>2, <2>8
      <4>3. dels[r].arr \in 1..Len(heap') BY <1>1, <2>8, <4>2
      <4> QED BY <1>2, <4>1, <4>2, <4>3
    <3> QED BY <3>1, <3>2
  <2>10. KeysInv' BY <2>3, <2>8, <2>9 DEF KeysInv, Cap
  <2>11. dels'[to].arr = Len(heap) + 1 /\ dels'[to].len = n + 1 BY <2>2
  <2>12. heap'[dels'[to].arr][n + 1] = key BY <2>7, <2>8, <2>11
  <2>13. \A k \in 1..n : heap'[dels'[to].arr][k] = heap[arr][k] BY <2>7, <2>8, <2>11
  <2>14. Len(heap) <= Len(heap') BY <1>1, <2>8
  <2> QED BY <2>3, <2>8, <2>10, <2>11, <2>12, <2>13, <2>14 DEF s, arr, n
<1> QED BY <1>3, <1>4, <1>5

\* Division and its remainder.
LEMMA DivMod ==
  ASSUME NEW a \in Nat, NEW n \in Nat \ {0}
  PROVE  a \div n \in Nat /\ a % n \in 0..(n - 1) /\ a = n * (a \div n) + (a % n)
OBVIOUS

\* Nothing is grouped or dealt at first.
LEMMA InitInv == Init => SplitInv /\ LocalInv
<1> SUFFICES ASSUME Init PROVE SplitInv /\ LocalInv OBVIOUS
<1>1. /\ file \in Files /\ phase = "grouping" /\ pos = 0 /\ startItem = 0
      /\ orders = [r \in RegionIds |-> <<>>] /\ items = [r \in RegionIds |-> <<>>]
      /\ sizes = [r \in RegionIds |-> <<>>]
      /\ dels = [r \in RegionIds |-> [arr |-> r + 1, len |-> 0]]
      /\ routine = 0 /\ region = FirstRegion /\ start = 0 /\ lineStart = 0 /\ left = 0
      /\ dealt = [r \in 0..(Routines - 1) |->
                    [orders |-> <<>>, items |-> <<>>, sizes |-> <<>>, dels |-> <<>>]]
  BY DEF Init
<1>2. NOrders \in Nat /\ NOrders = Len(file) BY <1>1, FileFacts DEF NOrders
<1>3. Len(<<>>) = 0 OBVIOUS
<1>4. GroupInv
  <2>1. orders \in [RegionIds -> Seq(1..NOrders)]
    <3>1. <<>> \in Seq(1..NOrders) OBVIOUS
    <3> QED BY <1>1, <3>1
  <2>2. \A r \in RegionIds :
          /\ orders[r] = OrdersUpTo(file, r, pos) /\ Len(orders[r]) <= pos
          /\ items[r] = ItemsOf(file, orders[r]) /\ Len(items[r]) <= startItem
          /\ sizes[r] = SizesOf(file, orders[r])
    <3> TAKE r \in RegionIds
    <3>1. orders[r] = <<>> /\ items[r] = <<>> /\ sizes[r] = <<>> BY <1>1
    <3>2. /\ ItemsOf(file, <<>>) = <<>> /\ SizesOf(file, <<>>) = <<>>
          /\ OrdersUpTo(file, r, 0) = <<>>
      BY Nothing
    <3> QED BY <1>1, <1>3, <3>1, <3>2
  <2>3. startItem = ItemsBefore(file, Ids(file), pos) BY <1>1, Nothing
  <2>4. DOMAIN items = RegionIds /\ DOMAIN sizes = RegionIds BY <1>1
  <2> QED BY <1>1, <1>2, <2>1, <2>2, <2>3, <2>4 DEF GroupInv
<1>5. heap \in Seq(Seq(Nat)) /\ Len(heap) = NRegions /\ NRegions \in Nat
  <2> DEFINE size == Len(file) \div (NRegions - 1)
  <2>1. NRegions \in Nat /\ NRegions - 1 \in Nat \ {0} BY SplitAssumption
  <2>2. size \in Nat BY <1>2, <2>1, DivMod
  <2>3. heap = [r \in 1..NRegions |-> Zeros(size)] BY DEF Init
  <2> HIDE DEF size
  <2>4. heap \in [1..NRegions -> Seq(Nat)] BY <2>2, <2>3, ZerosType
  <2> QED BY <2>1, <2>4, SeqOfLength
<1>6. \A r \in RegionIds : r + 1 \in 1..NRegions /\ dels[r] = [arr |-> r + 1, len |-> 0]
  BY <1>1, <1>5 DEF RegionIds
<1>7. KeysInv
  <2>1. \A a \in 1..Len(heap) : Len(heap[a]) \in Nat
    BY <1>5, ElementOfSeq, LenProperties
  <2>2. \A r \in RegionIds :
          /\ dels[r] = [arr |-> dels[r].arr, len |-> dels[r].len]
          /\ dels[r].arr \in 1..Len(heap) /\ dels[r].len \in 0..Len(heap[dels[r].arr])
    <3> TAKE r \in RegionIds
    <3>1. dels[r].arr = r + 1 /\ dels[r].len = 0 BY <1>1
    <3>2. r + 1 \in 1..Len(heap) BY <1>5, <1>6
    <3> QED BY <1>6, <2>1, <3>1, <3>2
  <2>3. DOMAIN dels = RegionIds BY <1>1
  <2> QED BY <1>5, <2>2, <2>3 DEF KeysInv, Cap
<1>8. DealInv
  <2>1. Routines \in Nat \ {0} /\ FirstRegion \in RegionIds BY SplitAssumption
  <2>2. orders[region] = <<>> BY <1>1, <2>1
  <2>3. start \in 0..Len(orders[region]) BY <1>1, <1>3, <2>2
  <2>4. lineStart = ItemsBefore(file, orders[region], start) BY <1>1, Nothing
  <2>5. \A r \in 0..(Routines - 1) :
          /\ dealt[r].orders = <<>> /\ dealt[r].items = <<>> /\ dealt[r].sizes = <<>>
          /\ dealt[r].dels = <<>>
    BY <1>1
  <2>6. \A r \in 0..(Routines - 1) : Given(r) = 0 BY <1>1 DEF Given
  <2>7. <<>> \in Seq(1..NOrders) OBVIOUS
  <2>8. \A r \in 0..(Routines - 1) :
          /\ dealt[r].orders \in Seq(1..NOrders) /\ Len(dealt[r].orders) = Given(r)
          /\ dealt[r].items = ItemsOf(file, dealt[r].orders)
          /\ dealt[r].sizes = SizesOf(file, dealt[r].orders)
          /\ phase = "grouping" => dealt[r].orders = <<>> /\ dealt[r].dels = <<>>
    BY <1>3, <2>5, <2>6, <2>7, Nothing
  <2>9. DOMAIN dealt = 0..(Routines - 1) BY <1>1
  <2> QED BY <1>1, <2>1, <2>3, <2>4, <2>8, <2>9 DEF DealInv
<1>9. LocalInv
  <2>1. \A r \in RegionIds : /\ dels[r].len = Len(orders[r])
                             /\ \A k \in 1..dels[r].len : heap[dels[r].arr][k] = orders[r][k]
    BY <1>1, <1>3, <1>6
  <2>2. \A r, t \in RegionIds : dels[r].arr = dels[t].arr => r = t
    <3>1. \A r \in RegionIds : dels[r].arr = r + 1 /\ r \in Int BY <1>1 DEF RegionIds
    <3> QED BY <3>1
  <2>3. \A r \in 0..(Routines - 1) : dealt[r].dels = dealt[r].orders BY <1>1
  <2> QED BY <1>1, <2>1, <2>2, <2>3 DEF LocalInv
<1> QED BY <1>4, <1>7, <1>8, <1>9 DEF SplitInv

\* The keys, the dealing and local files while an order is grouped.
LEMMA GroupOrderKeepsRest ==
  ASSUME SplitInv, GroupOrder
  PROVE  KeysInv' /\ DealInv' /\ (LocalInv => LocalInv')
<1> DEFINE o == file[pos + 1]
           p == pos + 1
<1>1. /\ file' = file /\ phase' = phase /\ phase = "grouping" /\ pos' = p
      /\ orders' = [orders EXCEPT ![o.region] = @ \o <<p>>]
      /\ IF o.delRegion = NoRegion THEN dels' = dels /\ heap' = heap
         ELSE AppendKey(o.delRegion, o.region, p)
      /\ routine' = routine /\ region' = region /\ start' = start /\ lineStart' = lineStart
      /\ left' = left /\ dealt' = dealt
  BY DEF GroupOrder, Grouped, dealing
<1>2. /\ NOrders \in Nat /\ NOrders = Len(file) /\ pos \in 0..(NOrders - 1)
      /\ file \in Files /\ NOrders' = NOrders
  <2>1. file \in Files /\ pos \in 0..NOrders BY DEF SplitInv, GroupInv
  <2>2. pos < NOrders BY DEF GroupOrder
  <2>3. NOrders \in Nat /\ NOrders = Len(file) BY <2>1, FileFacts DEF NOrders
  <2>4. NOrders' = NOrders BY <1>1 DEF NOrders
  <2> QED BY <2>1, <2>2, <2>3, <2>4
<1>3. /\ p \in 1..NOrders /\ o.region \in RegionIds
      /\ o.delRegion \in {NoRegion} \cup RegionIds
  BY <1>2, FileFacts
<1>4. p \in Nat /\ <<p>> \in Seq(1..NOrders) /\ Len(<<p>>) = 1 BY <1>2, <1>3
<1>5. /\ orders \in [RegionIds -> Seq(1..NOrders)]
      /\ \A r \in RegionIds : orders[r] \in Seq(1..NOrders) /\ Len(orders[r]) \in Nat
  BY LenProperties DEF SplitInv, GroupInv
<1>6. KeysInv'
  <2>1. CASE o.delRegion = NoRegion
    <3>1. dels' = dels /\ heap' = heap BY <1>1, <2>1
    <3> QED BY <3>1 DEF SplitInv, KeysInv, Cap
  <2>2. CASE o.delRegion # NoRegion
    <3>1. AppendKey(o.delRegion, o.region, p) /\ o.delRegion \in RegionIds
      BY <1>1, <1>3, <2>2
    <3> QED BY <1>3, <1>4, <3>1, AppendKeyFacts DEF SplitInv
  <2> QED BY <2>1, <2>2
<1> HIDE DEF p
<1>7. \A r \in RegionIds : orders'[r] = IF r = o.region THEN orders[r] \o <<p>> ELSE orders[r]
  BY <1>1, <1>5
<1>8. DealInv'
  <2>1. start = 0 /\ region \in RegionIds /\ lineStart = 0
    <3>1. start = 0 /\ region \in RegionIds BY <1>1 DEF SplitInv, DealInv
    <3>2. lineStart = ItemsBefore(file, orders[region], start) BY DEF SplitInv, DealInv
    <3> QED BY <3>1, <3>2, Nothing
  <2>2. orders'[region] \in Seq(1..NOrders) 
    <3>1. orders[region] \in Seq(1..NOrders) BY <1>5, <2>1
    <3>2. orders[region] \o <<p>> \in Seq(1..NOrders) BY <1>4, <3>1, ConcatProperties DEF p
    <3> QED BY <1>7, <2>1, <3>1, <3>2
  <2>3. start' \in 0..Len(orders'[region']) BY <1>1, <2>1, <2>2, LenProperties
  <2>4. lineStart' = ItemsBefore(file', orders'[region'], start') BY <1>1, <2>1, Nothing
  <2>5. /\ \A r : Share(r)' = Share(r)
        /\ \A r : Given(r)' = Given(r)
    BY <1>1, <1>2 DEF Given, Share
  <2> QED BY <1>1, <1>2, <2>3, <2>4, <2>5 DEF SplitInv, DealInv
<1>9. ASSUME LocalInv PROVE LocalInv'
  <2> SUFFICES ASSUME Local'
               PROVE  /\ phase' # "panicked"
                      /\ \A r \in RegionIds :
                           /\ dels'[r].len = Len(orders'[r])
                           /\ \A k \in 1..dels'[r].len :
                                heap'[dels'[r].arr][k] = orders'[r][k]
                      /\ \A r, t \in RegionIds : dels'[r].arr = dels'[t].arr => r = t
                      /\ \A r \in 0..(Routines - 1) : dealt'[r].dels = dealt'[r].orders
    BY DEF LocalInv
  <2>1. Local BY <1>1 DEF Local, NOrders
  <2>2. /\ \A r \in RegionIds :
             /\ dels[r].len = Len(orders[r])
             /\ \A k \in 1..dels[r].len : heap[dels[r].arr][k] = orders[r][k]
        /\ \A r, t \in RegionIds : dels[r].arr = dels[t].arr => r = t
        /\ \A r \in 0..(Routines - 1) : dealt[r].dels = dealt[r].orders
    BY <1>9, <2>1 DEF LocalInv
  <2> DEFINE g == o.region
  <2>3. AppendKey(g, g, p)
    <3>1. o.delRegion = g BY <1>3, <2>1 DEF Local, p
    <3>2. g # NoRegion BY <1>3, SplitAssumption DEF RegionIds, NoRegion
    <3> QED BY <1>1, <3>1, <3>2
  <2> HIDE DEF g
  <2>4. g \in RegionIds /\ \A r \in RegionIds : orders'[r] = IF r = g THEN orders[r] \o <<p>>
                                                            ELSE orders[r]
    BY <1>3, <1>7 DEF g
  <2>5. KeysInv BY DEF SplitInv
  <2>6. /\ dels'[g].len = dels[g].len + 1
        /\ \A r \in RegionIds : r # g => dels'[r] = dels[r]
        /\ dels'[g].arr \in {dels[g].arr, Len(heap) + 1}
        /\ heap'[dels'[g].arr][dels[g].len + 1] = p
        /\ \A k \in 1..dels[g].len : heap'[dels'[g].arr][k] = heap[dels[g].arr][k]
        /\ \A a \in 1..Len(heap) : a # dels[g].arr => heap'[a] = heap[a]
    BY <1>4, <2>3, <2>4, <2>5, AppendKeyFacts
  <2>7. Len(heap) \in Nat /\ \A r \in RegionIds : dels[r].arr \in 1..Len(heap)
    BY <2>5, LenProperties DEF KeysInv
  <2>8. ASSUME NEW r \in RegionIds
        PROVE  /\ dels'[r].len = Len(orders'[r])
               /\ \A k \in 1..dels'[r].len : heap'[dels'[r].arr][k] = orders'[r][k]
    <3>1. CASE r = g
      <4> DEFINE n == Len(orders[g])
      <4>1. orders[g] \in Seq(1..NOrders) /\ n \in Nat BY <1>5, <2>4
      <4>2. orders'[g] = Append(orders[g], p) BY <2>4, <4>1, <1>3, AppendIsConcat
      <4>3. /\ Len(orders'[g]) = n + 1 /\ orders'[g][n + 1] = p
            /\ \A k \in 1..n : orders'[g][k] = orders[g][k]
        BY <1>3, <4>1, <4>2, AppendProperties
      <4>4. dels[g].len = n BY <2>2, <2>4
      <4>5. \A k \in 1..n : heap'[dels'[g].arr][k] = orders'[g][k]
        BY <2>2, <2>4, <2>6, <4>3, <4>4
      <4>6. heap'[dels'[g].arr][n + 1] = orders'[g][n + 1] BY <2>6, <4>3, <4>4
      <4>7. dels'[g].len = n + 1 BY <2>6, <4>4
      <4> HIDE DEF n
      <4>8. \A k \in 1..(n + 1) : k \in 1..n \/ k = n + 1 BY <4>1
      <4> QED BY <3>1, <4>3, <4>5, <4>6, <4>7, <4>8
    <3>2. CASE r # g
      <4>1. dels'[r] = dels[r] /\ orders'[r] = orders[r] BY <2>4, <2>6, <3>2
      <4>2. heap'[dels[r].arr] = heap[dels[r].arr]
        BY <2>2, <2>4, <2>6, <2>7, <3>2
      <4> QED BY <2>2, <4>1, <4>2
    <3> QED BY <3>1, <3>2
  <2>9. \A r, t \in RegionIds : dels'[r].arr = dels'[t].arr => r = t
    <3>1. \A r \in RegionIds : dels[r].arr # Len(heap) + 1 BY <2>7
    <3> QED BY <2>2, <2>4, <2>6, <3>1
  <2> QED BY <1>1, <2>2, <2>8, <2>9
<1> QED BY <1>6, <1>8, <1>9

-----------------------------------------------------------------------------
(* What the dealing relies on. *)

\* No share is greater than the file.
LEMMA ShareType ==
  ASSUME NOrders \in Nat, NEW r \in Nat
  PROVE  Share(r) \in 0..NOrders
<1> DEFINE q == NOrders \div Routines
           m == NOrders % Routines
<1>1. Routines \in Nat \ {0} BY SplitAssumption
<1>2. q \in Nat /\ m \in 0..(Routines - 1) /\ NOrders = Routines * q + m BY <1>1, DivMod
<1>3. Share(r) = q + (IF r < m THEN 1 ELSE 0) BY DEF Share
<1> HIDE DEF q, m
<1>4. Routines * q >= q BY <1>1, <1>2
<1> QED BY <1>1, <1>2, <1>3, <1>4

\* What is taken of the current region, up to its fin-th order.
Part(fin) == SubSeq(orders[region], start + 1, fin)

\* The fields that dealing the orders up to the fin-th changes.
DealsUpTo(fin) ==
  /\ DOMAIN dealt' = DOMAIN dealt
  /\ \A r \in 0..(Routines - 1) : r # routine => dealt'[r] = dealt[r]
  /\ dealt'[routine].orders = dealt[routine].orders \o Part(fin)
  /\ dealt'[routine].items = dealt[routine].items \o ItemsOf(file, Part(fin))
  /\ dealt'[routine].sizes = dealt[routine].sizes \o SizesOf(file, Part(fin))
  /\ dealt'[routine].dels =
       dealt[routine].dels \o SubSeq(heap[dels[region].arr], start + 1, fin)
  /\ fin = Len(orders[region]) => region' = (region + 1) % NRegions /\ start' = 0 /\ lineStart' = 0
  /\ fin # Len(orders[region]) => /\ region' = region /\ start' = fin
                                 /\ lineStart' = ItemsBefore(file, orders[region], fin)
  /\ routine' = IF left' = 0 THEN routine + 1 ELSE routine

\* Dealing orders from the current region until wanted or until its end.
LEMMA DealFacts ==
  ASSUME SplitInv, routine < Routines, NEW w \in Nat, start <= w, Deal(w)
  PROVE  /\ file' = file /\ grouping' = grouping
         /\ \E fin \in start..Len(orders[region]) :
              /\ fin <= w /\ (w = fin \/ fin = Len(orders[region]))
              /\ Part(fin) \in Seq(1..NOrders) /\ Len(Part(fin)) = fin - start
              /\ \/ phase' = "panicked" /\ fin > Cap(dels[region]) /\ dealing' = dealing
                 \/ phase' = phase /\ left' = w - fin /\ DealsUpTo(fin)
<1> DEFINE n == Len(orders[region])
           fin == w - LeftOver(w)
           part == SubSeq(orders[region], start + 1, fin)
           lineFinish == lineStart + SumFunction(SubSeq(sizes[region], start + 1, fin))
           share == [orders |-> part,
                     items  |-> SubSeq(items[region], lineStart + 1, lineFinish),
                     sizes  |-> SubSeq(sizes[region], start + 1, fin),
                     dels   |-> SubSeq(heap[dels[region].arr], start + 1, fin)]
<1>1. /\ file \in Files /\ region \in RegionIds /\ NOrders = Len(file)
      /\ orders[region] \in Seq(1..NOrders) /\ n \in Nat /\ start \in 0..n
      /\ items[region] = ItemsOf(file, orders[region])
      /\ sizes[region] = SizesOf(file, orders[region])
      /\ lineStart = ItemsBefore(file, orders[region], start)
      /\ routine \in 0..(Routines - 1) /\ DOMAIN dealt = 0..(Routines - 1)
  <2>1. /\ file \in Files /\ orders \in [RegionIds -> Seq(1..NOrders)]
        /\ \A r \in RegionIds : /\ items[r] = ItemsOf(file, orders[r])
                                /\ sizes[r] = SizesOf(file, orders[r])
    BY DEF SplitInv, GroupInv
  <2>2. /\ region \in RegionIds /\ routine \in 0..Routines /\ start \in 0..n
        /\ lineStart = ItemsBefore(file, orders[region], start)
        /\ DOMAIN dealt = 0..(Routines - 1)
    BY DEF SplitInv, DealInv
  <2>3. n \in Nat BY <2>1, <2>2, LenProperties
  <2>4. routine \in 0..(Routines - 1) BY <2>2, SplitAssumption
  <2> QED BY <2>1, <2>2, <2>3, <2>4 DEF NOrders
<1>2. /\ LeftOver(w) = w - fin /\ fin \in start..n
      /\ fin <= w /\ (w = fin \/ fin = n)
  <2>1. LeftOver(w) = IF w > n THEN w - n ELSE 0 BY DEF LeftOver
  <2> HIDE DEF n
  <2>2. CASE w > n
    <3>1. LeftOver(w) = w - n BY <2>1, <2>2
    <3> HIDE DEF fin
    <3>2. fin = n BY <1>1, <3>1 DEF fin
    <3> QED BY <1>1, <2>2, <3>1, <3>2
  <2>3. CASE ~ (w > n)
    <3>1. LeftOver(w) = 0 BY <2>1, <2>3
    <3> HIDE DEF fin
    <3>2. fin = w BY <1>1, <3>1 DEF fin
    <3> QED BY <1>1, <2>3, <3>1, <3>2
  <2> QED BY <2>2, <2>3
<1>3. /\ part \in Seq(1..NOrders) /\ Len(part) = fin - start
      /\ share.sizes = SizesOf(file, part)
  <2>1. part \in Seq(1..Len(file)) /\ Len(part) = fin - start
        /\ SubSeq(SizesOf(file, orders[region]), start + 1, fin) = SizesOf(file, part)
    BY <1>1, <1>2, SliceOfOrders
  <2> QED BY <1>1, <2>1
<1>4. lineFinish = ItemsBefore(file, orders[region], fin) /\ share.items = ItemsOf(file, part)
  <2> HIDE DEF fin
  <2>1. /\ ItemsBefore(file, orders[region], fin) =
             ItemsBefore(file, orders[region], start) + SumFunction(SizesOf(file, part))
        /\ SubSeq(ItemsOf(file, orders[region]), ItemsBefore(file, orders[region], start) + 1,
                  ItemsBefore(file, orders[region], fin)) = ItemsOf(file, part)
    BY <1>1, <1>2, SliceOfItems
  <2>2. lineFinish = ItemsBefore(file, orders[region], fin) BY <1>1, <1>3, <2>1
  <2> QED BY <1>1, <2>1, <2>2
<1>5. IF fin > Cap(dels[region])
      THEN phase' = "panicked" /\ UNCHANGED <<file, grouping, dealing>>
      ELSE /\ dealt' = [dealt EXCEPT ![routine] = [f \in DOMAIN share |-> @[f] \o share[f]]]
           /\ region' = NextRegion(fin)
           /\ start' = IF fin = n THEN 0 ELSE fin
           /\ lineStart' = LineStart(fin, lineFinish)
           /\ left' = LeftOver(w)
           /\ routine' = IF left' = 0 THEN routine + 1 ELSE routine
           /\ UNCHANGED <<file, phase, grouping>>
  BY DEF Deal
<1>6. file' = file /\ grouping' = grouping BY <1>5
<1>7. CASE fin > Cap(dels[region])
  <2>1. phase' = "panicked" /\ dealing' = dealing BY <1>5, <1>7
  <2> QED BY <1>2, <1>3, <1>6, <1>7, <2>1 DEF Part
<1>8. CASE ~ (fin > Cap(dels[region]))
  <2>1. /\ dealt' = [dealt EXCEPT ![routine] = [f \in DOMAIN share |-> @[f] \o share[f]]]
        /\ region' = NextRegion(fin) /\ start' = (IF fin = n THEN 0 ELSE fin)
        /\ lineStart' = LineStart(fin, lineFinish) /\ left' = LeftOver(w) /\ phase' = phase
        /\ routine' = IF left' = 0 THEN routine + 1 ELSE routine
    BY <1>5, <1>8
  <2>2. /\ DOMAIN dealt' = DOMAIN dealt
        /\ \A r \in 0..(Routines - 1) : r # routine => dealt'[r] = dealt[r]
        /\ dealt'[routine] = [f \in DOMAIN share |-> dealt[routine][f] \o share[f]]
    <3> HIDE DEF share
    <3> QED BY <1>1, <2>1
  <2>3. /\ dealt'[routine].orders = dealt[routine].orders \o share.orders
        /\ dealt'[routine].items = dealt[routine].items \o share.items
        /\ dealt'[routine].sizes = dealt[routine].sizes \o share.sizes
        /\ dealt'[routine].dels = dealt[routine].dels \o share.dels
    <3>1. /\ "orders" \in DOMAIN share /\ "items" \in DOMAIN share
          /\ "sizes" \in DOMAIN share /\ "dels" \in DOMAIN share
      OBVIOUS
    <3> HIDE DEF share
    <3> QED BY <2>2, <3>1
  <2>4. share.orders = part /\ share.dels = SubSeq(heap[dels[region].arr], start + 1, fin)
    OBVIOUS
  <2> HIDE DEF share, lineFinish
  <2>5. /\ fin = n => region' = (region + 1) % NRegions /\ start' = 0 /\ lineStart' = 0
        /\ fin # n => /\ region' = region /\ start' = fin
                      /\ lineStart' = ItemsBefore(file, orders[region], fin)
    BY <1>4, <2>1 DEF NextRegion, LineStart
  <2> HIDE DEF fin
  <2>6. Part(fin) = part BY DEF Part
  <2>7. DealsUpTo(fin) BY <1>3, <1>4, <2>1, <2>2, <2>3, <2>4, <2>5, <2>6 DEF DealsUpTo
  <2>8. left' = w - fin BY <1>2, <2>1
  <2> QED BY <1>2, <1>3, <1>6, <2>1, <2>6, <2>7, <2>8
<1> QED BY <1>7, <1>8

\* What routine is still to get.
Lacks == IF left > 0 THEN left ELSE Share(routine)

\* Dealing it: w is the start and what the routine lacks.
LEMMA DealStart ==
  ASSUME SplitInv, DealShare \/ DealMore
  PROVE  /\ phase = "dealing" /\ routine \in 0..(Routines - 1) /\ Lacks \in Nat
         /\ start \in Nat /\ Lacks <= Share(routine) /\ Deal(start + Lacks)
         /\ Given(routine) = Share(routine) - Lacks
<1>1. /\ routine \in 0..Routines /\ left \in Nat /\ start \in Nat /\ Routines \in Nat \ {0}
      /\ left > 0 => routine < Routines /\ left <= Share(routine)
  BY SplitAssumption DEF SplitInv, DealInv
<1>2. NOrders \in Nat BY FileFacts DEF SplitInv, GroupInv, NOrders
<1>3. Share(routine) \in Nat BY <1>1, <1>2, ShareType
<1>4. CASE DealShare
  <2>1. phase = "dealing" /\ routine < Routines /\ left = 0 /\ Deal(start + Share(routine))
    BY <1>4 DEF DealShare
  <2>2. Lacks = Share(routine) /\ Given(routine) = 0 BY <1>1, <2>1 DEF Lacks, Given
  <2> QED BY <1>1, <1>3, <2>1, <2>2
<1>5. CASE DealMore
  <2>1. phase = "dealing" /\ left > 0 /\ Deal(start + left) BY <1>5 DEF DealMore
  <2>2. Lacks = left /\ Given(routine) = Share(routine) - left
    BY <1>1, <2>1 DEF Lacks, Given
  <2> QED BY <1>1, <1>3, <2>1, <2>2
<1> QED BY <1>4, <1>5

\* Dealing some orders keeps the invariant.
LEMMA DealKeepsInv ==
  ASSUME SplitInv, DealShare \/ DealMore
  PROVE  SplitInv' /\ (LocalInv => LocalInv')
<1> DEFINE w == start + Lacks
<1>1. /\ phase = "dealing" /\ routine \in 0..(Routines - 1) /\ Lacks \in Nat
      /\ start \in Nat /\ Lacks <= Share(routine) /\ Deal(w)
      /\ Given(routine) = Share(routine) - Lacks
  BY DealStart
<1> HIDE DEF w
<1>2. w \in Nat /\ start <= w /\ w - start = Lacks /\ routine < Routines /\ Routines \in Nat
  BY <1>1, SplitAssumption DEF w
<1>3. file' = file /\ grouping' = grouping BY <1>1, <1>2, DealFacts
<1>4. PICK fin \in start..Len(orders[region]) :
        /\ fin <= w /\ (w = fin \/ fin = Len(orders[region]))
        /\ Part(fin) \in Seq(1..NOrders) /\ Len(Part(fin)) = fin - start
        /\ \/ phase' = "panicked" /\ fin > Cap(dels[region]) /\ dealing' = dealing
           \/ phase' = phase /\ left' = w - fin /\ DealsUpTo(fin)
  BY <1>1, <1>2, DealFacts
<1>5. /\ pos' = pos /\ startItem' = startItem /\ orders' = orders /\ items' = items
      /\ sizes' = sizes /\ dels' = dels /\ heap' = heap /\ NOrders' = NOrders
  BY <1>3 DEF grouping, NOrders
<1>6. /\ file \in Files /\ NOrders = Len(file) /\ NOrders \in Nat
      /\ orders \in [RegionIds -> Seq(1..NOrders)] /\ region \in RegionIds
      /\ Len(orders[region]) \in Nat /\ fin \in Nat /\ pos = NOrders
  <2>1. /\ file \in Files /\ orders \in [RegionIds -> Seq(1..NOrders)] /\ region \in RegionIds
        /\ pos = NOrders
    BY <1>1 DEF SplitInv, GroupInv, DealInv
  <2>2. Len(orders[region]) \in Nat BY <2>1, LenProperties
  <2> QED BY <1>1, <2>1, <2>2, FileFacts DEF NOrders
<1>7. phase' \in {"dealing", "panicked"} BY <1>1, <1>4
<1>8. GroupInv'
  BY <1>3, <1>5, <1>6, <1>7 DEF SplitInv, GroupInv
<1>9. KeysInv' BY <1>5 DEF SplitInv, KeysInv, Cap
<1>10. /\ \A r : Share(r)' = Share(r)
       /\ \A r \in Nat : Share(r) \in Nat
  <2>1. \A r : Share(r)' = Share(r) BY <1>5 DEF Share
  <2>2. ASSUME NEW r \in Nat PROVE Share(r) \in Nat
    <3>1. Share(r) \in 0..NOrders BY <1>6, ShareType
    <3> QED BY <1>6, <3>1
  <2> QED BY <2>1, <2>2
<1>11. /\ routine \in 0..Routines /\ left \in Nat /\ start \in 0..Len(orders[region])
       /\ lineStart = ItemsBefore(file, orders[region], start)
       /\ left > 0 => routine < Routines /\ left <= Share(routine)
       /\ DOMAIN dealt = 0..(Routines - 1)
       /\ \A r \in 0..(Routines - 1) :
            /\ dealt[r].orders \in Seq(1..NOrders) /\ Len(dealt[r].orders) = Given(r)
            /\ dealt[r].items = ItemsOf(file, dealt[r].orders)
            /\ dealt[r].sizes = SizesOf(file, dealt[r].orders)
  BY DEF SplitInv, DealInv
<1>12. CASE phase' = "panicked" /\ fin > Cap(dels[region]) /\ dealing' = dealing
  <2>1. /\ routine' = routine /\ region' = region /\ start' = start /\ lineStart' = lineStart
        /\ left' = left /\ dealt' = dealt
    BY <1>12 DEF dealing
  <2>2. \A r : Given(r)' = Given(r) BY <1>10, <2>1 DEF Given
  <2>3. DealInv' BY <1>3, <1>5, <1>6, <1>10, <1>11, <1>12, <2>1, <2>2 DEF DealInv
  <2>4. ~ Local \/ ~ LocalInv
    <3>1. dels[region].len \in 0..Cap(dels[region]) /\ Cap(dels[region]) \in Nat
      <4>1. heap \in Seq(Seq(Nat)) /\ dels[region].arr \in 1..Len(heap)
            /\ dels[region].len \in 0..Cap(dels[region])
        BY <1>6 DEF SplitInv, KeysInv
      <4>2. heap[dels[region].arr] \in Seq(Nat) BY <4>1, ElementOfSeq
      <4> QED BY <4>1, <4>2, LenProperties DEF Cap
    <3>2. LocalInv /\ Local => dels[region].len = Len(orders[region]) BY <1>6 DEF LocalInv
    <3> QED BY <1>6, <1>12, <3>1, <3>2
  <2>5. Local' = Local BY <1>3, <1>5 DEF Local
  <2> QED BY <1>8, <1>9, <2>3, <2>4, <2>5 DEF SplitInv, LocalInv
<1>13. CASE phase' = phase /\ left' = w - fin /\ DealsUpTo(fin)
  <2> DEFINE part == Part(fin)
  <2>1. part \in Seq(1..NOrders) /\ Len(part) = fin - start BY <1>4
  <2>2. left' \in Nat /\ left' = Lacks - (fin - start) BY <1>1, <1>2, <1>4, <1>6, <1>13
  <2>3. region' \in RegionIds
    <3>1. (region + 1) % NRegions \in RegionIds
      <4>1. NRegions \in Nat \ {0} /\ region + 1 \in Nat BY <1>6, SplitAssumption DEF RegionIds
      <4> QED BY <4>1, DivMod DEF RegionIds
    <3> QED BY <1>6, <1>13, <3>1 DEF DealsUpTo
  <2>4. /\ start' \in 0..Len(orders'[region'])
        /\ lineStart' = ItemsBefore(file', orders'[region'], start')
    <3>1. CASE fin = Len(orders[region])
      <4>1. start' = 0 /\ lineStart' = 0 BY <1>13, <3>1 DEF DealsUpTo
      <4>2. Len(orders'[region']) \in Nat BY <1>5, <1>6, <2>3, LenProperties
      <4> QED BY <4>1, <4>2, Nothing
    <3>2. CASE fin # Len(orders[region])
      <4>1. /\ region' = region /\ start' = fin
            /\ lineStart' = ItemsBefore(file, orders[region], fin)
        BY <1>13, <3>2 DEF DealsUpTo
      <4> QED BY <1>3, <1>4, <1>5, <1>6, <4>1
    <3> QED BY <3>1, <3>2
  <2>5. routine' = IF left' = 0 THEN routine + 1 ELSE routine BY <1>13 DEF DealsUpTo
  <2>6. /\ routine' \in 0..Routines
        /\ left' > 0 => routine' < Routines /\ left' <= Share(routine')
    <3>1. Share(routine) \in Nat BY <1>1, <1>2, <1>10
    <3>2. left' <= Share(routine) BY <1>1, <1>6, <2>2, <3>1
    <3>3. CASE left' = 0 BY <1>1, <1>2, <2>5, <3>3
    <3>4. CASE left' # 0
      <4>1. routine' = routine BY <2>5, <3>4
      <4> QED BY <1>1, <1>2, <3>2, <4>1
    <3> QED BY <3>3, <3>4
  <2>7. ASSUME NEW r \in 0..(Routines - 1), r # routine
        PROVE  dealt'[r] = dealt[r] /\ Given(r)' = Given(r)
    <3>1. dealt'[r] = dealt[r] BY <1>13, <2>7 DEF DealsUpTo
    <3>2. Given(r)' = IF r < routine' THEN Share(r)
                      ELSE IF r = routine' /\ left' > 0 THEN Share(r) - left' ELSE 0
      BY <1>10 DEF Given
    <3>3. Given(r) = IF r < routine THEN Share(r) ELSE 0 BY <2>7 DEF Given
    <3> HIDE DEF Given
    <3>4. r \in Int /\ routine \in Int BY <1>1, <1>2
    <3>5. CASE left' = 0
      <4>1. routine' = routine + 1 /\ ~ (left' > 0) BY <2>5, <3>5
      <4>2. r < routine + 1 <=> r < routine BY <2>7, <3>4
      <4> QED BY <3>1, <3>2, <3>3, <4>1, <4>2
    <3>6. CASE left' # 0
      <4>1. routine' = routine BY <2>5, <3>6
      <4> QED BY <2>7, <3>1, <3>2, <3>3, <4>1
    <3> QED BY <3>5, <3>6
  <2>8. ASSUME NEW r, r = routine PROVE Given(r)' = Share(routine) - left'
    <3>1. Given(r)' = IF r < routine' THEN Share(r)
                      ELSE IF r = routine' /\ left' > 0 THEN Share(r) - left' ELSE 0
      BY <1>10 DEF Given
    <3>2. routine \in Int /\ Share(routine) \in Nat BY <1>1, <1>2, <1>10
    <3>3. CASE left' = 0 BY <2>5, <2>8, <3>1, <3>2, <3>3
    <3>4. CASE left' # 0
      <4>1. routine' = routine /\ left' > 0 BY <2>2, <2>5, <3>4
      <4> QED BY <2>8, <3>1, <3>2, <4>1
    <3> QED BY <3>3, <3>4
  <2> HIDE DEF part
  <2>9. /\ dealt[routine].orders \in Seq(1..NOrders)
        /\ Len(dealt[routine].orders) = Share(routine) - Lacks
        /\ dealt'[routine].orders = dealt[routine].orders \o part
        /\ dealt'[routine].items = dealt[routine].items \o ItemsOf(file, part)
        /\ dealt'[routine].sizes = dealt[routine].sizes \o SizesOf(file, part)
        /\ dealt'[routine].dels = dealt[routine].dels \o
              SubSeq(heap[dels[region].arr], start + 1, fin)
        /\ DOMAIN dealt' = 0..(Routines - 1)
    BY <1>1, <1>11, <1>13 DEF DealsUpTo, part
  <2>10. /\ dealt'[routine].orders \in Seq(1..NOrders)
         /\ Len(dealt'[routine].orders) = Len(dealt[routine].orders) + Len(part)
    BY <2>1, <2>9, ConcatProperties
  <2>11. Len(dealt'[routine].orders) = Share(routine) - left'
    <3>1. Share(routine) \in Nat BY <1>1, <1>2, <1>10
    <3> QED BY <1>1, <1>6, <2>1, <2>2, <2>9, <2>10, <3>1
  <2>12. /\ dealt'[routine].items = ItemsOf(file, dealt'[routine].orders)
         /\ dealt'[routine].sizes = SizesOf(file, dealt'[routine].orders)
    <3>1. /\ dealt[routine].items = ItemsOf(file, dealt[routine].orders)
          /\ dealt[routine].sizes = SizesOf(file, dealt[routine].orders)
      BY <1>1, <1>11
    <3>2. /\ ItemsOf(file, dealt[routine].orders \o part) =
               ItemsOf(file, dealt[routine].orders) \o ItemsOf(file, part)
          /\ SizesOf(file, dealt[routine].orders \o part) =
               SizesOf(file, dealt[routine].orders) \o SizesOf(file, part)
      BY <1>6, <2>1, <2>9, ItemsConcat
    <3> QED BY <2>9, <3>1, <3>2
  <2>13. \A r \in 0..(Routines - 1) :
           /\ dealt'[r].orders \in Seq(1..NOrders) /\ Len(dealt'[r].orders) = Given(r)'
           /\ dealt'[r].items = ItemsOf(file, dealt'[r].orders)
           /\ dealt'[r].sizes = SizesOf(file, dealt'[r].orders)
    <3> TAKE r \in 0..(Routines - 1)
    <3>1. CASE r = routine BY <2>8, <2>10, <2>11, <2>12, <3>1
    <3>2. CASE r # routine BY <1>11, <2>7, <3>2
    <3> QED BY <3>1, <3>2
  <2>14. phase' = "dealing" BY <1>1, <1>13
  <2>15. DealInv'
    BY <1>3, <1>5, <1>10, <2>2, <2>3, <2>4, <2>6, <2>9, <2>13, <2>14 DEF DealInv
  <2>16. ASSUME LocalInv PROVE LocalInv'
    <3> SUFFICES ASSUME Local'
                 PROVE  \A r \in 0..(Routines - 1) : dealt'[r].dels = dealt'[r].orders
      BY <1>3, <1>5, <1>7, <1>13, <1>1, <2>16 DEF LocalInv, Local
    <3>1. Local BY <1>3, <1>5 DEF Local
    <3>2. /\ dels[region].len = Len(orders[region])
          /\ \A k \in 1..dels[region].len : heap[dels[region].arr][k] = orders[region][k]
          /\ \A r \in 0..(Routines - 1) : dealt[r].dels = dealt[r].orders
      BY <1>6, <2>16, <3>1 DEF LocalInv
    <3> DEFINE keys == heap[dels[region].arr]
    <3>3. SubSeq(keys, start + 1, fin) = part
      <4>1. \A k \in (start + 1)..fin : keys[k] = orders[region][k]
        BY <1>1, <1>4, <1>6, <3>2
      <4>2. SubSeq(keys, start + 1, fin) = [k \in 1..(fin - start) |-> keys[start + k]]
        BY <1>1, <1>6
      <4>3. part = [k \in 1..(fin - start) |-> orders[region][start + k]]
        BY <1>1, <1>6 DEF part, Part
      <4>4. \A k \in 1..(fin - start) : start + k \in (start + 1)..fin
        BY <1>1, <1>6
      <4> HIDE DEF keys
      <4> QED BY <4>1, <4>2, <4>3, <4>4
    <3>4. dealt'[routine].dels = dealt'[routine].orders BY <1>1, <2>9, <3>2, <3>3
    <3> TAKE r \in 0..(Routines - 1)
    <3>5. CASE r = routine BY <3>4, <3>5
    <3>6. CASE r # routine BY <2>7, <3>2, <3>6
    <3> QED BY <3>5, <3>6
  <2> QED BY <1>8, <1>9, <2>15, <2>16 DEF SplitInv
<1> QED BY <1>4, <1>12, <1>13

-----------------------------------------------------------------------------
(* The invariant and what follows from it. *)

\* Every step keeps the invariant.
LEMMA NextInv == SplitInv /\ [Next]_vars => SplitInv' /\ (LocalInv => LocalInv')
<1> SUFFICES ASSUME SplitInv, [Next]_vars PROVE SplitInv' /\ (LocalInv => LocalInv') OBVIOUS
<1>1. CASE GroupOrder
  BY <1>1, GroupOrderKeepsGroups, GroupOrderKeepsRest DEF SplitInv
<1>2. CASE DealShare \/ DealMore BY <1>2, DealKeepsInv
<1>3. CASE EndGrouping \/ EndDealing \/ UNCHANGED vars
  <2>1. /\ file' = file /\ grouping' = grouping /\ dealing' = dealing
    BY <1>3 DEF EndGrouping, EndDealing, vars
  <2>2. /\ pos' = pos /\ startItem' = startItem /\ orders' = orders /\ items' = items
        /\ sizes' = sizes /\ dels' = dels /\ heap' = heap /\ routine' = routine
        /\ region' = region /\ start' = start /\ lineStart' = lineStart /\ left' = left
        /\ dealt' = dealt /\ NOrders' = NOrders
    BY <2>1 DEF grouping, dealing, NOrders
  <2>3. /\ phase' \in {"grouping", "dealing", "done", "panicked"}
        /\ phase' = "grouping" => phase = "grouping"
        /\ phase' # "grouping" => phase # "grouping" \/ pos = NOrders
        /\ phase' = "done" => phase = "done" \/ (routine = Routines /\ left = 0)
        /\ phase' = "panicked" => phase = "panicked"
    <3>1. CASE EndGrouping BY <3>1 DEF EndGrouping
    <3>2. CASE EndDealing
      <4>1. phase = "dealing" /\ routine = Routines /\ phase' = "done" BY <3>2 DEF EndDealing
      <4>2. left = 0
        <5>1. left \in Nat /\ (left > 0 => routine < Routines) BY DEF SplitInv, DealInv
        <5>2. Routines \in Nat BY SplitAssumption
        <5> QED BY <4>1, <5>1, <5>2
      <4> QED BY <4>1, <4>2
    <3>3. CASE UNCHANGED vars
      <4>1. phase' = phase BY <3>3 DEF vars
      <4>2. phase \in {"grouping", "dealing", "done", "panicked"} BY DEF SplitInv, GroupInv
      <4> QED BY <4>1, <4>2
    <3> QED BY <1>3, <3>1, <3>2, <3>3
  <2>4. GroupInv' BY <2>1, <2>2, <2>3 DEF SplitInv, GroupInv
  <2>5. KeysInv' BY <2>2 DEF SplitInv, KeysInv, Cap
  <2>6. (\A r : Share(r)' = Share(r)) /\ (\A r : Given(r)' = Given(r))
    BY <2>2 DEF Share, Given
  <2>7. DealInv' BY <2>1, <2>2, <2>3, <2>6 DEF SplitInv, DealInv
  <2>8. LocalInv => LocalInv' BY <2>1, <2>2, <2>3 DEF LocalInv, Local
  <2> QED BY <2>4, <2>5, <2>7, <2>8 DEF SplitInv
<1>4. CASE Ended
  <2>1. UNCHANGED vars BY <1>4 DEF Ended
  <2> QED BY <1>3, <2>1
<1> QED BY <1>1, <1>2, <1>3, <1>4 DEF Next

\* The inductive invariant of the split: the groups of the regions, the slices
\* of keys, and the shares that are dealt.
THEOREM SplitInvariant == Spec => []SplitInv
<1>1. Init => SplitInv BY InitInv
<1>2. SplitInv /\ [Next]_vars => SplitInv' BY NextInv
<1> QED BY <1>1, <1>2, PTL DEF Spec

\* What an invariant says of the items.
LEMMA ItemsBounded ==
  ASSUME SplitInv
  PROVE  startItem \in 0..Len(LineItemUpds) /\ lineStart \in 0..startItem
<1>1. /\ file \in Files /\ pos \in 0..NOrders /\ startItem = ItemsBefore(file, Ids(file), pos)
      /\ orders \in [RegionIds -> Seq(1..NOrders)] /\ region \in RegionIds
      /\ items[region] = ItemsOf(file, orders[region]) /\ Len(items[region]) <= startItem
      /\ start \in 0..Len(orders[region])
      /\ lineStart = ItemsBefore(file, orders[region], start)
  BY DEF SplitInv, GroupInv, DealInv
<1>2. /\ NOrders \in Nat /\ NOrders = Len(file) /\ Ids(file) \in Seq(1..NOrders)
      /\ Len(Ids(file)) = NOrders /\ LineItemUpds = ItemsOf(file, Ids(file))
  BY <1>1, AllItems DEF NOrders
<1>3. /\ ItemsBefore(file, Ids(file), pos) \in Nat
      /\ ItemsBefore(file, Ids(file), pos) <= Len(ItemsOf(file, Ids(file)))
  <2>1. Ids(file) \in Seq(1..Len(file)) /\ pos \in 0..Len(Ids(file)) /\ pos \in pos..Len(Ids(file))
    BY <1>1, <1>2
  <2> QED BY <1>1, <2>1, SliceOfItems
<1>4. /\ ItemsBefore(file, orders[region], start) \in Nat
      /\ ItemsBefore(file, orders[region], start) <= Len(ItemsOf(file, orders[region]))
  <2>1. orders[region] \in Seq(1..Len(file)) /\ start \in start..Len(orders[region])
    <3>1. orders[region] \in Seq(1..Len(file)) BY <1>1, <1>2
    <3>2. Len(orders[region]) \in Nat BY <3>1, LenProperties
    <3> QED BY <1>1, <3>1, <3>2
  <2> QED BY <1>1, <2>1, SliceOfItems
<1>5. Len(ItemsOf(file, Ids(file))) \in Nat BY <1>1, <1>2, ItemsOfType
<1>6. Len(ItemsOf(file, orders[region])) \in Nat BY <1>1, <1>2, ItemsOfType
<1> QED BY <1>1, <1>2, <1>3, <1>4, <1>5, <1>6

\* Type correctness (TypeOK): no counter leaves the file, the line items or the
\* current region, and no slice of keys its array.
THEOREM TypeCorrect == Spec => []TypeOK
<1>1. SplitInv => TypeOK
  <2> SUFFICES ASSUME SplitInv PROVE TypeOK OBVIOUS
  <2>1. startItem \in 0..Len(LineItemUpds) /\ lineStart \in 0..Len(LineItemUpds)
    <3>1. Len(LineItemUpds) \in Nat
      <4>1. file \in Files BY DEF SplitInv, GroupInv
      <4>2. Ids(file) \in Seq(1..Len(file)) /\ LineItemUpds = ItemsOf(file, Ids(file))
        BY <4>1, AllItems DEF NOrders
      <4> QED BY <4>1, <4>2, ItemsOfType
    <3> QED BY <3>1, ItemsBounded
  <2>2. ASSUME NEW r \in RegionIds
        PROVE  /\ orders[r] \in Seq(1..NOrders) /\ Len(sizes[r]) = Len(orders[r])
               /\ dels[r].arr \in DOMAIN heap /\ dels[r].len \in 0..Cap(dels[r])
    <3>1. /\ file \in Files /\ orders[r] \in Seq(1..NOrders)
          /\ sizes[r] = SizesOf(file, orders[r])
      BY DEF SplitInv, GroupInv
    <3>2. Len(sizes[r]) = Len(orders[r]) BY <3>1, ItemsInType DEF NOrders
    <3>3. heap \in Seq(Seq(Nat)) /\ dels[r].arr \in 1..Len(heap) /\ dels[r].len \in 0..Cap(dels[r])
      BY DEF SplitInv, KeysInv
    <3>4. DOMAIN heap = 1..Len(heap) BY <3>3, LenProperties
    <3> QED BY <3>1, <3>2, <3>3, <3>4
  <2>3. start \in 0..NOrders /\ left \in 0..NOrders
    <3>1. /\ file \in Files /\ pos \in 0..NOrders /\ region \in RegionIds
          /\ start \in 0..Len(orders[region]) /\ Len(orders[region]) <= pos
          /\ orders[region] \in Seq(1..NOrders)
          /\ left \in Nat /\ routine \in 0..Routines /\ (left > 0 => left <= Share(routine))
      BY DEF SplitInv, GroupInv, DealInv
    <3>2. NOrders \in Nat /\ Len(orders[region]) \in Nat
      BY <3>1, FileFacts, LenProperties DEF NOrders
    <3>3. Share(routine) \in 0..NOrders BY <3>1, <3>2, ShareType
    <3> QED BY <3>1, <3>2, <3>3
  <2>4. /\ phase \in {"grouping", "dealing", "done", "panicked"} /\ pos \in 0..NOrders
        /\ routine \in 0..Routines /\ region \in RegionIds /\ DOMAIN dealt = 0..(Routines - 1)
    BY DEF SplitInv, GroupInv, DealInv
  <2> QED BY <2>1, <2>2, <2>3, <2>4 DEF TypeOK
<1> QED BY <1>1, SplitInvariant, PTL

\* No routine has over one order more than another (SharesEven), though its
\* share may be taken from many regions.
THEOREM SharesEvenHolds == Spec => []SharesEven
<1>1. SplitInv => SharesEven
  <2> SUFFICES ASSUME SplitInv, phase = "done",
                      NEW r \in 0..(Routines - 1), NEW t \in 0..(Routines - 1), r < t
               PROVE  Len(dealt[r].orders) - Len(dealt[t].orders) \in {0, 1}
    BY DEF SharesEven
  <2>1. /\ routine = Routines /\ file \in Files
        /\ Len(dealt[r].orders) = Given(r) /\ Len(dealt[t].orders) = Given(t)
    BY DEF SplitInv, DealInv, GroupInv
  <2>2. Routines \in Nat \ {0} /\ NOrders \in Nat BY <2>1, SplitAssumption, FileFacts DEF NOrders
  <2>3. NOrders \div Routines \in Nat /\ NOrders % Routines \in Nat BY <2>2, DivMod
  <2>4. Given(r) = Share(r) /\ Given(t) = Share(t) BY <2>1, <2>2 DEF Given
  <2> QED BY <2>1, <2>2, <2>3, <2>4 DEF Share
<1> QED BY <1>1, SplitInvariant, PTL

\* A routine's line sizes and line items are those of its orders, in their order
\* (ItemsFollowOrders): what the update stream of a client relies on.
THEOREM ItemsFollowHolds == Spec => []ItemsFollowOrders
<1>1. SplitInv => ItemsFollowOrders
  BY DEF SplitInv, DealInv, ItemsFollowOrders, ItemsOf, ItemsIn, SizesOf
<1> QED BY <1>1, SplitInvariant, PTL

\* With keys of the orders' own regions the split does not panic, and a
\* routine's keys are its orders' (LocalFilesSplitWell): no two regions then
\* share an array, so that none overwrites another's keys.
THEOREM LocalSplitHolds == Spec => []LocalFilesSplitWell
<1>1. Init => SplitInv /\ LocalInv BY InitInv
<1>2. (SplitInv /\ LocalInv) /\ [Next]_vars => (SplitInv /\ LocalInv)' BY NextInv
<1>3. SplitInv /\ LocalInv => LocalFilesSplitWell BY DEF LocalInv, Local, LocalFilesSplitWell
<1> QED BY <1>1, <1>2, <1>3, PTL DEF Spec

-----------------------------------------------------------------------------
(* The regions in turn. *)

\* The remainder of a number less than twice the divisor.
LEMMA ModOnce ==
  ASSUME NEW n \in Nat \ {0}, NEW x \in 0..(2 * n - 1)
  PROVE  x % n = IF x < n THEN x ELSE x - n
<1> DEFINE q == x \div n
           m == x % n
<1>1. q \in Nat /\ m \in 0..(n - 1) /\ x = n * q + m
  <2>1. x \in Nat BY DivMod
  <2> QED BY <2>1, DivMod
<1> HIDE DEF q, m
<1>2. q = 0 \/ q = 1 \/ q >= 2 BY <1>1
<1>3. CASE q = 0 BY <1>1, <1>3 DEF m
<1>4. CASE q = 1 BY <1>1, <1>4 DEF m
<1>5. CASE q >= 2
  <2>1. n * q >= n * 2 BY <1>1, <1>5
  <2> QED BY <1>1, <2>1
<1> QED BY <1>2, <1>3, <1>4, <1>5

\* Every region has its turn once, from the first one on.
LEMMA Turns ==
  /\ NRegions \in Nat \ {0} /\ RegionAt(1) = FirstRegion
  /\ \A k \in 1..NRegions : RegionAt(k) \in RegionIds
  /\ \A k \in 1..(NRegions - 1) : RegionAt(k + 1) = (RegionAt(k) + 1) % NRegions
  /\ \A j, k \in 1..NRegions : RegionAt(j) = RegionAt(k) => j = k
  /\ \A r \in RegionIds : \E k \in 1..NRegions : RegionAt(k) = r
<1>1. NRegions \in Nat \ {0} /\ FirstRegion \in 0..(NRegions - 1)
  BY SplitAssumption DEF RegionIds
<1> DEFINE at(k) == IF FirstRegion + k - 1 < NRegions THEN FirstRegion + k - 1
                    ELSE FirstRegion + k - 1 - NRegions
<1>2. ASSUME NEW k \in 1..NRegions PROVE RegionAt(k) = at(k) /\ at(k) \in 0..(NRegions - 1)
  <2>1. FirstRegion + k - 1 \in 0..(2 * NRegions - 1) BY <1>1
  <2> DEFINE x == FirstRegion + k - 1
  <2>2. RegionAt(k) = x % NRegions BY Zenon DEF RegionAt
  <2>3. at(k) = IF x < NRegions THEN x ELSE x - NRegions BY <1>1
  <2> HIDE DEF x, at
  <2>4. x \in 0..(2 * NRegions - 1) BY <2>1 DEF x
  <2>5. RegionAt(k) = at(k) BY <1>1, <2>2, <2>3, <2>4, ModOnce
  <2> QED BY <1>1, <2>3, <2>4, <2>5
<1>3. RegionAt(1) = FirstRegion BY <1>1, <1>2
<1>4. \A k \in 1..NRegions : RegionAt(k) \in RegionIds BY <1>2 DEF RegionIds
<1>5. ASSUME NEW k \in 1..(NRegions - 1) PROVE RegionAt(k + 1) = (RegionAt(k) + 1) % NRegions
  <2>1. k \in 1..NRegions /\ k + 1 \in 1..NRegions BY <1>1
  <2>2. RegionAt(k) = at(k) /\ RegionAt(k + 1) = at(k + 1) /\ at(k) \in 0..(NRegions - 1)
    BY <1>2, <2>1
  <2> DEFINE x == RegionAt(k) + 1
  <2>3. x \in 0..(2 * NRegions - 1) BY <1>1, <2>2
  <2> HIDE DEF x
  <2>4. x % NRegions = IF x < NRegions THEN x ELSE x - NRegions BY <1>1, <2>3, ModOnce
  <2>5. x = at(k) + 1 BY <2>2 DEF x
  <2>6. x % NRegions = at(k + 1) BY <1>1, <2>1, <2>4, <2>5
  <2> QED BY <2>2, <2>6 DEF x
<1>6. ASSUME NEW j \in 1..NRegions, NEW k \in 1..NRegions, RegionAt(j) = RegionAt(k)
      PROVE  j = k
  <2>1. at(j) = at(k) BY <1>2, <1>6
  <2> QED BY <1>1, <2>1
<1>7. ASSUME NEW r \in RegionIds PROVE \E k \in 1..NRegions : RegionAt(k) = r
  <2>1. r \in 0..(NRegions - 1) BY DEF RegionIds
  <2>2. CASE r >= FirstRegion
    <3>1. r - FirstRegion + 1 \in 1..NRegions /\ at(r - FirstRegion + 1) = r
      BY <1>1, <2>1, <2>2
    <3> QED BY <1>2, <3>1
  <2>3. CASE ~ (r >= FirstRegion)
    <3>1. /\ r - FirstRegion + 1 + NRegions \in 1..NRegions
          /\ at(r - FirstRegion + 1 + NRegions) = r
      BY <1>1, <2>1, <2>3
    <3> QED BY <1>2, <3>1
  <2> QED BY <2>2, <2>3
<1> QED BY <1>1, <1>3, <1>4, <1>5, <1>6, <1>7

\* A sum of zeros.
LEMMA SumOfZeros ==
  ASSUME NEW f, NEW S, IsFiniteSet(S), \A x \in S : f[x] = 0
  PROVE  SumFunctionOnSet(f, S) = 0
<1>1. \A x \in S : f[x] \in Int /\ f[x] = f[x] + f[x] OBVIOUS
<1>2. SumFunctionOnSet(f, S) \in Int BY <1>1, SumType
<1>3. SumFunctionOnSet(f, S) = SumFunctionOnSet(f, S) + SumFunctionOnSet(f, S)
  BY <1>1, SumPlus
<1> DEFINE s == SumFunctionOnSet(f, S)
<1>4. s \in Int /\ s = s + s BY <1>2, <1>3, Zenon
<1> HIDE DEF s
<1>5. s = 0 BY <1>4
<1> QED BY <1>5 DEF s

\* The first shares together, and all of them.
LEMMA SharesFacts ==
  ASSUME NOrders \in Nat
  PROVE  /\ Shares(0) = 0 /\ Shares(Routines) = NOrders
         /\ \A n \in 0..Routines : Shares(n) \in 0..NOrders
         /\ \A n \in 0..(Routines - 1) : Shares(n + 1) = Shares(n) + Share(n)
<1> DEFINE q == NOrders \div Routines
           m == NOrders % Routines
<1>1. Routines \in Nat \ {0} BY SplitAssumption
<1>2. q \in Nat /\ m \in 0..(Routines - 1) /\ NOrders = Routines * q + m BY <1>1, DivMod
<1>3. \A n : Shares(n) = n * q + (IF n < m THEN n ELSE m) BY DEF Shares
<1>4. \A n : Share(n) = q + (IF n < m THEN 1 ELSE 0) BY DEF Share
<1> HIDE DEF q, m
<1>5. Shares(0) = 0
  <2>1. 0 * q = 0 BY <1>2
  <2> QED BY <1>2, <1>3, <2>1
<1>6. Shares(Routines) = NOrders
  <2>1. Shares(Routines) = Routines * q + m BY <1>1, <1>2, <1>3
  <2> QED BY <1>2, <2>1
<1>7. ASSUME NEW n \in 0..Routines PROVE Shares(n) \in 0..NOrders
  <2>1. n \in Nat /\ n * q \in Nat /\ Routines * q \in Nat BY <1>1, <1>2
  <2>2. n * q <= Routines * q
    <3>1. (Routines - n) \in Nat BY <1>1
    <3>2. (Routines - n) * q \in Nat BY <1>2, <3>1
    <3>3. (Routines - n) * q = Routines * q - n * q BY <1>1, <1>2, <2>1
    <3> QED BY <2>1, <3>2, <3>3
  <2> DEFINE a == n * q
             b == Routines * q
  <2>3. a \in Nat /\ b \in Nat /\ a <= b /\ NOrders = b + m /\ n \in Nat
        /\ Shares(n) = a + (IF n < m THEN n ELSE m)
    BY <1>2, <1>3, <2>1, <2>2
  <2> HIDE DEF a, b
  <2> QED BY <1>2, <2>3
<1>8. ASSUME NEW n \in 0..(Routines - 1) PROVE Shares(n + 1) = Shares(n) + Share(n)
  <2>1. (n + 1) * q = n * q + q /\ n * q \in Nat /\ n \in Nat BY <1>1, <1>2
  <2> DEFINE a == n * q
  <2>2. /\ Shares(n) = a + (IF n < m THEN n ELSE m)
        /\ Shares(n + 1) = a + q + (IF n + 1 < m THEN n + 1 ELSE m)
        /\ Share(n) = q + (IF n < m THEN 1 ELSE 0) /\ a \in Nat
    BY <1>3, <1>4, <2>1
  <2> HIDE DEF a
  <2> QED BY <1>2, <2>1, <2>2
<1> QED BY <1>5, <1>6, <1>7, <1>8

\* tt is ss with x put at the end of its k-th sequence, after which all of ss
\* are empty.
LEMMA FlatGrows ==
  ASSUME NEW S, NEW ss \in Seq(Seq(S)), NEW tt \in Seq(Seq(S)), Len(tt) = Len(ss),
         NEW k \in 1..Len(ss), NEW x \in Seq(S), tt[k] = ss[k] \o x,
         \A i \in 1..Len(ss) : i # k => tt[i] = ss[i],
         \A i \in 1..Len(ss) : i > k => ss[i] = <<>>
  PROVE  FlattenSeq(tt) = FlattenSeq(ss) \o x
<1> DEFINE upto(q, n) == SubSeq(q, 1, n)
           Ok(n) == FlattenSeq(upto(tt, n)) = FlattenSeq(upto(ss, n)) \o x
           T == {n \in Nat : k + n <= Len(ss) => Ok(k + n)}
<1>0. /\ Len(ss) \in Nat /\ k \in Nat /\ k >= 1
      /\ \A i \in 1..Len(ss) : ss[i] \in Seq(S) /\ tt[i] \in Seq(S)
  BY ElementOfSeq
<1>1. ASSUME NEW n \in 0..(Len(ss) - 1)
      PROVE  /\ upto(ss, n) \in Seq(Seq(S)) /\ upto(tt, n) \in Seq(Seq(S))
             /\ FlattenSeq(upto(ss, n + 1)) = FlattenSeq(upto(ss, n)) \o ss[n + 1]
             /\ FlattenSeq(upto(tt, n + 1)) = FlattenSeq(upto(tt, n)) \o tt[n + 1]
             /\ FlattenSeq(upto(ss, n)) \in Seq(S) /\ FlattenSeq(upto(tt, n)) \in Seq(S)
             /\ ss[n + 1] \in Seq(S) /\ tt[n + 1] \in Seq(S)
  <2>1. upto(ss, n) \in Seq(Seq(S)) /\ upto(ss, n + 1) = Append(upto(ss, n), ss[n + 1])
    BY BeginningGrows
  <2>2. upto(tt, n) \in Seq(Seq(S)) /\ upto(tt, n + 1) = Append(upto(tt, n), tt[n + 1])
    BY BeginningGrows
  <2>3. ss[n + 1] \in Seq(S) /\ tt[n + 1] \in Seq(S) BY <1>0
  <2> HIDE DEF upto
  <2>4. FlattenSeq(upto(ss, n)) \in Seq(S) /\ FlattenSeq(upto(tt, n)) \in Seq(S)
    BY <2>1, <2>2, FlatType
  <2>5. FlattenSeq(upto(ss, n + 1)) = FlattenSeq(upto(ss, n)) \o ss[n + 1]
    BY <2>1, <2>3, FlatAppend
  <2>6. FlattenSeq(upto(tt, n + 1)) = FlattenSeq(upto(tt, n)) \o tt[n + 1]
    BY <2>2, <2>3, FlatAppend
  <2> QED BY <2>1, <2>2, <2>3, <2>4, <2>5, <2>6
<1>2. 0 \in T
  <2>1. upto(tt, k - 1) = upto(ss, k - 1)
    <3>1. upto(ss, k - 1) = [i \in 1..(k - 1) |-> ss[i]] BY <1>0
    <3>2. upto(tt, k - 1) = [i \in 1..(k - 1) |-> tt[i]] BY <1>0
    <3>3. \A i \in 1..(k - 1) : tt[i] = ss[i] BY <1>0
    <3> QED BY <3>1, <3>2, <3>3
  <2> HIDE DEF upto
  <2>2. k - 1 \in 0..(Len(ss) - 1) /\ k - 1 + 1 = k BY <1>0
  <2> DEFINE a == FlattenSeq(upto(ss, k - 1))
  <2>3. /\ FlattenSeq(upto(ss, k)) = a \o ss[k] /\ FlattenSeq(upto(tt, k)) = a \o tt[k]
        /\ a \in Seq(S)
    BY <1>1, <2>1, <2>2
  <2> HIDE DEF a
  <2>4. Associate(a, ss[k], x) BY <1>0, <2>3, Associative
  <2>5. Ok(k) BY <2>3, <2>4 DEF Associate
  <2>6. k + 0 = k BY <1>0
  <2> HIDE DEF Ok
  <2> QED BY <2>5, <2>6
<1>3. ASSUME NEW n \in Nat, n \in T PROVE n + 1 \in T
  <2> HIDE DEF Ok, upto
  <2> SUFFICES ASSUME k + (n + 1) <= Len(ss) PROVE Ok(k + (n + 1)) OBVIOUS
  <2> DEFINE m == k + n
  <2>1. m \in 0..(Len(ss) - 1) /\ m + 1 \in 1..Len(ss) /\ m + 1 > k /\ k + (n + 1) = m + 1
    <3>1. Len(ss) \in Nat /\ k \in Nat /\ k >= 1 BY <1>0
    <3> DEFINE l == Len(ss)
    <3> HIDE DEF l
    <3>2. l \in Nat /\ k + (n + 1) <= l BY <3>1 DEF l
    <3>3. m \in 0..(l - 1) /\ m + 1 \in 1..l /\ m + 1 > k /\ k + (n + 1) = m + 1 BY <3>1, <3>2
    <3> QED BY <3>3 DEF l
  <2>2. Ok(m) BY <1>0, <1>3, <2>1
  <2> HIDE DEF m
  <2>3. ss[m + 1] = <<>> /\ tt[m + 1] = <<>>
    <3>1. m + 1 # k BY <1>0, <2>1
    <3> QED BY <2>1, <3>1
  <2>4. /\ FlattenSeq(upto(ss, m + 1)) = FlattenSeq(upto(ss, m)) \o ss[m + 1]
        /\ FlattenSeq(upto(tt, m + 1)) = FlattenSeq(upto(tt, m)) \o tt[m + 1]
        /\ FlattenSeq(upto(ss, m)) \in Seq(S) /\ FlattenSeq(upto(tt, m)) \in Seq(S)
    BY <1>1, <2>1
  <2>5. FlattenSeq(upto(ss, m + 1)) = FlattenSeq(upto(ss, m)) BY <2>3, <2>4, ConcatEmptySeq
  <2>6. FlattenSeq(upto(tt, m + 1)) = FlattenSeq(upto(tt, m)) BY <2>3, <2>4, ConcatEmptySeq
  <2>7. Ok(m + 1) BY <2>2, <2>5, <2>6 DEF Ok
  <2> QED BY <2>1, <2>7
<1> HIDE DEF T
<1>4. Nat \subseteq T BY <1>2, <1>3, SetInduction
<1>5. Len(ss) - k \in Nat /\ k + (Len(ss) - k) = Len(ss) BY <1>0
<1>6. Ok(Len(ss))
  <2>1. Len(ss) - k \in T BY <1>4, <1>5
  <2> HIDE DEF Ok
  <2> QED BY <1>0, <1>5, <2>1 DEF T
<1>7. upto(ss, Len(ss)) = ss /\ upto(tt, Len(ss)) = tt BY SubSeqFull
<1> HIDE DEF upto
<1> QED BY <1>6, <1>7

\* The groups are sequences of orders.
LEMMA GroupsType ==
  ASSUME SplitInv
  PROVE  /\ NOrders \in Nat /\ Groups \in Seq(Seq(1..NOrders)) /\ Len(Groups) = NRegions
         /\ \A k \in 1..NRegions : /\ Groups[k] = orders[RegionAt(k)]
                                  /\ Groups[k] \in Seq(1..NOrders)
         /\ FlattenSeq(Groups) \in Seq(1..NOrders)
         /\ Len(FlattenSeq(Groups)) = SumFunction(Lens(Groups))
<1>1. file \in Files /\ orders \in [RegionIds -> Seq(1..NOrders)] BY DEF SplitInv, GroupInv
<1>2. NOrders \in Nat BY <1>1, FileFacts DEF NOrders
<1>3. \A k \in 1..NRegions : /\ Groups[k] = orders[RegionAt(k)]
                            /\ Groups[k] \in Seq(1..NOrders)
  BY <1>1, Turns DEF Groups
<1>4. Groups \in [1..NRegions -> Seq(1..NOrders)] BY <1>3 DEF Groups
<1>5. Groups \in Seq(Seq(1..NOrders)) /\ Len(Groups) = NRegions BY <1>4, Turns, SeqOfLength
<1> QED BY <1>2, <1>3, <1>5, FlatType, FlatLen

\* Grouping an order makes one group longer by one.
LEMMA SumGrows ==
  ASSUME SplitInv, GroupOrder, SumInv
  PROVE  SumInv'
<1> DEFINE o == file[pos + 1]
           f == Lens(Groups)
           g == Lens(Groups')
           S == 1..NRegions
<1>1. /\ file' = file /\ pos' = pos + 1 /\ pos \in Nat
      /\ orders' = [orders EXCEPT ![o.region] = @ \o <<pos + 1>>]
      /\ orders \in [RegionIds -> Seq(1..NOrders)] /\ o.region \in RegionIds
      /\ <<pos + 1>> \in Seq(1..NOrders)
  <2>1. /\ file \in Files /\ pos \in 0..NOrders /\ orders \in [RegionIds -> Seq(1..NOrders)]
    BY DEF SplitInv, GroupInv
  <2>2. /\ file' = file /\ pos' = pos + 1 /\ pos < NOrders
        /\ orders' = [orders EXCEPT ![o.region] = @ \o <<pos + 1>>]
    BY DEF GroupOrder, Grouped
  <2>3. NOrders \in Nat BY <2>1, FileFacts DEF NOrders
  <2>4. pos + 1 \in 1..NOrders /\ pos \in Nat BY <2>1, <2>2, <2>3
  <2>5. o.region \in RegionIds BY <2>1, <2>4, FileFacts DEF NOrders
  <2> QED BY <2>1, <2>2, <2>4, <2>5
<1> HIDE DEF o
<1>2. PICK y \in S : RegionAt(y) = o.region BY <1>1, Turns
<1>3. Len(Groups) = NRegions /\ NRegions \in Nat /\ NOrders \in Nat
  BY GroupsType, Turns
<1>4. \A r \in RegionIds :
        orders'[r] = IF r = o.region THEN orders[r] \o <<pos + 1>> ELSE orders[r]
  BY <1>1
<1>5. \A r \in RegionIds : orders[r] \in Seq(1..NOrders) /\ orders'[r] \in Seq(1..NOrders)
  <2>1. \A r \in RegionIds : orders[r] \in Seq(1..NOrders) BY <1>1
  <2>2. orders[o.region] \o <<pos + 1>> \in Seq(1..NOrders) BY <1>1, <2>1, ConcatProperties
  <2> QED BY <1>4, <2>1, <2>2
<1>6. /\ Len(Groups') = NRegions
      /\ \A k \in S : Groups[k] = orders[RegionAt(k)] /\ Groups'[k] = orders'[RegionAt(k)]
  <2>1. Groups' = [k \in S |-> orders'[RegionAt(k)]] BY DEF Groups, RegionAt
  <2>2. Groups' \in [S -> Seq(1..NOrders)] BY <1>5, <2>1, Turns
  <2>3. Len(Groups') = NRegions BY <1>3, <2>2, SeqOfLength
  <2> QED BY <2>1, <2>3 DEF Groups
<1>7. /\ f = [k \in S |-> Len(Groups[k])] /\ g = [k \in S |-> Len(Groups'[k])]
      /\ f = Lens(Groups) /\ g = Lens(Groups)'
  BY <1>3, <1>6 DEF Lens
<1> HIDE DEF f, g
<1>8. \A k \in S : f[k] = Len(orders[RegionAt(k)]) /\ g[k] = Len(orders'[RegionAt(k)])
  BY <1>6, <1>7
<1>9. \A k \in S : f[k] \in Int /\ g[k] \in Int
  <2>1. \A k \in S : RegionAt(k) \in RegionIds BY Turns
  <2>2. \A r \in RegionIds : Len(orders[r]) \in Int /\ Len(orders'[r]) \in Int
    BY <1>5, LenProperties
  <2> QED BY <1>8, <2>1, <2>2
<1>10. \A k \in S : k # y => g[k] = f[k]
  <2>1. \A k \in S : k # y => RegionAt(k) # o.region /\ RegionAt(k) \in RegionIds
    BY <1>2, Turns
  <2> QED BY <1>4, <1>8, <2>1
<1>11. g[y] = f[y] + 1
  <2> DEFINE one == <<pos + 1>>
  <2>1. Len(one) = 1 /\ one \in Seq(1..NOrders) BY <1>1
  <2>2. orders'[o.region] = orders[o.region] \o one BY <1>1, <1>4
  <2> HIDE DEF one
  <2>3. Len(orders'[o.region]) = Len(orders[o.region]) + Len(one)
    BY <1>1, <1>5, <2>1, <2>2, ConcatProperties
  <2> QED BY <1>2, <1>8, <2>1, <2>3
<1>12. IsFiniteSet(S) BY <1>3, FS_Interval
<1> HIDE DEF S
<1>13. SumFunctionOnSet(g, S) = SumFunctionOnSet(f, S) + (g[y] - f[y])
  BY <1>2, <1>9, <1>10, <1>12, SumChange
<1>14. SumFunctionOnSet(f, S) \in Int BY <1>9, <1>12, SumType
<1>15. SumFunctionOnSet(g, S) = SumFunctionOnSet(f, S) + 1
  BY <1>2, <1>9, <1>11, <1>13, <1>14
<1>16. SumFunction(f) = SumFunctionOnSet(f, S) /\ SumFunction(g) = SumFunctionOnSet(g, S)
  <2>1. DOMAIN f = S /\ DOMAIN g = S BY <1>7
  <2> QED BY <2>1, Zenon DEF SumFunction
<1>17. SumFunction(f) = pos BY <1>7 DEF SumInv
<1>18. SumFunction(g) = pos' BY <1>1, <1>15, <1>16, <1>17
<1> QED BY <1>7, <1>18 DEF SumInv

\* The parts of what is dealt are the routines' orders.
DealtParts == [r \in 1..Routines |-> dealt[r - 1].orders]

\* All routines together hold the parts one after the other.
LEMMA DealtIs ==
  ASSUME SplitInv
  PROVE  /\ AllDealt("orders") = FlattenSeq(DealtParts)
         /\ DealtParts \in Seq(Seq(1..NOrders)) /\ Len(DealtParts) = Routines
         /\ \A i \in 1..Routines : /\ i - 1 \in 0..(Routines - 1)
                                  /\ DealtParts[i] = dealt[i - 1].orders
                                  /\ DealtParts[i] \in Seq(1..NOrders)
                                  /\ Len(DealtParts[i]) = Given(i - 1)
         /\ AllDealt("orders") \in Seq(1..NOrders)
<1>1. \A r \in 0..(Routines - 1) : /\ dealt[r].orders \in Seq(1..NOrders)
                                  /\ Len(dealt[r].orders) = Given(r)
  BY DEF SplitInv, DealInv
<1>2. Routines \in Nat /\ \A i \in 1..Routines : i - 1 \in 0..(Routines - 1)
  BY SplitAssumption
<1>3. AllDealt("orders") = FlattenSeq(DealtParts) BY DEF AllDealt, DealtParts
<1>4. DealtParts \in [1..Routines -> Seq(1..NOrders)] BY <1>1, <1>2 DEF DealtParts
<1>5. DealtParts \in Seq(Seq(1..NOrders)) /\ Len(DealtParts) = Routines
  BY <1>2, <1>4, SeqOfLength
<1>6. \A i \in 1..Routines : DealtParts[i] = dealt[i - 1].orders BY DEF DealtParts
<1> QED BY <1>1, <1>2, <1>3, <1>5, <1>6, FlatType

\* What is dealt next is put at the end of what is dealt.
LEMMA DealtGrows ==
  ASSUME SplitInv, DealShare \/ DealMore,
         NEW fin \in start..Len(orders[region]),
         Part(fin) \in Seq(1..NOrders), DealsUpTo(fin)
  PROVE  AllDealt("orders")' = AllDealt("orders") \o Part(fin)
<1> DEFINE k == routine + 1
           tt == [r \in 1..Routines |-> dealt'[r - 1].orders]
<1>1. routine \in 0..(Routines - 1) /\ Routines \in Nat BY DealStart, SplitAssumption
<1>2. k \in 1..Routines /\ k - 1 = routine BY <1>1
<1>3. /\ AllDealt("orders") = FlattenSeq(DealtParts)
      /\ DealtParts \in Seq(Seq(1..NOrders)) /\ Len(DealtParts) = Routines
      /\ \A i \in 1..Routines : /\ i - 1 \in 0..(Routines - 1)
                               /\ DealtParts[i] = dealt[i - 1].orders
                               /\ DealtParts[i] \in Seq(1..NOrders)
                               /\ Len(DealtParts[i]) = Given(i - 1)
  BY DealtIs
<1>4. AllDealt("orders")' = FlattenSeq(tt) BY DEF AllDealt
<1>5. /\ \A i \in 1..Routines : tt[i] = dealt'[i - 1].orders
      /\ tt = [i \in 1..Routines |-> tt[i]]
  OBVIOUS
<1> HIDE DEF k, tt
<1>6. tt[k] = DealtParts[k] \o Part(fin)
  <2>1. dealt'[routine].orders = dealt[routine].orders \o Part(fin) BY DEF DealsUpTo
  <2> QED BY <1>2, <1>3, <1>5, <2>1
<1>7. \A i \in 1..Routines : i # k => tt[i] = DealtParts[i]
  <2>1. \A r \in 0..(Routines - 1) : r # routine => dealt'[r] = dealt[r] BY DEF DealsUpTo
  <2>2. \A i \in 1..Routines : i # k => i - 1 # routine BY <1>1, <1>2
  <2> QED BY <1>3, <1>5, <2>1, <2>2
<1>8. tt \in Seq(Seq(1..NOrders)) /\ Len(tt) = Routines
  <2>1. tt[k] \in Seq(1..NOrders) BY <1>2, <1>3, <1>6, ConcatProperties
  <2>2. \A i \in 1..Routines : tt[i] \in Seq(1..NOrders) BY <1>3, <1>7, <2>1
  <2>3. tt \in [1..Routines -> Seq(1..NOrders)] BY <1>5, <2>2
  <2> QED BY <1>1, <2>3, SeqOfLength
<1>9. \A i \in 1..Routines : i > k => DealtParts[i] = <<>>
  <2> TAKE i \in 1..Routines
  <2> HAVE i > k
  <2>1. ~ (i - 1 < routine) /\ i - 1 # routine BY <1>1, <1>2
  <2>2. Given(i - 1) = 0 BY <2>1 DEF Given
  <2> QED BY <1>3, <2>2, EmptySeq
<1>10. FlattenSeq(tt) = FlattenSeq(DealtParts) \o Part(fin)
  <2> DEFINE ss == DealtParts
             x == Part(fin)
  <2>1. /\ ss \in Seq(Seq(1..NOrders)) /\ tt \in Seq(Seq(1..NOrders)) /\ Len(tt) = Len(ss)
        /\ k \in 1..Len(ss) /\ x \in Seq(1..NOrders) /\ tt[k] = ss[k] \o x
    BY <1>2, <1>3, <1>6, <1>8
  <2>2. \A i \in 1..Len(ss) : i # k => tt[i] = ss[i] BY <1>3, <1>7
  <2>3. \A i \in 1..Len(ss) : i > k => ss[i] = <<>> BY <1>3, <1>9
  <2> HIDE DEF ss, x
  <2>4. FlattenSeq(tt) = FlattenSeq(ss) \o x BY <2>1, <2>2, <2>3, FlatGrows
  <2> QED BY <2>4 DEF ss, x
<1> QED BY <1>3, <1>4, <1>10

\* Dealing some orders: the regions keep their turns.
LEMMA DealKeepsTurns ==
  ASSUME SplitInv, SumInv, TurnInv, DealShare \/ DealMore
  PROVE  TurnInv'
<1> DEFINE w == start + Lacks
           all == AllDealt("orders")
           S == 1..NOrders
<1>1. /\ phase = "dealing" /\ routine \in 0..(Routines - 1) /\ Lacks \in Nat
      /\ start \in Nat /\ Lacks <= Share(routine) /\ Deal(w)
  BY DealStart
<1> HIDE DEF w
<1>2. w \in Nat /\ start <= w /\ w = start + Lacks /\ routine < Routines /\ Routines \in Nat
  BY <1>1, SplitAssumption DEF w
<1>3. file' = file /\ grouping' = grouping BY <1>1, <1>2, DealFacts
<1>4. PICK fin \in start..Len(orders[region]) :
        /\ fin <= w /\ (w = fin \/ fin = Len(orders[region]))
        /\ Part(fin) \in Seq(S) /\ Len(Part(fin)) = fin - start
        /\ \/ phase' = "panicked" /\ fin > Cap(dels[region]) /\ dealing' = dealing
           \/ phase' = phase /\ left' = w - fin /\ DealsUpTo(fin)
  BY <1>1, <1>2, DealFacts
<1>5. /\ NOrders' = NOrders /\ orders' = orders /\ Groups' = Groups
      /\ \A n : Shares(n)' = Shares(n) /\ Share(n)' = Share(n)
  BY <1>3 DEF grouping, NOrders, Groups, RegionAt, Shares, Share
<1>6. /\ NOrders \in Nat /\ pos = NOrders /\ region \in RegionIds
      /\ orders[region] \in Seq(S) /\ Len(orders[region]) \in Nat /\ fin \in Nat
      /\ start <= fin /\ fin <= Len(orders[region]) /\ left \in Nat
  <2>1. /\ file \in Files /\ orders \in [RegionIds -> Seq(S)] /\ region \in RegionIds
        /\ pos = NOrders /\ left \in Nat
    BY <1>1 DEF SplitInv, GroupInv, DealInv
  <2>2. Len(orders[region]) \in Nat BY <2>1, LenProperties
  <2> QED BY <1>1, <1>4, <2>1, <2>2, FileFacts DEF NOrders
<1>7. CASE phase' = "panicked" /\ dealing' = dealing
  <2>1. /\ routine' = routine /\ region' = region /\ start' = start /\ left' = left
        /\ dealt' = dealt
    BY <1>7 DEF dealing
  <2>2. AllDealt("orders")' = AllDealt("orders") BY <2>1 DEF AllDealt
  <2>3. Shares(routine)' = Shares(routine) /\ Share(routine)' = Share(routine)
    BY <1>5, <2>1 DEF Shares, Share
  <2> QED BY <1>1, <1>5, <1>7, <2>1, <2>2, <2>3 DEF TurnInv, RegionAt
<1>8. CASE phase' = phase /\ left' = w - fin /\ DealsUpTo(fin)
  <2>1. AllDealt("orders")' = all \o Part(fin) BY <1>4, <1>8, DealtGrows
  <2>2. all \in Seq(S) BY DealtIs
  <2>3. Len(all) = Shares(routine + 1) - Lacks
    <3>1. Len(all) = Shares(routine) + (IF left > 0 THEN Share(routine) - left ELSE 0)
      BY DEF TurnInv
    <3>2. Shares(routine + 1) = Shares(routine) + Share(routine) BY <1>1, <1>6, SharesFacts
    <3>3. Shares(routine) \in Nat /\ Share(routine) \in Nat
      <4>1. routine \in 0..Routines /\ routine \in Nat BY <1>1, <1>2
      <4>2. Shares(routine) \in 0..NOrders BY <1>6, <4>1, SharesFacts
      <4>3. Share(routine) \in 0..NOrders BY <1>6, <4>1, ShareType
      <4> QED BY <1>6, <4>2, <4>3
    <3> QED BY <1>6, <3>1, <3>2, <3>3 DEF Lacks
  <2>4. routine + 1 \in 0..Routines /\ Shares(routine + 1) \in 0..NOrders
    BY <1>1, <1>2, <1>6, SharesFacts
  <2> DEFINE next == all \o Part(fin)
  <2>5. next \in Seq(S) /\ Len(next) = Len(all) + (fin - start)
    BY <1>4, <2>2, ConcatProperties
  <2>6. left' \in Nat /\ left' = start + Lacks - fin BY <1>1, <1>2, <1>4, <1>6, <1>8
  <2>7. routine' = IF left' = 0 THEN routine + 1 ELSE routine BY <1>8 DEF DealsUpTo
  <2> HIDE DEF next, all
  <2>8. Len(next) = Shares(routine') + (IF left' > 0 THEN Share(routine') - left' ELSE 0)
    <3>1. Len(next) = Shares(routine + 1) - left' BY <1>1, <1>6, <2>3, <2>4, <2>5, <2>6
    <3>2. CASE left' = 0 BY <1>6, <2>4, <2>6, <2>7, <3>1, <3>2
    <3>3. CASE left' # 0
      <4>1. routine' = routine /\ left' > 0 BY <2>6, <2>7, <3>3
      <4>2. Shares(routine + 1) = Shares(routine) + Share(routine) BY <1>1, <1>6, SharesFacts
      <4>3. Shares(routine) \in 0..NOrders /\ Share(routine) \in 0..NOrders
        <5>1. routine \in 0..Routines /\ routine \in Nat BY <1>1, <1>2
        <5> QED BY <1>6, <5>1, SharesFacts, ShareType
      <4> QED BY <1>6, <2>6, <3>1, <4>1, <4>2, <4>3
    <3> QED BY <3>2, <3>3
  <2>9. \/ \E k \in 1..NRegions :
             /\ region' = RegionAt(k)
             /\ next = FlattenSeq(SubSeq(Groups, 1, k - 1)) \o SubSeq(orders[region'], 1, start')
        \/ start' = 0 /\ next = FlattenSeq(Groups)
    <3> DEFINE upto(k) == FlattenSeq(SubSeq(Groups, 1, k))
               mine == orders[region]
               Begun(k) == /\ region' = RegionAt(k)
                           /\ next = upto(k - 1) \o SubSeq(orders[region'], 1, start')
               AllTaken == start' = 0 /\ next = FlattenSeq(Groups)
    <3> SUFFICES (\E k \in 1..NRegions : Begun(k)) \/ AllTaken OBVIOUS
    <3>1. /\ fin = Len(mine) => region' = (region + 1) % NRegions /\ start' = 0
          /\ fin # Len(mine) => region' = region /\ start' = fin
      BY <1>8 DEF DealsUpTo
    <3>2. CASE \E k \in 1..NRegions :
                 region = RegionAt(k) /\ all = upto(k - 1) \o SubSeq(mine, 1, start)
      <4>1. PICK k \in 1..NRegions :
              region = RegionAt(k) /\ all = upto(k - 1) \o SubSeq(mine, 1, start)
        BY <3>2
      <4>2. /\ k \in Nat /\ NRegions \in Nat /\ k - 1 \in 0..(NRegions - 1)
            /\ k - 1 + 1 = k /\ k <= NRegions
        BY <4>1, Turns
      <4>3. /\ Groups \in Seq(Seq(S)) /\ Len(Groups) = NRegions /\ Groups[k] = mine
        BY <4>1, GroupsType
      <4>4. upto(k - 1) \in Seq(S) /\ upto(k) = upto(k - 1) \o mine
        <5>1. /\ SubSeq(Groups, 1, k - 1) \in Seq(Seq(S))
              /\ SubSeq(Groups, 1, k) = Append(SubSeq(Groups, 1, k - 1), mine)
          BY <4>2, <4>3, BeginningGrows
        <5> QED BY <1>6, <5>1, FlatAppend, FlatType
      <4> DEFINE a == SubSeq(mine, 1, start)
                 b == SubSeq(mine, 1, fin)
                 u == upto(k - 1)
                 q == Part(fin)
      <4>5. a \in Seq(S) /\ b = a \o q
        <5>1. start \in 0..Len(mine) BY <1>1, <1>6
        <5>2. SubSeq(mine, 1, start) \in Seq(S) /\ InThree(mine, start, fin)
          BY <1>4, <1>6, <5>1, ThreeParts
        <5> QED BY <5>2 DEF InThree, Part
      <4>6. u \in Seq(S) /\ all = u \o a /\ next = all \o q /\ q \in Seq(S)
        BY <1>4, <4>1, <4>4 DEF next
      <4> HIDE DEF a, u, q
      <4>7. Associate(u, a, q) BY <4>5, <4>6, Associative
      <4>8. next = u \o b BY <4>5, <4>6, <4>7 DEF Associate
      <4>9. CASE fin # Len(mine)
        <5>1. Begun(k) BY <3>1, <4>1, <4>8, <4>9 DEF u
        <5> QED BY <5>1
      <4>10. CASE fin = Len(mine)
        <5>1. b = mine BY <1>6, <4>10, SubSeqFull
        <5>2. next = upto(k) BY <4>4, <4>8, <5>1 DEF u
        <5>3. region' = (region + 1) % NRegions /\ start' = 0 BY <3>1, <4>10
        <5>4. CASE k < NRegions
          <6>1. k \in 1..(NRegions - 1) /\ k + 1 \in 1..NRegions /\ (k + 1) - 1 = k
            BY <4>2, <5>4
          <6>2. region' = RegionAt(k + 1) BY <4>1, <5>3, <6>1, Turns
          <6>3. SubSeq(orders[region'], 1, start') = <<>> BY <5>3, SubSeqEmpty
          <6>4. next \o <<>> = next BY <2>5, ConcatEmptySeq
          <6>5. next = upto((k + 1) - 1) \o SubSeq(orders[region'], 1, start')
            BY <5>2, <6>1, <6>3, <6>4
          <6> HIDE DEF upto
          <6>6. Begun(k + 1) BY <6>2, <6>5
          <6> HIDE DEF Begun
          <6> QED BY <6>1, <6>6
        <5>5. CASE ~ (k < NRegions)
          <6>1. k = NRegions BY <4>2, <5>5
          <6>2. SubSeq(Groups, 1, k) = Groups BY <4>3, <6>1, SubSeqFull
          <6> QED BY <5>2, <5>3, <6>2
        <5> QED BY <5>4, <5>5
      <4> QED BY <4>9, <4>10
    <3>3. CASE start = 0 /\ all = FlattenSeq(Groups)
      <4>1. Len(all) = NOrders BY <1>6, <3>3, GroupsType DEF SumInv
      <4>2. Lacks = 0 BY <1>1, <1>6, <2>3, <2>4, <4>1
      <4>3. fin = 0 BY <1>2, <1>4, <1>6, <3>3, <4>2
      <4>4. start' = 0 BY <3>1, <4>3
      <4>5. Part(fin) = <<>> BY <3>3, <4>3, SubSeqEmpty DEF Part
      <4>6. next = all BY <2>2, <4>5, ConcatEmptySeq DEF next
      <4> QED BY <3>3, <4>4, <4>6
    <3> QED BY <1>1, <3>2, <3>3 DEF TurnInv, all
  <2>10. next = AllDealt("orders")' BY <2>1 DEF next, all
  <2>11. Len(AllDealt("orders")') =
           Shares(routine)' + (IF left' > 0 THEN Share(routine)' - left' ELSE 0)
    <3>1. Shares(routine)' = Shares(routine') /\ Share(routine)' = Share(routine')
      BY <1>5 DEF Shares, Share
    <3> QED BY <2>8, <2>10, <3>1
  <2> QED BY <1>1, <1>5, <1>8, <2>9, <2>10, <2>11 DEF TurnInv, RegionAt
<1> QED BY <1>4, <1>7, <1>8

\* When all orders are grouped, the groups are the regions' orders in turn.
LEMMA GroupsAreRegions ==
  ASSUME SplitInv, phase # "grouping"
  PROVE  ByRegion = FlattenSeq(Groups)
<1>1. file \in Files /\ pos = NOrders /\ \A r \in RegionIds : orders[r] = OrdersUpTo(file, r, pos)
  BY DEF SplitInv, GroupInv
<1>2. NOrders \in Nat /\ NOrders = Len(file) BY <1>1, FileFacts DEF NOrders
<1>3. ASSUME NEW r \in RegionIds PROVE OfRegion(r) = orders[r]
  <2> DEFINE q == Marks(file, r)
             S == 1..NOrders
  <2>1. \A i \in S : <<i>> \in Seq(S) /\ <<>> \in Seq(S) OBVIOUS
  <2>2. q \in [1..NOrders -> Seq(S)] BY <1>2, <2>1 DEF Marks
  <2>3. OfRegion(r) = FlattenSeq(q) BY <1>2 DEF OfRegion, Marks
  <2> HIDE DEF q, S
  <2>4. q \in Seq(Seq(S)) /\ Len(q) = NOrders BY <1>2, <2>2, SeqOfLength
  <2>5. SubSeq(q, 1, NOrders) = q BY <2>4, SubSeqFull
  <2> QED BY <1>1, <2>3, <2>5 DEF OrdersUpTo, q
<1>4. \A k \in 1..NRegions : OfRegion(RegionAt(k)) = orders[RegionAt(k)] BY <1>3, Turns
<1>5. ByRegion = FlattenSeq([k \in 1..NRegions |-> OfRegion(RegionAt(k))])
  BY DEF ByRegion, RegionAt
<1> QED BY <1>4, <1>5 DEF Groups

\* The first of two sequences that are joined is a prefix.
LEMMA PrefixOfConcat ==
  ASSUME NEW S, NEW a \in Seq(S), NEW b \in Seq(S), NEW c, Joined(c, a, b)
  PROVE  IsPrefix(a, c) /\ (Len(a) = Len(c) => a = c)
<1>1. /\ c \in Seq(S) /\ Len(a) \in Nat /\ Len(b) \in Nat /\ Len(c) = Len(a) + Len(b)
      /\ \A k \in 1..Len(a) : c[k] = a[k]
  <2>1. c = a \o b BY DEF Joined
  <2> QED BY <2>1, ConcatFacts
<1>2. SubSeq(a, 1, Len(a)) = a BY SubSeqFull
<1> DEFINE d == SubSeq(c, 1, Len(a))
<1>3. d \in Seq(S) /\ Len(d) = Len(a) /\ \A k \in 1..Len(a) : d[k] = c[k]
  <2>1. \A k \in 1..Len(a) : c[k] \in S BY <1>1, ElementOfSeq
  <2> QED BY <1>1, <2>1, SubSeqProperties
<1> HIDE DEF d
<1>4. a = d BY <1>1, <1>3, SeqsEqual
<1>5. Len(a) = Len(c) => a = c BY <1>1, SeqsEqual
<1>6. Len(a) <= Len(c) BY <1>1
<1>7. SubSeq(a, 1, Len(a)) = SubSeq(c, 1, Len(a)) BY <1>2, <1>4 DEF d
<1> QED BY <1>5, <1>6, <1>7 DEF IsPrefix

\* Whatever region the dealing has come to, what is dealt is a beginning.
LEMMA DealtIsBeginning ==
  ASSUME SplitInv, TurnInv, phase # "grouping"
  PROVE  /\ IsPrefix(AllDealt("orders"), FlattenSeq(Groups))
         /\ Len(AllDealt("orders")) = Len(FlattenSeq(Groups)) =>
              AllDealt("orders") = FlattenSeq(Groups)
<1> DEFINE all == AllDealt("orders")
           every == FlattenSeq(Groups)
           S == 1..NOrders
<1>1. all \in Seq(S) /\ every \in Seq(S) BY DealtIs, GroupsType
<1>2. \E c \in Seq(S) : Joined(every, all, c)
  <2> DEFINE upto(k) == FlattenSeq(SubSeq(Groups, 1, k))
  <2>1. CASE \E k \in 1..NRegions :
               /\ region = RegionAt(k)
               /\ all = upto(k - 1) \o SubSeq(orders[region], 1, start)
    <3>1. PICK k \in 1..NRegions :
            /\ region = RegionAt(k)
            /\ all = upto(k - 1) \o SubSeq(orders[region], 1, start)
      BY <2>1
    <3> DEFINE mine == orders[region]
    <3>2. /\ k \in Nat /\ NRegions \in Nat /\ k - 1 \in 0..(NRegions - 1)
          /\ k - 1 + 1 = k /\ k \in 0..NRegions /\ NRegions \in k..NRegions
      BY <3>1, Turns
    <3>3. /\ Groups \in Seq(Seq(S)) /\ Len(Groups) = NRegions /\ Groups[k] = mine
          /\ mine \in Seq(S)
      BY <3>1, GroupsType
    <3>4. upto(k - 1) \in Seq(S) /\ upto(k) = upto(k - 1) \o mine
      <4>1. /\ SubSeq(Groups, 1, k - 1) \in Seq(Seq(S))
            /\ SubSeq(Groups, 1, k) = Append(SubSeq(Groups, 1, k - 1), mine)
        BY <3>2, <3>3, BeginningGrows
      <4> QED BY <3>3, <4>1, FlatAppend, FlatType
    <3>5. start \in 0..Len(mine) /\ Len(mine) \in Nat /\ Len(mine) \in start..Len(mine)
      <4>1. start \in 0..Len(mine) BY DEF SplitInv, DealInv
      <4>2. Len(mine) \in Nat BY <3>3, LenProperties
      <4> QED BY <4>1, <4>2
    <3> DEFINE u == upto(k - 1)
               a == SubSeq(mine, 1, start)
               b == SubSeq(mine, start + 1, Len(mine))
               r == FlattenSeq(SubSeq(Groups, k + 1, NRegions))
    <3>6. a \in Seq(S) /\ b \in Seq(S) /\ mine = a \o b
      <4>1. /\ a \in Seq(S) /\ b \in Seq(S) /\ InThree(mine, start, Len(mine))
        BY <3>3, <3>5, ThreeParts
      <4>2. SubSeq(mine, 1, Len(mine)) = mine BY <3>3, SubSeqFull
      <4> QED BY <4>1, <4>2 DEF InThree
    <3>7. r \in Seq(S) /\ every = upto(k) \o r
      <4> DEFINE g1 == SubSeq(Groups, 1, k)
                 g2 == SubSeq(Groups, k + 1, NRegions)
      <4>1. /\ g1 \in Seq(Seq(S)) /\ g2 \in Seq(Seq(S)) /\ InThree(Groups, k, NRegions)
        BY <3>2, <3>3, ThreeParts
      <4>2. SubSeq(Groups, 1, NRegions) = Groups BY <3>3, SubSeqFull
      <4>3. Groups = g1 \o g2 BY <4>1, <4>2 DEF InThree
      <4> HIDE DEF g1, g2
      <4>4. FlattenSeq(g1 \o g2) = FlattenSeq(g1) \o FlattenSeq(g2) BY <4>1, FlatConcat
      <4>5. FlattenSeq(g2) \in Seq(S) BY <4>1, FlatType
      <4> QED BY <4>3, <4>4, <4>5 DEF g1, g2
    <3>8. all = u \o a /\ every = (u \o (a \o b)) \o r /\ u \in Seq(S)
      <4>1. all = u \o a BY <3>1
      <4>2. upto(k) = u \o (a \o b) BY <3>4, <3>6
      <4> QED BY <3>4, <3>7, <4>1, <4>2
    <3> HIDE DEF all, every, u, a, b, r
    <3>9. Associate(u, a, b) BY <3>6, <3>8, Associative
    <3>10. Associate(u \o a, b, r)
      <4>1. u \o a \in Seq(S) BY <3>6, <3>8, ConcatProperties
      <4> QED BY <3>6, <3>7, <4>1, Associative
    <3>11. every = all \o (b \o r) BY <3>8, <3>9, <3>10 DEF Associate
    <3>12. b \o r \in Seq(S) BY <3>6, <3>7, ConcatProperties
    <3> QED BY <3>11, <3>12 DEF Joined
  <2>2. CASE all = every
    <3>1. all \o <<>> = all /\ <<>> \in Seq(S) BY <1>1, ConcatEmptySeq
    <3> QED BY <2>2, <3>1 DEF Joined
  <2> QED BY <2>1, <2>2 DEF TurnInv
<1> HIDE DEF all, every, S
<1> QED BY <1>1, <1>2, PrefixOfConcat DEF all, every

\* At first no order is grouped and none dealt.
LEMMA InitTurns == Init => SumInv /\ TurnInv
<1> SUFFICES ASSUME Init PROVE SumInv /\ TurnInv OBVIOUS
<1>1. SplitInv BY InitInv
<1>2. /\ pos = 0 /\ routine = 0 /\ start = 0 /\ left = 0 /\ region = FirstRegion
      /\ orders = [r \in RegionIds |-> <<>>] /\ Routines \in Nat
  BY SplitAssumption DEF Init
<1>3. /\ Len(Groups) = NRegions /\ \A k \in 1..NRegions : Groups[k] = orders[RegionAt(k)]
      /\ NOrders \in Nat /\ NRegions \in Nat
  BY <1>1, GroupsType, Turns
<1>4. SumInv
  <2> DEFINE f == Lens(Groups)
  <2>1. f = [k \in 1..NRegions |-> Len(Groups[k])] BY <1>3 DEF Lens
  <2>2. \A k \in 1..NRegions : f[k] = 0
    <3> TAKE k \in 1..NRegions
    <3>1. RegionAt(k) \in RegionIds BY Turns
    <3>2. Groups[k] = <<>> BY <1>2, <1>3, <3>1
    <3> QED BY <2>1, <3>2
  <2>3. DOMAIN f = 1..NRegions BY <2>1
  <2> HIDE DEF f
  <2>4. IsFiniteSet(1..NRegions) BY <1>3, FS_Interval
  <2>5. SumFunctionOnSet(f, 1..NRegions) = 0 BY <2>2, <2>4, SumOfZeros
  <2>6. SumFunction(f) = 0 BY <2>3, <2>5, Zenon DEF SumFunction
  <2> QED BY <1>2, <2>6 DEF SumInv, f
<1>5. /\ AllDealt("orders") = FlattenSeq(DealtParts)
      /\ DealtParts \in Seq(Seq(1..NOrders)) /\ Len(DealtParts) = Routines
      /\ AllDealt("orders") \in Seq(1..NOrders)
  BY <1>1, DealtIs
<1>6. AllDealt("orders") = <<>> /\ Len(AllDealt("orders")) = 0
  <2> DEFINE f == Lens(DealtParts)
  <2>1. f = [k \in 1..Routines |-> Len(DealtParts[k])] BY <1>5 DEF Lens
  <2>2. \A k \in 1..Routines : f[k] = 0
    <3> TAKE k \in 1..Routines
    <3>1. k - 1 \in 0..(Routines - 1) BY <1>2
    <3>2. dealt[k - 1].orders = <<>> BY <3>1 DEF Init
    <3>3. DealtParts[k] = <<>> BY <3>2 DEF DealtParts
    <3> QED BY <2>1, <3>3
  <2>3. DOMAIN f = 1..Routines BY <2>1
  <2>4. Len(AllDealt("orders")) = SumFunction(f) BY <1>5, FlatLen
  <2> HIDE DEF f
  <2>5. IsFiniteSet(1..Routines) BY <1>2, FS_Interval
  <2>6. SumFunctionOnSet(f, 1..Routines) = 0 BY <2>2, <2>5, SumOfZeros
  <2>7. SumFunction(f) = 0 BY <2>3, <2>6, Zenon DEF SumFunction
  <2> QED BY <1>5, <2>4, <2>7, EmptySeq
<1>7. TurnInv
  <2>1. Len(AllDealt("orders")) =
          Shares(routine) + (IF left > 0 THEN Share(routine) - left ELSE 0)
    BY <1>2, <1>3, <1>6, SharesFacts
  <2>2. 1 \in 1..NRegions /\ region = RegionAt(1) BY <1>2, Turns
  <2>3. SubSeq(Groups, 1, 1 - 1) = <<>> /\ SubSeq(orders[region], 1, start) = <<>>
    BY <1>2, SubSeqEmpty
  <2>4. <<>> \o <<>> = <<>> OBVIOUS
  <2>5. AllDealt("orders") =
          FlattenSeq(SubSeq(Groups, 1, 1 - 1)) \o SubSeq(orders[region], 1, start)
    BY <1>6, <2>3, <2>4, FlatEmpty
  <2> QED BY <2>1, <2>2, <2>5 DEF TurnInv
<1> QED BY <1>4, <1>7

\* Every step keeps the turns of the regions.
LEMMA NextTurns ==
  ASSUME SplitInv, SumInv, TurnInv, [Next]_vars
  PROVE  SumInv' /\ TurnInv'
<1>1. CASE GroupOrder
  <2>1. SumInv' BY <1>1, SumGrows
  <2>2. /\ file' = file /\ dealing' = dealing /\ phase = "grouping" /\ phase' = phase
        /\ orders' = [orders EXCEPT ![file[pos + 1].region] = @ \o <<pos + 1>>]
    BY <1>1 DEF GroupOrder, Grouped
  <2>3. /\ routine' = routine /\ region' = region /\ start' = start /\ left' = left
        /\ dealt' = dealt /\ NOrders' = NOrders /\ AllDealt("orders")' = AllDealt("orders")
        /\ Shares(routine)' = Shares(routine) /\ Share(routine)' = Share(routine)
    BY <2>2 DEF dealing, NOrders, AllDealt, Shares, Share
  <2>4. region = FirstRegion /\ start = 0 /\ routine = 0 /\ left = 0
    BY <2>2 DEF SplitInv, DealInv
  <2>5. AllDealt("orders") = <<>>
    <3>1. NOrders \in Nat /\ AllDealt("orders") \in Seq(1..NOrders) BY GroupsType, DealtIs
    <3>2. Len(AllDealt("orders")) = 0 BY <2>4, <3>1, SharesFacts DEF TurnInv
    <3> QED BY <3>1, <3>2, EmptySeq
  <2>6. 1 \in 1..NRegions /\ region' = RegionAt(1) /\ 1 - 1 = 0 BY <2>3, <2>4, Turns
  <2>7. SubSeq(Groups', 1, 1 - 1) = <<>> /\ SubSeq(orders'[region'], 1, start') = <<>>
    BY <2>3, <2>4, SubSeqEmpty
  <2>8. <<>> \o <<>> = <<>> OBVIOUS
  <2>9. AllDealt("orders")' =
          FlattenSeq(SubSeq(Groups', 1, 1 - 1)) \o SubSeq(orders'[region'], 1, start')
    BY <2>3, <2>5, <2>7, <2>8, FlatEmpty
  <2>10. Len(AllDealt("orders"))' =
           Shares(routine)' + (IF left' > 0 THEN Share(routine)' - left' ELSE 0)
    BY <2>3 DEF TurnInv
  <2>11. TurnInv' BY <2>6, <2>9, <2>10 DEF TurnInv, RegionAt
  <2> QED BY <2>1, <2>11
<1>2. CASE DealShare \/ DealMore
  <2>1. TurnInv' BY <1>2, DealKeepsTurns
  <2>2. pos' = pos /\ orders' = orders
    <3> DEFINE w == start + Lacks
    <3>1. routine < Routines /\ w \in Nat /\ start <= w /\ Deal(w)
      BY <1>2, DealStart, SplitAssumption
    <3> HIDE DEF w
    <3>2. grouping' = grouping BY <3>1, DealFacts
    <3> QED BY <3>2 DEF grouping
  <2>3. Groups' = Groups BY <2>2 DEF Groups, RegionAt
  <2>4. Lens(Groups)' = Lens(Groups) BY <2>3 DEF Lens
  <2>5. SumFunction(Lens(Groups))' = SumFunction(Lens(Groups)) BY <2>4 DEF SumFunction
  <2>6. SumInv' BY <2>2, <2>5 DEF SumInv
  <2> QED BY <2>1, <2>6
<1>3. CASE EndGrouping \/ EndDealing \/ UNCHANGED vars
  <2>1. file' = file /\ grouping' = grouping /\ dealing' = dealing
    BY <1>3 DEF EndGrouping, EndDealing, vars
  <2>2. /\ pos' = pos /\ orders' = orders /\ routine' = routine /\ region' = region
        /\ start' = start /\ left' = left /\ dealt' = dealt /\ NOrders' = NOrders
    BY <2>1 DEF grouping, dealing, NOrders
  <2>3. Groups' = Groups /\ SumInv'
    <3>1. Groups' = Groups BY <2>2 DEF Groups, RegionAt
    <3>2. Lens(Groups)' = Lens(Groups) BY <3>1 DEF Lens
    <3>3. SumFunction(Lens(Groups))' = SumFunction(Lens(Groups)) BY <3>2 DEF SumFunction
    <3> QED BY <2>2, <3>1, <3>3 DEF SumInv
  <2>4. /\ AllDealt("orders")' = AllDealt("orders")
        /\ Shares(routine)' = Shares(routine) /\ Share(routine)' = Share(routine)
    BY <2>2 DEF AllDealt, Shares, Share
  <2>5. phase # "grouping" => phase' # "grouping"
    BY <1>3 DEF EndGrouping, EndDealing, vars
  <2>6. TurnInv' BY <2>2, <2>3, <2>4, <2>5 DEF TurnInv, RegionAt
  <2> QED BY <2>3, <2>6
<1>4. CASE Ended
  <2>1. UNCHANGED vars BY <1>4 DEF Ended
  <2> QED BY <1>3, <2>1
<1> QED BY <1>1, <1>2, <1>3, <1>4 DEF Next

\* The regions are dealt in turn and, in the end, every order once
\* (DealtByRegion): the shares end where the orders do, wherever in a region the
\* ones between begin.
THEOREM DealtByRegionHolds == Spec => []DealtByRegion
<1> DEFINE Inv == SplitInv /\ SumInv /\ TurnInv
<1>1. Init => Inv BY InitInv, InitTurns
<1>2. Inv /\ [Next]_vars => Inv'
  <2> SUFFICES ASSUME Inv, [Next]_vars PROVE Inv' OBVIOUS
  <2>1. SplitInv' BY NextInv
  <2>2. SumInv' /\ TurnInv' BY NextTurns
  <2> QED BY <2>1, <2>2
<1>3. Inv => DealtByRegion
  <2> SUFFICES ASSUME Inv PROVE DealtByRegion OBVIOUS
  <2>1. ASSUME phase # "grouping"
        PROVE  /\ ByRegion = FlattenSeq(Groups)
               /\ IsPrefix(AllDealt("orders"), ByRegion)
               /\ Len(AllDealt("orders")) = Len(ByRegion) => AllDealt("orders") = ByRegion
    <3>1. ByRegion = FlattenSeq(Groups) BY <2>1, GroupsAreRegions
    <3> QED BY <2>1, <3>1, DealtIsBeginning
  <2>2. ASSUME phase = "done" PROVE Len(AllDealt("orders")) = Len(ByRegion)
    <3>1. routine = Routines /\ left = 0 /\ pos = NOrders
      BY <2>2 DEF SplitInv, DealInv, GroupInv
    <3>2. NOrders \in Nat /\ Len(FlattenSeq(Groups)) = NOrders
      BY <3>1, GroupsType DEF SumInv
    <3>3. Len(AllDealt("orders")) = NOrders BY <3>1, <3>2, SharesFacts DEF TurnInv
    <3>4. phase # "grouping" BY <2>2
    <3> QED BY <2>1, <3>2, <3>3, <3>4
  <2> QED BY <2>1, <2>2 DEF DealtByRegion
<1> QED BY <1>1, <1>2, <1>3, PTL DEF Spec
=============================================================================
