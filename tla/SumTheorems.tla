----------------------------- MODULE SumTheorems -----------------------------
(***************************************************************************)
(* Facts about finite sums (SumFunction and SumFunctionOnSet of the        *)
(* community modules), which the statistics, the counts of the clients and *)
(* the split of the updates are made of.                                   *)
(*                                                                         *)
(* The sum is defined by recursion over the subsets of a set, with CHOOSE. *)
(* That such a function exists, and that it does not depend on the choices *)
(* nor on the set around, is proved by induction, which SetInduction gives *)
(* for sets of naturals from the well-foundedness of <.                    *)
(***************************************************************************)
EXTENDS Functions, FiniteSetTheorems, WellFoundedInduction, TLAPS

\* A set that has 0 and the successors of its naturals has all naturals.
LEMMA SetInduction ==
  ASSUME NEW T, 0 \in T, \A n \in Nat : n \in T => n + 1 \in T
  PROVE  Nat \subseteq T
<1> DEFINE Less == OpToRel(<, Nat)
           U == Nat \ T
<1>1. IsWellFoundedOn(Less, Nat) BY NatLessThanWellFounded
<1>2. SUFFICES ASSUME U # {} PROVE FALSE OBVIOUS
<1>3. PICK x \in U : \A y \in U : ~ (<<y, x>> \in Less)
  <2> HIDE DEF Less
  <2> QED BY <1>1, <1>2, WFMin
<1>4. x # 0 /\ x - 1 \in Nat /\ x - 1 \notin T
  <2>1. x # 0 /\ x - 1 \in Nat OBVIOUS
  <2>2. (x - 1) + 1 = x OBVIOUS
  <2> HIDE DEF Less
  <2> QED BY <2>1, <2>2
<1>5. <<x - 1, x>> \in Less BY <1>4 DEF OpToRel
<1> QED BY <1>3, <1>4, <1>5

-----------------------------------------------------------------------------
(* The recursion. *)

Some(s) == CHOOSE x \in s : TRUE

\* g sums f over the subsets of S that are in D.
SumsIn(g, f, D) ==
  g = [s \in D |-> IF s = {} THEN 0 ELSE f[Some(s)] + g[s \ {Some(s)}]]

\* The subsets of S with at most n elements.
UpTo(S, n) == {s \in SUBSET S : Cardinality(s) <= n}

\* SumFunctionOnSet is a recursive function of the subsets, taken at the set.
LEMMA SumIs ==
  ASSUME NEW f, NEW S
  PROVE  SumFunctionOnSet(f, S) = (CHOOSE g : SumsIn(g, f, SUBSET S))[S]
BY DEF SumFunctionOnSet, FoldFunctionOnSet, MapThenFoldSet, SumsIn, Some

\* What is taken from a set is in it.
LEMMA SomeIn == ASSUME NEW s, s # {} PROVE Some(s) \in s
BY DEF Some

\* What is taken from a subset with at most n + 1 elements leaves one with n.
LEMMA TakeSome ==
  ASSUME NEW S, IsFiniteSet(S), NEW n \in Nat, NEW s \in UpTo(S, n + 1), s # {}
  PROVE  s \ {Some(s)} \in UpTo(S, n) /\ IsFiniteSet(s) /\ Cardinality(s) \in Nat
<1>1. IsFiniteSet(s) BY FS_Subset DEF UpTo
<1>2. Cardinality(s) \in Nat /\ Cardinality(s \ {Some(s)}) = Cardinality(s) - 1
  BY <1>1, FS_CardinalityType, FS_RemoveElement, SomeIn
<1> QED BY <1>1, <1>2 DEF UpTo

\* There is such a function for the subsets of any bounded size: by induction.
LEMMA SumExistsUpTo ==
  ASSUME NEW f, NEW S, IsFiniteSet(S)
  PROVE  \A n \in Nat : \E g : SumsIn(g, f, UpTo(S, n))
<1> DEFINE T == {n \in Nat : \E g : SumsIn(g, f, UpTo(S, n))}
<1>1. 0 \in T
  <2>1. \A s \in UpTo(S, 0) : s = {}
    BY FS_Subset, FS_EmptySet, FS_CardinalityType DEF UpTo
  <2>2. SumsIn([s \in UpTo(S, 0) |-> 0], f, UpTo(S, 0)) BY <2>1 DEF SumsIn
  <2> QED BY <2>2
<1>2. ASSUME NEW n \in Nat, n \in T PROVE n + 1 \in T
  <2>1. PICK g : SumsIn(g, f, UpTo(S, n)) BY <1>2
  <2> DEFINE h == [s \in UpTo(S, n + 1) |->
                     IF s = {} THEN 0 ELSE f[Some(s)] + g[s \ {Some(s)}]]
  <2>2. \A s \in UpTo(S, n) : s \in UpTo(S, n + 1) /\ h[s] = g[s]
    <3>1. \A s \in UpTo(S, n) : s \in UpTo(S, n + 1)
      BY FS_Subset, FS_CardinalityType DEF UpTo
    <3> QED BY <2>1, <3>1 DEF SumsIn
  <2>3. \A s \in UpTo(S, n + 1) : s # {} => h[s \ {Some(s)}] = g[s \ {Some(s)}]
    BY <2>2, TakeSome
  <2>4. SumsIn(h, f, UpTo(S, n + 1)) BY <2>3, Zenon DEF SumsIn
  <2> QED BY <2>4
<1> HIDE DEF T
<1>3. Nat \subseteq T BY <1>1, <1>2, SetInduction
<1> QED BY <1>3 DEF T

\* The sum satisfies its recursion, and that is all that is needed of it.
LEMMA SumExists ==
  ASSUME NEW f, NEW S, IsFiniteSet(S)
  PROVE  \E g : SumsIn(g, f, SUBSET S) /\ SumFunctionOnSet(f, S) = g[S]
<1>1. \E g : SumsIn(g, f, UpTo(S, Cardinality(S)))
  BY SumExistsUpTo, FS_CardinalityType
<1>2. UpTo(S, Cardinality(S)) = SUBSET S BY FS_Subset DEF UpTo
<1>3. SumsIn(CHOOSE g : SumsIn(g, f, SUBSET S), f, SUBSET S) BY <1>1, <1>2
<1> QED BY <1>3, SumIs

-----------------------------------------------------------------------------
(* What the sum is, whatever is taken first. *)

\* Two sums agree on a set on which their functions do.
LEMMA SumsAgree ==
  ASSUME NEW f, NEW g, NEW e, NEW h, NEW S, NEW T, NEW R, IsFiniteSet(R),
         SumsIn(e, f, SUBSET S), SumsIn(h, g, SUBSET T), R \subseteq S, R \subseteq T,
         \A x \in R : f[x] = g[x]
  PROVE  e[R] = h[R]
<1> DEFINE N == {n \in Nat : \A s \in UpTo(R, n) : e[s] = h[s]}
<1>1. e[{}] = 0 /\ h[{}] = 0
  BY DEF SumsIn
<1>2. \A s \in SUBSET R : s # {} =>
        e[s] = f[Some(s)] + e[s \ {Some(s)}] /\ h[s] = g[Some(s)] + h[s \ {Some(s)}]
  <2>1. \A s \in SUBSET R : s \in SUBSET S /\ s \in SUBSET T
    OBVIOUS
  <2> QED BY <2>1 DEF SumsIn
<1>3. 0 \in N
  <2>1. \A s \in UpTo(R, 0) : s = {}
    BY FS_Subset, FS_EmptySet, FS_CardinalityType DEF UpTo
  <2> QED BY <1>1, <2>1
<1>4. ASSUME NEW n \in Nat, n \in N PROVE n + 1 \in N
  <2>1. ASSUME NEW s \in UpTo(R, n + 1), s # {} PROVE e[s] = h[s]
    <3>1. Some(s) \in R /\ e[s \ {Some(s)}] = h[s \ {Some(s)}]
      BY <1>4, <2>1, TakeSome, SomeIn DEF UpTo
    <3> QED BY <1>2, <2>1, <3>1 DEF UpTo
  <2>2. \A s \in UpTo(R, n + 1) : e[s] = h[s]
    BY <1>1, <2>1
  <2> QED BY <2>2
<1> HIDE DEF N
<1>5. Nat \subseteq N BY <1>3, <1>4, SetInduction
<1>6. Cardinality(R) \in N /\ R \in UpTo(R, Cardinality(R))
  BY <1>5, FS_CardinalityType DEF UpTo
<1> QED BY <1>6 DEF N

\* Sums of functions that agree on a set are equal on it.
LEMMA SumEqual ==
  ASSUME NEW f, NEW g, NEW S, IsFiniteSet(S), \A x \in S : f[x] = g[x]
  PROVE  SumFunctionOnSet(f, S) = SumFunctionOnSet(g, S)
<1>1. PICK e : SumsIn(e, f, SUBSET S) /\ SumFunctionOnSet(f, S) = e[S]
  BY SumExists
<1>2. PICK h : SumsIn(h, g, SUBSET S) /\ SumFunctionOnSet(g, S) = h[S]
  BY SumExists
<1> QED BY <1>1, <1>2, SumsAgree

\* There is nothing in the sum over no elements.
LEMMA SumEmpty == ASSUME NEW f PROVE SumFunctionOnSet(f, {}) = 0
<1>1. PICK e : SumsIn(e, f, SUBSET {}) /\ SumFunctionOnSet(f, {}) = e[{}]
  BY SumExists, FS_EmptySet
<1> QED BY <1>1 DEF SumsIn

\* One step of the recursion.
LEMMA SumStep ==
  ASSUME NEW f, NEW S, IsFiniteSet(S), S # {}
  PROVE  SumFunctionOnSet(f, S) = f[Some(S)] + SumFunctionOnSet(f, S \ {Some(S)})
<1> DEFINE R == S \ {Some(S)}
<1>1. PICK e : SumsIn(e, f, SUBSET S) /\ SumFunctionOnSet(f, S) = e[S]
  BY SumExists
<1>2. IsFiniteSet(R) BY FS_RemoveElement
<1>3. PICK h : SumsIn(h, f, SUBSET R) /\ SumFunctionOnSet(f, R) = h[R]
  BY <1>2, SumExists
<1>4. e[R] = h[R]
  <2>1. R \subseteq S /\ R \subseteq R OBVIOUS
  <2>2. \A x \in R : f[x] = f[x] OBVIOUS
  <2> HIDE DEF R
  <2> QED BY <1>1, <1>2, <1>3, <2>1, <2>2, SumsAgree, SMTT(30)
<1>5. e[S] = f[Some(S)] + e[R]
  BY <1>1 DEF SumsIn
<1> QED BY <1>1, <1>3, <1>4, <1>5

\* The sum of numbers is a number, and a natural one if they all are.
LEMMA SumType ==
  ASSUME NEW f, NEW S, IsFiniteSet(S), NEW Typ \in {Nat, Int}, \A x \in S : f[x] \in Typ
  PROVE  SumFunctionOnSet(f, S) \in Typ
<1> DEFINE N == {n \in Nat : \A s \in UpTo(S, n) : SumFunctionOnSet(f, s) \in Typ}
<1>1. 0 \in N
  <2>1. \A s \in UpTo(S, 0) : s = {}
    BY FS_Subset, FS_EmptySet, FS_CardinalityType DEF UpTo
  <2> QED BY <2>1, SumEmpty
<1>2. ASSUME NEW n \in Nat, n \in N PROVE n + 1 \in N
  <2>1. ASSUME NEW s \in UpTo(S, n + 1), s # {} PROVE SumFunctionOnSet(f, s) \in Typ
    <3>1. Some(s) \in S /\ SumFunctionOnSet(f, s \ {Some(s)}) \in Typ /\ IsFiniteSet(s)
      BY <1>2, <2>1, TakeSome, SomeIn DEF UpTo
    <3>2. SumFunctionOnSet(f, s) = f[Some(s)] + SumFunctionOnSet(f, s \ {Some(s)})
      BY <2>1, <3>1, SumStep
    <3>3. \A a, b \in Typ : a + b \in Typ
      OBVIOUS
    <3> QED BY <3>1, <3>2, <3>3
  <2>2. SumFunctionOnSet(f, {}) \in Typ
    BY SumEmpty
  <2> QED BY <2>1, <2>2
<1> HIDE DEF N
<1>3. Nat \subseteq N BY <1>1, <1>2, SetInduction
<1>4. Cardinality(S) \in N /\ S \in UpTo(S, Cardinality(S))
  BY <1>3, FS_CardinalityType DEF UpTo
<1> QED BY <1>4 DEF N

\* Any element may be taken first.
LEMMA SumRemove ==
  ASSUME NEW f, NEW S, IsFiniteSet(S), \A x \in S : f[x] \in Int, NEW y \in S
  PROVE  SumFunctionOnSet(f, S) = f[y] + SumFunctionOnSet(f, S \ {y})
<1> DEFINE Ok(s) == \A x \in s : SumFunctionOnSet(f, s) = f[x] + SumFunctionOnSet(f, s \ {x})
           N == {n \in Nat : \A s \in UpTo(S, n) : Ok(s)}
<1>1. 0 \in N
  <2>1. \A s \in UpTo(S, 0) : s = {}
    BY FS_Subset, FS_EmptySet, FS_CardinalityType DEF UpTo
  <2> QED BY <2>1
<1>2. ASSUME NEW n \in Nat, n \in N PROVE n + 1 \in N
  <2>1. ASSUME NEW s \in UpTo(S, n + 1), NEW x \in s
        PROVE  SumFunctionOnSet(f, s) = f[x] + SumFunctionOnSet(f, s \ {x})
    <3> DEFINE z == Some(s)
               r == (s \ {z}) \ {x}
    <3>1. /\ z \in s /\ z \in S /\ x \in S /\ IsFiniteSet(s) /\ r \in SUBSET S
          /\ s \ {z} \in UpTo(S, n)
      BY TakeSome, SomeIn DEF UpTo
    <3>2. s \ {x} \in UpTo(S, n)
      <4>1. Cardinality(s) \in Nat /\ Cardinality(s \ {x}) = Cardinality(s) - 1
        BY <3>1, FS_CardinalityType, FS_RemoveElement
      <4> QED BY <4>1 DEF UpTo
    <3>3. SumFunctionOnSet(f, s) = f[z] + SumFunctionOnSet(f, s \ {z})
      BY <3>1, SumStep
    <3>4. CASE x = z
      BY <3>3, <3>4
    <3>5. CASE x # z
      <4>1. SumFunctionOnSet(f, s \ {z}) = f[x] + SumFunctionOnSet(f, r)
        <5>1. Ok(s \ {z}) BY <1>2, <3>1
        <5> QED BY <3>5, <5>1
      <4>2. SumFunctionOnSet(f, s \ {x}) = f[z] + SumFunctionOnSet(f, r)
        <5>1. Ok(s \ {x}) BY <1>2, <3>2
        <5>2. (s \ {x}) \ {z} = r OBVIOUS
        <5> HIDE DEF r
        <5> QED BY <3>1, <3>5, <5>1, <5>2
      <4>3. SumFunctionOnSet(f, r) \in Int /\ f[x] \in Int /\ f[z] \in Int
        <5>1. IsFiniteSet(r) BY <3>1, FS_Subset
        <5> QED BY <3>1, <5>1, SumType
      <4> HIDE DEF r, z
      <4> QED BY <3>3, <4>1, <4>2, <4>3
    <3> QED BY <3>4, <3>5
  <2> QED BY <2>1
<1> HIDE DEF N
<1>3. Nat \subseteq N BY <1>1, <1>2, SetInduction
<1>4. Cardinality(S) \in N /\ S \in UpTo(S, Cardinality(S))
  BY <1>3, FS_CardinalityType DEF UpTo
<1> QED BY <1>4 DEF N

\* A new element adds its value.
LEMMA SumAdd ==
  ASSUME NEW f, NEW S, IsFiniteSet(S), NEW y, y \notin S, \A x \in S \cup {y} : f[x] \in Int
  PROVE  SumFunctionOnSet(f, S \cup {y}) = f[y] + SumFunctionOnSet(f, S)
<1>1. IsFiniteSet(S \cup {y}) BY FS_AddElement
<1>2. (S \cup {y}) \ {y} = S OBVIOUS
<1> QED BY <1>1, <1>2, SumRemove

\* The sum over one element is its value.
LEMMA SumSingleton ==
  ASSUME NEW f, NEW y, f[y] \in Int
  PROVE  SumFunctionOnSet(f, {y}) = f[y]
<1>1. SumFunctionOnSet(f, {} \cup {y}) = f[y] + SumFunctionOnSet(f, {})
  BY FS_EmptySet, SumAdd
<1>2. {} \cup {y} = {y} OBVIOUS
<1>3. SumFunctionOnSet(f, {} \cup {y}) = SumFunctionOnSet(f, {y}) BY <1>2
<1> QED BY <1>1, <1>3, SumEmpty

\* One value that changes changes the sum by as much.
LEMMA SumChange ==
  ASSUME NEW f, NEW g, NEW S, IsFiniteSet(S), NEW y \in S,
         \A x \in S : f[x] \in Int /\ g[x] \in Int,
         \A x \in S : x # y => g[x] = f[x]
  PROVE  SumFunctionOnSet(g, S) = SumFunctionOnSet(f, S) + (g[y] - f[y])
<1> DEFINE R == S \ {y}
<1>1. IsFiniteSet(R) BY FS_RemoveElement
<1>2. SumFunctionOnSet(g, R) = SumFunctionOnSet(f, R) BY <1>1, SumEqual
<1>3. /\ SumFunctionOnSet(f, S) = f[y] + SumFunctionOnSet(f, R)
      /\ SumFunctionOnSet(g, S) = g[y] + SumFunctionOnSet(g, R)
  BY SumRemove
<1>4. SumFunctionOnSet(f, R) \in Int BY <1>1, SumType
<1> QED BY <1>2, <1>3, <1>4

\* What is true of no elements, and of one more whenever it is true of some, is
\* true of all elements of a finite set.
LEMMA FiniteInduction ==
  ASSUME NEW S, IsFiniteSet(S), NEW D, {} \in D,
         \A s \in SUBSET S : \A x \in S \ s : s \in D => s \cup {x} \in D
  PROVE  S \in D
<1> DEFINE N == {n \in Nat : UpTo(S, n) \subseteq D}
<1>1. 0 \in N
  <2>1. \A s \in UpTo(S, 0) : s = {}
    BY FS_Subset, FS_EmptySet, FS_CardinalityType DEF UpTo
  <2> QED BY <2>1
<1>2. ASSUME NEW n \in Nat, n \in N PROVE n + 1 \in N
  <2>1. ASSUME NEW s \in UpTo(S, n + 1), s # {} PROVE s \in D
    <3> DEFINE z == Some(s)
               r == s \ {z}
    <3>1. z \in S \ r /\ r \in UpTo(S, n) /\ r \cup {z} = s
      BY <2>1, TakeSome, SomeIn DEF UpTo
    <3>2. r \in D /\ r \in SUBSET S
      BY <1>2, <3>1 DEF UpTo
    <3> HIDE DEF r, z
    <3> QED BY <3>1, <3>2
  <2>2. UpTo(S, n + 1) \subseteq D BY <2>1
  <2> QED BY <2>2
<1> HIDE DEF N
<1>3. Nat \subseteq N BY <1>1, <1>2, SetInduction
<1>4. Cardinality(S) \in N /\ S \in UpTo(S, Cardinality(S))
  BY <1>3, FS_CardinalityType DEF UpTo
<1> QED BY <1>4 DEF N

\* The sum over two sets without a common element is the sum of their sums.
LEMMA SumUnion ==
  ASSUME NEW f, NEW S, NEW T, IsFiniteSet(S), IsFiniteSet(T), S \cap T = {},
         \A x \in S \cup T : f[x] \in Int
  PROVE  SumFunctionOnSet(f, S \cup T) = SumFunctionOnSet(f, S) + SumFunctionOnSet(f, T)
<1> DEFINE D == {s \in SUBSET S :
                   SumFunctionOnSet(f, s \cup T) = SumFunctionOnSet(f, s) + SumFunctionOnSet(f, T)}
<1>1. SumFunctionOnSet(f, T) \in Int BY SumType
<1>2. {} \in D
  <2>1. {} \cup T = T OBVIOUS
  <2> QED BY <1>1, <2>1, SumEmpty
<1>3. ASSUME NEW s \in SUBSET S, NEW x \in S \ s, s \in D PROVE s \cup {x} \in D
  <2>1. IsFiniteSet(s) /\ IsFiniteSet(s \cup T) BY FS_Subset, FS_Union
  <2>2. SumFunctionOnSet(f, s \cup {x}) = f[x] + SumFunctionOnSet(f, s) BY <2>1, SumAdd
  <2>3. (s \cup {x}) \cup T = (s \cup T) \cup {x} /\ x \notin s \cup T OBVIOUS
  <2>4. SumFunctionOnSet(f, (s \cup {x}) \cup T) = f[x] + SumFunctionOnSet(f, s \cup T)
    BY <2>1, <2>3, SumAdd
  <2>5. SumFunctionOnSet(f, s) \in Int /\ f[x] \in Int BY <2>1, SumType
  <2> QED BY <1>1, <1>3, <2>2, <2>4, <2>5
<1> HIDE DEF D
<1>4. S \in D BY <1>2, <1>3, FiniteInduction
<1> QED BY <1>4 DEF D

\* The sum over two sets is at most that of their sums, and is not smaller than that
\* over one of them, if no value is negative.
LEMMA SumUnionLeq ==
  ASSUME NEW f, NEW S, NEW T, IsFiniteSet(S), IsFiniteSet(T), \A x \in S \cup T : f[x] \in Nat
  PROVE  SumFunctionOnSet(f, S \cup T) <= SumFunctionOnSet(f, S) + SumFunctionOnSet(f, T)
<1> DEFINE A == T \ S
           B == T \cap S
<1>1. IsFiniteSet(A) /\ IsFiniteSet(B) /\ A \cup B = T /\ A \cap B = {} /\ S \cap A = {}
      /\ S \cup A = S \cup T
  BY FS_Subset
<1>2. \A x \in S \cup T : f[x] \in Int
  OBVIOUS
<1>3. SumFunctionOnSet(f, S \cup A) = SumFunctionOnSet(f, S) + SumFunctionOnSet(f, A)
  BY <1>1, <1>2, SumUnion
<1>4. SumFunctionOnSet(f, A \cup B) = SumFunctionOnSet(f, A) + SumFunctionOnSet(f, B)
  BY <1>1, <1>2, SumUnion
<1>5. /\ SumFunctionOnSet(f, A) \in Nat /\ SumFunctionOnSet(f, B) \in Nat
      /\ SumFunctionOnSet(f, S) \in Nat
  BY <1>1, SumType
<1>6. SumFunctionOnSet(f, A \cup B) = SumFunctionOnSet(f, T) BY <1>1
<1>7. SumFunctionOnSet(f, S \cup A) = SumFunctionOnSet(f, S \cup T) BY <1>1
<1> HIDE DEF A, B
<1> QED BY <1>3, <1>4, <1>5, <1>6, <1>7

\* The sum over sets without common elements is the sum of the sums over each.
LEMMA SumOfUnion ==
  ASSUME NEW F, NEW f, NEW g, NEW K, IsFiniteSet(K),
         \A k \in K : IsFiniteSet(F[k]) /\ g[k] = SumFunctionOnSet(f, F[k]),
         \A k \in K : \A x \in F[k] : f[x] \in Int,
         \A k, l \in K : k # l => F[k] \cap F[l] = {}
  PROVE  SumFunctionOnSet(f, UNION {F[k] : k \in K}) = SumFunctionOnSet(g, K)
<1> DEFINE all(s) == UNION {F[k] : k \in s}
           D == {s \in SUBSET K : /\ IsFiniteSet(all(s))
                                  /\ SumFunctionOnSet(f, all(s)) = SumFunctionOnSet(g, s)}
<1>1. \A k \in K : g[k] \in Int BY SumType
<1>2. {} \in D
  <2>1. all({}) = {} OBVIOUS
  <2> QED BY <2>1, FS_EmptySet, SumEmpty
<1>3. ASSUME NEW s \in SUBSET K, NEW k \in K \ s, s \in D PROVE s \cup {k} \in D
  <2>1. all(s \cup {k}) = all(s) \cup F[k] /\ all(s) \cap F[k] = {} OBVIOUS
  <2>2. IsFiniteSet(s) /\ IsFiniteSet(all(s)) /\ IsFiniteSet(F[k]) BY <1>3, FS_Subset
  <2>3. SumFunctionOnSet(g, s \cup {k}) = g[k] + SumFunctionOnSet(g, s) BY <1>1, <2>2, SumAdd
  <2>4. \A x \in all(s) \cup F[k] : f[x] \in Int OBVIOUS
  <2>5. SumFunctionOnSet(f, all(s)) = SumFunctionOnSet(g, s) /\ g[k] = SumFunctionOnSet(f, F[k])
    BY <1>3
  <2> DEFINE A == all(s)
             B == F[k]
             C == all(s \cup {k})
  <2>6. C = A \cup B /\ A \cap B = {} /\ IsFiniteSet(A) /\ IsFiniteSet(B) BY <2>1, <2>2
  <2>7. SumFunctionOnSet(f, A) = SumFunctionOnSet(g, s) /\ g[k] = SumFunctionOnSet(f, B) BY <2>5
  <2>8. \A x \in A \cup B : f[x] \in Int BY <2>4
  <2> HIDE DEF A, B, C
  <2>9. IsFiniteSet(C) BY <2>6, FS_Union
  <2>10. SumFunctionOnSet(f, A \cup B) = SumFunctionOnSet(f, A) + SumFunctionOnSet(f, B)
    BY <2>6, <2>8, SumUnion
  <2>11. SumFunctionOnSet(f, A) \in Int /\ SumFunctionOnSet(f, B) \in Int
    BY <2>6, <2>8, SumType
  <2>12. SumFunctionOnSet(f, C) = SumFunctionOnSet(g, s \cup {k})
    BY <2>3, <2>6, <2>7, <2>10, <2>11
  <2> QED BY <2>9, <2>12 DEF C
<1> HIDE DEF D
<1>4. K \in D BY <1>2, <1>3, FiniteInduction
<1> QED BY <1>4 DEF D

\* The sum of two functions' sums is that of their values.
LEMMA SumPlus ==
  ASSUME NEW f, NEW g, NEW h, NEW S, IsFiniteSet(S),
         \A x \in S : f[x] \in Int /\ g[x] \in Int /\ h[x] = f[x] + g[x]
  PROVE  SumFunctionOnSet(h, S) = SumFunctionOnSet(f, S) + SumFunctionOnSet(g, S)
<1> DEFINE D == {s \in SUBSET S :
                   SumFunctionOnSet(h, s) = SumFunctionOnSet(f, s) + SumFunctionOnSet(g, s)}
<1>1. {} \in D BY SumEmpty
<1>2. ASSUME NEW s \in SUBSET S, NEW x \in S \ s, s \in D PROVE s \cup {x} \in D
  <2>1. IsFiniteSet(s) BY FS_Subset
  <2>2. \A y \in S : h[y] \in Int OBVIOUS
  <2>3. /\ SumFunctionOnSet(f, s \cup {x}) = f[x] + SumFunctionOnSet(f, s)
        /\ SumFunctionOnSet(g, s \cup {x}) = g[x] + SumFunctionOnSet(g, s)
        /\ SumFunctionOnSet(h, s \cup {x}) = h[x] + SumFunctionOnSet(h, s)
    BY <2>1, <2>2, SumAdd
  <2>4. SumFunctionOnSet(f, s) \in Int /\ SumFunctionOnSet(g, s) \in Int
    BY <2>1, SumType
  <2> QED BY <1>2, <2>3, <2>4
<1> HIDE DEF D
<1>3. S \in D BY <1>1, <1>2, FiniteInduction
<1> QED BY <1>3 DEF D

\* Smaller values have a smaller sum.
LEMMA SumLeq ==
  ASSUME NEW f, NEW g, NEW S, IsFiniteSet(S),
         \A x \in S : f[x] \in Int /\ g[x] \in Int /\ f[x] <= g[x]
  PROVE  SumFunctionOnSet(f, S) <= SumFunctionOnSet(g, S)
<1> DEFINE D == {s \in SUBSET S : SumFunctionOnSet(f, s) <= SumFunctionOnSet(g, s)}
<1>1. {} \in D BY SumEmpty
<1>2. ASSUME NEW s \in SUBSET S, NEW x \in S \ s, s \in D PROVE s \cup {x} \in D
  <2>1. IsFiniteSet(s) BY FS_Subset
  <2>2. /\ SumFunctionOnSet(f, s \cup {x}) = f[x] + SumFunctionOnSet(f, s)
        /\ SumFunctionOnSet(g, s \cup {x}) = g[x] + SumFunctionOnSet(g, s)
    BY <2>1, SumAdd
  <2>3. SumFunctionOnSet(f, s) \in Int /\ SumFunctionOnSet(g, s) \in Int
    BY <2>1, SumType
  <2> QED BY <1>2, <2>2, <2>3
<1> HIDE DEF D
<1>3. S \in D BY <1>1, <1>2, FiniteInduction
<1> QED BY <1>3 DEF D

\* Equal values add up to their number times one of them.
LEMMA SumConst ==
  ASSUME NEW f, NEW S, IsFiniteSet(S), NEW k \in Int, \A x \in S : f[x] = k
  PROVE  SumFunctionOnSet(f, S) = k * Cardinality(S)
<1> DEFINE D == {s \in SUBSET S : SumFunctionOnSet(f, s) = k * Cardinality(s)}
<1>1. {} \in D BY SumEmpty, FS_EmptySet
<1>2. ASSUME NEW s \in SUBSET S, NEW x \in S \ s, s \in D PROVE s \cup {x} \in D
  <2>1. IsFiniteSet(s) BY FS_Subset
  <2>2. SumFunctionOnSet(f, s \cup {x}) = f[x] + SumFunctionOnSet(f, s)
    BY <2>1, SumAdd
  <2>3. Cardinality(s) \in Nat /\ Cardinality(s \cup {x}) = Cardinality(s) + 1
    BY <2>1, FS_CardinalityType, FS_AddElement
  <2>4. k * (Cardinality(s) + 1) = k + k * Cardinality(s)
    BY <2>3
  <2> QED BY <1>2, <2>2, <2>3, <2>4
<1> HIDE DEF D
<1>3. S \in D BY <1>1, <1>2, FiniteInduction
<1> QED BY <1>3 DEF D

-----------------------------------------------------------------------------
(* How many elements there are. *)

\* The values of a function are as many as its arguments if no two are equal.
LEMMA CardOfImage ==
  ASSUME NEW f, NEW S, IsFiniteSet(S)
  PROVE  LET T == {f[x] : x \in S} IN
         /\ IsFiniteSet(T)
         /\ (\A x, y \in S : f[x] = f[y] => x = y) => Cardinality(T) = Cardinality(S)
<1> DEFINE im(s) == {f[x] : x \in s}
           Inj == \A x, y \in S : f[x] = f[y] => x = y
           D == {s \in SUBSET S : IsFiniteSet(im(s)) /\ (Inj => Cardinality(im(s)) = Cardinality(s))}
<1>1. {} \in D
  <2>1. im({}) = {} OBVIOUS
  <2> QED BY <2>1, FS_EmptySet
<1>2. ASSUME NEW s \in SUBSET S, NEW x \in S \ s, s \in D PROVE s \cup {x} \in D
  <2>1. im(s \cup {x}) = im(s) \cup {f[x]} OBVIOUS
  <2>2. IsFiniteSet(s) /\ IsFiniteSet(im(s)) BY <1>2, FS_Subset
  <2>3. /\ IsFiniteSet(im(s) \cup {f[x]})
        /\ Cardinality(im(s) \cup {f[x]}) =
             IF f[x] \in im(s) THEN Cardinality(im(s)) ELSE Cardinality(im(s)) + 1
    <3> HIDE DEF im
    <3> QED BY <2>2, FS_AddElement
  <2>4. ASSUME Inj PROVE Cardinality(im(s \cup {x})) = Cardinality(s \cup {x})
    <3>1. f[x] \notin im(s) BY <2>4
    <3>2. Cardinality(im(s)) = Cardinality(s) BY <1>2, <2>4
    <3>3. Cardinality(s \cup {x}) = Cardinality(s) + 1 BY <2>2, FS_AddElement
    <3> HIDE DEF im
    <3> QED BY <2>1, <2>3, <3>1, <3>2, <3>3
  <2> QED BY <2>1, <2>3, <2>4
<1> HIDE DEF D
<1>3. S \in D BY <1>1, <1>2, FiniteInduction
<1> QED BY <1>3 DEF D

\* Sets without common elements have together as many as the sum of their numbers.
LEMMA CardOfUnion ==
  ASSUME NEW F, NEW g, NEW K, IsFiniteSet(K),
         \A k \in K : IsFiniteSet(F[k]) /\ g[k] = Cardinality(F[k]),
         \A k, l \in K : k # l => F[k] \cap F[l] = {}
  PROVE  /\ IsFiniteSet(UNION {F[k] : k \in K})
         /\ Cardinality(UNION {F[k] : k \in K}) = SumFunctionOnSet(g, K)
<1> DEFINE all(s) == UNION {F[k] : k \in s}
           D == {s \in SUBSET K : /\ IsFiniteSet(all(s))
                                  /\ Cardinality(all(s)) = SumFunctionOnSet(g, s)}
<1>1. \A k \in K : g[k] \in Int BY FS_CardinalityType
<1>2. {} \in D
  <2>1. all({}) = {} OBVIOUS
  <2> QED BY <2>1, FS_EmptySet, SumEmpty
<1>3. ASSUME NEW s \in SUBSET K, NEW k \in K \ s, s \in D PROVE s \cup {k} \in D
  <2>1. all(s \cup {k}) = all(s) \cup F[k] /\ all(s) \cap F[k] = {} OBVIOUS
  <2>2. IsFiniteSet(s) /\ IsFiniteSet(all(s)) /\ IsFiniteSet(F[k]) BY <1>3, FS_Subset
  <2>3. SumFunctionOnSet(g, s \cup {k}) = g[k] + SumFunctionOnSet(g, s) BY <1>1, <2>2, SumAdd
  <2>4. /\ Cardinality(all(s)) = SumFunctionOnSet(g, s) /\ g[k] = Cardinality(F[k])
        /\ Cardinality(all(s)) \in Nat /\ Cardinality(F[k]) \in Nat
    BY <1>3, <2>2, FS_CardinalityType
  <2> HIDE DEF all
  <2>5. /\ IsFiniteSet(all(s \cup {k}))
        /\ Cardinality(all(s \cup {k})) = Cardinality(all(s)) + Cardinality(F[k])
    <3>1. Cardinality(all(s) \cap F[k]) = 0 BY <2>1, FS_EmptySet
    <3> DEFINE A == all(s)
               B == F[k]
    <3>2. IsFiniteSet(A) /\ IsFiniteSet(B) BY <2>2
    <3> HIDE DEF A, B
    <3>3. IsFiniteSet(A \cup B) /\ Cardinality(A \cup B) = Cardinality(A) + Cardinality(B) - Cardinality(A \cap B)
      BY <3>2, FS_Union
    <3>4. all(s \cup {k}) = A \cup B BY <2>1 DEF A, B
    <3>5. Cardinality(A \cap B) = 0 BY <3>1 DEF A, B
    <3>6. Cardinality(A) \in Nat /\ Cardinality(B) \in Nat BY <3>2, FS_CardinalityType
    <3>7. Cardinality(A \cup B) = Cardinality(A) + Cardinality(B) BY <3>3, <3>5, <3>6
    <3>8. IsFiniteSet(all(s \cup {k})) BY <3>3, <3>4, Zenon
    <3>9. Cardinality(all(s \cup {k})) = Cardinality(A) + Cardinality(B) BY <3>4, <3>7, Zenon
    <3> QED BY <3>8, <3>9 DEF A, B
  <2>6. Cardinality(all(s \cup {k})) = SumFunctionOnSet(g, s \cup {k})
    BY <2>3, <2>4, <2>5
  <2> QED BY <2>5, <2>6
<1> HIDE DEF D
<1>4. K \in D BY <1>2, <1>3, FiniteInduction
<1> QED BY <1>4 DEF D

\* Sets with at most so many elements each have together at most the sum of these.
LEMMA CardOfUnionLeq ==
  ASSUME NEW F, NEW g, NEW K, IsFiniteSet(K),
         \A k \in K : IsFiniteSet(F[k]) /\ g[k] \in Nat /\ Cardinality(F[k]) <= g[k]
  PROVE  /\ IsFiniteSet(UNION {F[k] : k \in K})
         /\ Cardinality(UNION {F[k] : k \in K}) <= SumFunctionOnSet(g, K)
<1> DEFINE all(s) == UNION {F[k] : k \in s}
           D == {s \in SUBSET K : /\ IsFiniteSet(all(s))
                                  /\ Cardinality(all(s)) <= SumFunctionOnSet(g, s)}
<1>1. {} \in D
  <2>1. all({}) = {} OBVIOUS
  <2> QED BY <2>1, FS_EmptySet, SumEmpty
<1>2. ASSUME NEW s \in SUBSET K, NEW k \in K \ s, s \in D PROVE s \cup {k} \in D
  <2>1. all(s \cup {k}) = all(s) \cup F[k] OBVIOUS
  <2>2. IsFiniteSet(s) /\ IsFiniteSet(all(s)) /\ IsFiniteSet(F[k]) BY <1>2, FS_Subset
  <2>3. \A x \in K : g[x] \in Int OBVIOUS
  <2>4. SumFunctionOnSet(g, s \cup {k}) = g[k] + SumFunctionOnSet(g, s) BY <2>2, <2>3, SumAdd
  <2>5. /\ Cardinality(all(s)) <= SumFunctionOnSet(g, s) /\ SumFunctionOnSet(g, s) \in Int
        /\ g[k] \in Nat /\ Cardinality(F[k]) <= g[k]
    BY <1>2, <2>2, <2>3, SumType
  <2> DEFINE A == all(s)
             B == F[k]
  <2>6. IsFiniteSet(A) /\ IsFiniteSet(B) BY <2>2
  <2> HIDE DEF A, B
  <2>7. /\ IsFiniteSet(A \cup B)
        /\ Cardinality(A \cup B) = Cardinality(A) + Cardinality(B) - Cardinality(A \cap B)
    BY <2>6, FS_Union
  <2>8. Cardinality(A) \in Nat /\ Cardinality(B) \in Nat /\ Cardinality(A \cap B) \in Nat
    <3>1. IsFiniteSet(A \cap B) BY <2>6, FS_Subset
    <3> QED BY <2>6, <3>1, FS_CardinalityType
  <2>9. Cardinality(A) <= SumFunctionOnSet(g, s) /\ Cardinality(B) <= g[k]
    BY <2>5 DEF A, B
  <2>10. Cardinality(A \cup B) <= SumFunctionOnSet(g, s \cup {k})
    BY <2>4, <2>5, <2>7, <2>8, <2>9
  <2>11. all(s \cup {k}) = A \cup B BY <2>1 DEF A, B
  <2> HIDE DEF all
  <2>12. IsFiniteSet(all(s \cup {k})) /\ Cardinality(all(s \cup {k})) <= SumFunctionOnSet(g, s \cup {k})
    BY <2>7, <2>10, <2>11
  <2> QED BY <2>12 DEF all
<1> HIDE DEF D
<1>3. K \in D BY <1>1, <1>2, FiniteInduction
<1> QED BY <1>3 DEF D
=============================================================================
