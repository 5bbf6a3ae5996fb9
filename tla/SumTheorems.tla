----------------------------- MODULE SumTheorems -----------------------------
(***************************************************************************)
(* What SumFunctionOnSet computes over a finite set. The models add up     *)
(* budgets, balances and obligations with it. Its recursive definition is  *)
(* reached by induction over the subsets of a finite set, stated for a set *)
(* of subsets instead of a predicate.                                      *)
(***************************************************************************)
EXTENDS Integers, FiniteSets, Functions, FiniteSetTheorems, TLAPS

\* g adds up f over every subset of S.
AddsUp(g, f, S) ==
  /\ g \in [SUBSET S -> Int]
  /\ g[{}] = 0
  /\ \A T \in SUBSET S : \A x \in S \ T : g[T \cup {x}] = f[x] + g[T]

\* The recursion equation of the sum.
Unrolled(h, f, S) ==
  h = [T \in SUBSET S |->
         IF T = {} THEN 0
         ELSE f[CHOOSE x \in T : TRUE] + h[T \ {CHOOSE x \in T : TRUE}]]

\* Induction over the finite subsets of a set, as a statement about sets.
LEMMA SubsetInduction ==
  ASSUME NEW S, IsFiniteSet(S), NEW Good \in SUBSET (SUBSET S),
         \A T \in SUBSET S : (\A x \in T : T \ {x} \in Good) => T \in Good
  PROVE  Good = SUBSET S
<1> SUFFICES ASSUME Good # SUBSET S
             PROVE  FALSE
  OBVIOUS
<1> DEFINE Bad == (SUBSET S) \ Good
<1>1. Bad # {} /\ Bad \subseteq SUBSET S
  OBVIOUS
<1>2. IsWellFoundedOn(StrictSubsetOrdering(S), SUBSET S)
  <2>1. IsWellFoundedOn(StrictSubsetOrdering(S), FiniteSubsetsOf(S))
    BY FS_StrictSubsetOrderingWellFounded, Zenon
  <2>2. FiniteSubsetsOf(S) = SUBSET S
    BY FS_FiniteSubsetsOfFinite, Zenon
  <2> QED
    BY <2>1, <2>2, Zenon
<1>3. PICK T \in Bad : \A U \in Bad : ~(<<U, T>> \in StrictSubsetOrdering(S))
  <2> HIDE DEF Bad
  <2> QED
    BY <1>1, <1>2, WFMin, Zenon
<1>4. \A x \in T : T \ {x} \in Good
  <2> SUFFICES ASSUME NEW x \in T, T \ {x} \notin Good
               PROVE  FALSE
    OBVIOUS
  <2>1. T \ {x} \in Bad
    OBVIOUS
  <2>2. <<T \ {x}, T>> \in StrictSubsetOrdering(S)
    BY <2>1 DEF StrictSubsetOrdering
  <2> QED
    BY <2>1, <2>2, <1>3
<1> QED
  BY <1>4

\* There is a function that adds up.
LEMMA SumExists ==
  ASSUME NEW S, IsFiniteSet(S), NEW f \in [S -> Int]
  PROVE  \E g : AddsUp(g, f, S)
<1> DEFINE Good == {T \in SUBSET S : \E g : AddsUp(g, f, T)}
<1>1. ASSUME NEW T \in SUBSET S, \A x \in T : T \ {x} \in Good
      PROVE  T \in Good
  <2>1. CASE T = {}
    <3> DEFINE g == [U \in SUBSET T |-> 0]
    <3>1. AddsUp(g, f, T)
      BY <2>1 DEF AddsUp
    <3> QED
      BY <3>1
  <2>2. CASE T # {}
    <3>1. PICK x \in T : TRUE
      BY <2>2
    <3> DEFINE R == T \ {x}
    <3>2. PICK g : AddsUp(g, f, R)
      BY <1>1, <3>1
    <3> DEFINE h == [U \in SUBSET T |-> IF x \in U THEN f[x] + g[U \ {x}] ELSE g[U]]
    <3>3. \A U \in SUBSET T : U \ {x} \in SUBSET R /\ (x \notin U => U \in SUBSET R)
      OBVIOUS
    <3>4. h \in [SUBSET T -> Int]
      BY <3>2, <3>3 DEF AddsUp
    <3>5. h[{}] = 0
      BY <3>2 DEF AddsUp
    <3>6. ASSUME NEW U \in SUBSET T, NEW y \in T \ U
          PROVE  h[U \cup {y}] = f[y] + h[U]
      <4>1. CASE y = x
        <5>1. (U \cup {y}) \ {x} = U
          BY <4>1
        <5> QED
          BY <4>1, <5>1, <3>4
      <4>2. CASE y # x /\ x \notin U
        BY <4>2, <3>2, <3>3, <3>4 DEF AddsUp
      <4>3. CASE y # x /\ x \in U
        <5>1. (U \cup {y}) \ {x} = (U \ {x}) \cup {y}
          BY <4>3
        <5>2. g[(U \ {x}) \cup {y}] = f[y] + g[U \ {x}]
          BY <4>3, <3>2, <3>3 DEF AddsUp
        <5>3. g[U \ {x}] \in Int /\ f[x] \in Int /\ f[y] \in Int
          BY <3>2, <3>3 DEF AddsUp
        <5>4. h[U \cup {y}] = f[x] + g[(U \ {x}) \cup {y}]
          BY <4>3, <5>1
        <5>5. h[U] = f[x] + g[U \ {x}]
          BY <4>3
        <5> QED
          BY <5>2, <5>3, <5>4, <5>5
      <4> QED
        BY <4>1, <4>2, <4>3
    <3>7. AddsUp(h, f, T)
      <4> HIDE DEF h
      <4> QED
        BY <3>4, <3>5, <3>6 DEF AddsUp
    <3> QED
      BY <3>7
  <2> QED
    BY <2>1, <2>2
<1>2. Good = SUBSET S
  <2>1. Good \in SUBSET (SUBSET S)
    OBVIOUS
  <2> HIDE DEF Good
  <2> QED
    BY <1>1, <2>1, SubsetInduction
<1> QED
  BY <1>2

\* The recursion equation has one solution, the function that adds up.
LEMMA SumUnrolls ==
  ASSUME NEW S, IsFiniteSet(S), NEW f \in [S -> Int], NEW g, AddsUp(g, f, S)
  PROVE  Unrolled(g, f, S)
<1>1. ASSUME NEW T \in SUBSET S, T # {}
      PROVE  g[T] = f[CHOOSE x \in T : TRUE] + g[T \ {CHOOSE x \in T : TRUE}]
  <2>1. (CHOOSE x \in T : TRUE) \in T
    BY <1>1
  <2> DEFINE x == CHOOSE y \in T : TRUE
  <2>2. T = (T \ {x}) \cup {x} /\ x \in S \ (T \ {x}) /\ T \ {x} \in SUBSET S
    BY <2>1
  <2> QED
    BY <2>2 DEF AddsUp
<1> QED
  BY <1>1 DEF AddsUp, Unrolled

\* The recursive definition of the sum is the function that adds up.
LEMMA SumUnique ==
  ASSUME NEW S, IsFiniteSet(S), NEW f \in [S -> Int], NEW g, AddsUp(g, f, S),
         NEW h, Unrolled(h, f, S)
  PROVE  h[S] = g[S]
<1> DEFINE Good == {T \in SUBSET S : h[T] = g[T]}
<1>1. ASSUME NEW T \in SUBSET S, \A x \in T : T \ {x} \in Good
      PROVE  T \in Good
  <2>1. CASE T = {}
    BY <2>1 DEF AddsUp, Unrolled
  <2>2. CASE T # {}
    <3>1. (CHOOSE x \in T : TRUE) \in T
      BY <2>2
    <3>2. g[T] = f[CHOOSE x \in T : TRUE] + g[T \ {CHOOSE x \in T : TRUE}]
      <4>1. Unrolled(g, f, S)
        BY SumUnrolls
      <4> QED
        BY <2>2, <4>1 DEF Unrolled
    <3>3. h[T] = f[CHOOSE x \in T : TRUE] + h[T \ {CHOOSE x \in T : TRUE}]
      BY <2>2 DEF Unrolled
    <3> QED
      BY <1>1, <3>1, <3>2, <3>3
  <2> QED
    BY <2>1, <2>2
<1>2. Good = SUBSET S
  <2>1. Good \in SUBSET (SUBSET S)
    OBVIOUS
  <2> HIDE DEF Good
  <2> QED
    BY <1>1, <2>1, SubsetInduction
<1> QED
  BY <1>2

\* SumFunctionOnSet is that function, on every subset.
LEMMA SumAddsUp ==
  ASSUME NEW S, IsFiniteSet(S), NEW f \in [S -> Int]
  PROVE  \E g : AddsUp(g, f, S) /\ \A T \in SUBSET S : g[T] = SumFunctionOnSet(f, T)
<1>1. PICK g : AddsUp(g, f, S)
  BY SumExists
<1>2. ASSUME NEW T \in SUBSET S
      PROVE  g[T] = SumFunctionOnSet(f, T)
  <2> DEFINE gT == [U \in SUBSET T |-> g[U]]
             fT == [x \in T |-> f[x]]
  <2>1. AddsUp(gT, fT, T) /\ IsFiniteSet(T) /\ fT \in [T -> Int]
    BY <1>1, FS_Subset DEF AddsUp
  <2>2. Unrolled(gT, fT, T)
    <3> HIDE DEF gT, fT
    <3> QED
      BY <2>1, SumUnrolls
  <2>3. gT = [U \in SUBSET T |->
         IF U = {} THEN 0
         ELSE f[CHOOSE x \in U : TRUE] + gT[U \ {CHOOSE x \in U : TRUE}]]
    BY <2>2 DEF Unrolled
  <2> DEFINE h == CHOOSE i : i = [U \in SUBSET T |->
         IF U = {} THEN 0
         ELSE f[CHOOSE x \in U : TRUE] + i[U \ {CHOOSE x \in U : TRUE}]]
  <2>4. h = [U \in SUBSET T |->
         IF U = {} THEN 0
         ELSE f[CHOOSE x \in U : TRUE] + h[U \ {CHOOSE x \in U : TRUE}]]
    <3> HIDE DEF gT
    <3> QED
      BY <2>3
  <2>5. Unrolled(h, fT, T)
    <3> HIDE DEF h
    <3> QED
      BY <2>4 DEF Unrolled
  <2>6. h[T] = gT[T]
    <3> HIDE DEF h, gT, fT
    <3> QED
      BY <2>1, <2>5, SumUnique
  <2>7. SumFunctionOnSet(f, T) = h[T]
    BY DEF SumFunctionOnSet, FoldFunctionOnSet, MapThenFoldSet
  <2> QED
    BY <2>6, <2>7
<1> QED
  BY <1>1, <1>2

-----------------------------------------------------------------------------
\* The sum over no element is 0.
LEMMA SumEmpty ==
  ASSUME NEW S, IsFiniteSet(S), NEW f \in [S -> Int]
  PROVE  SumFunctionOnSet(f, {}) = 0
<1>1. PICK g : AddsUp(g, f, S) /\ \A T \in SUBSET S : g[T] = SumFunctionOnSet(f, T)
  BY SumAddsUp
<1> QED
  BY <1>1 DEF AddsUp

\* A sum of integers is an integer.
LEMMA SumType ==
  ASSUME NEW S, IsFiniteSet(S), NEW f \in [S -> Int], NEW T \in SUBSET S
  PROVE  SumFunctionOnSet(f, T) \in Int
<1>1. PICK g : AddsUp(g, f, S) /\ \A U \in SUBSET S : g[U] = SumFunctionOnSet(f, U)
  BY SumAddsUp
<1> QED
  BY <1>1 DEF AddsUp

\* One element more adds its value.
LEMMA SumAdd ==
  ASSUME NEW S, IsFiniteSet(S), NEW f \in [S -> Int], NEW T \in SUBSET S, NEW x \in S \ T
  PROVE  SumFunctionOnSet(f, T \cup {x}) = f[x] + SumFunctionOnSet(f, T)
<1>1. PICK g : AddsUp(g, f, S) /\ \A U \in SUBSET S : g[U] = SumFunctionOnSet(f, U)
  BY SumAddsUp
<1> QED
  BY <1>1 DEF AddsUp

\* One element less subtracts it.
LEMMA SumRemove ==
  ASSUME NEW S, IsFiniteSet(S), NEW f \in [S -> Int], NEW T \in SUBSET S, NEW x \in T
  PROVE  SumFunctionOnSet(f, T) = f[x] + SumFunctionOnSet(f, T \ {x})
<1>1. T \ {x} \in SUBSET S /\ x \in S \ (T \ {x}) /\ (T \ {x}) \cup {x} = T
  OBVIOUS
<1> QED
  BY <1>1, SumAdd

\* Functions that agree on T have the same sum over T, and a function that is
\* nowhere larger on T no larger a sum.
LEMMA SumCompare ==
  ASSUME NEW S, IsFiniteSet(S), NEW f \in [S -> Int],
         NEW R, IsFiniteSet(R), NEW h \in [R -> Int],
         NEW T, T \subseteq S, T \subseteq R, \A x \in T : f[x] <= h[x]
  PROVE  SumFunctionOnSet(f, T) <= SumFunctionOnSet(h, T)
<1> DEFINE Good == {U \in SUBSET T : SumFunctionOnSet(f, U) <= SumFunctionOnSet(h, U)}
<1>1. ASSUME NEW U \in SUBSET T, \A x \in U : U \ {x} \in Good
      PROVE  U \in Good
  <2>1. CASE U = {}
    BY <2>1, SumEmpty
  <2>2. ASSUME NEW x \in U
        PROVE  U \in Good
    <3>1. SumFunctionOnSet(f, U) = f[x] + SumFunctionOnSet(f, U \ {x})
      BY SumRemove
    <3>2. SumFunctionOnSet(h, U) = h[x] + SumFunctionOnSet(h, U \ {x})
      BY SumRemove
    <3>3. /\ SumFunctionOnSet(f, U \ {x}) \in Int
          /\ SumFunctionOnSet(h, U \ {x}) \in Int
      BY SumType
    <3>4. SumFunctionOnSet(f, U \ {x}) <= SumFunctionOnSet(h, U \ {x})
      BY <1>1
    <3>5. f[x] \in Int /\ h[x] \in Int /\ f[x] <= h[x]
      OBVIOUS
    <3> QED
      BY <3>1, <3>2, <3>3, <3>4, <3>5
  <2> QED
    BY <2>1, <2>2
<1>2. Good = SUBSET T
  <2>1. Good \in SUBSET (SUBSET T) /\ IsFiniteSet(T)
    BY FS_Subset
  <2> HIDE DEF Good
  <2> QED
    BY <1>1, <2>1, SubsetInduction
<1> QED
  BY <1>2

\* Functions that agree on a set have the same sum over it.
LEMMA SumAgree ==
  ASSUME NEW S, IsFiniteSet(S), NEW f \in [S -> Int],
         NEW R, IsFiniteSet(R), NEW h \in [R -> Int],
         NEW T, T \subseteq S, T \subseteq R, \A x \in T : f[x] = h[x]
  PROVE  SumFunctionOnSet(f, T) = SumFunctionOnSet(h, T)
<1>1. \A x \in T : f[x] <= h[x] /\ h[x] <= f[x]
  OBVIOUS
<1>2. SumFunctionOnSet(f, T) <= SumFunctionOnSet(h, T)
  BY <1>1, SumCompare
<1>3. SumFunctionOnSet(h, T) <= SumFunctionOnSet(f, T)
  BY <1>1, SumCompare
<1>4. SumFunctionOnSet(f, T) \in Int /\ SumFunctionOnSet(h, T) \in Int
  BY SumType
<1> QED
  BY <1>2, <1>3, <1>4

\* Sums of natural numbers grow with the set.
LEMMA SumMonotone ==
  ASSUME NEW S, IsFiniteSet(S), NEW f \in [S -> Nat],
         NEW T \in SUBSET S, NEW R \in SUBSET T
  PROVE  /\ SumFunctionOnSet(f, R) \in Nat
         /\ SumFunctionOnSet(f, R) <= SumFunctionOnSet(f, T)
<1>0. f \in [S -> Int]
  OBVIOUS
<1> DEFINE Good == {U \in SUBSET T : \A V \in SUBSET U :
                      /\ SumFunctionOnSet(f, V) \in Nat
                      /\ SumFunctionOnSet(f, V) <= SumFunctionOnSet(f, U)}
<1>1. ASSUME NEW U \in SUBSET T, \A x \in U : U \ {x} \in Good
      PROVE  U \in Good
  <2> SUFFICES ASSUME NEW V \in SUBSET U
               PROVE  /\ SumFunctionOnSet(f, V) \in Nat
                      /\ SumFunctionOnSet(f, V) <= SumFunctionOnSet(f, U)
    OBVIOUS
  <2>1. CASE U = {}
    BY <2>1, <1>0, SumEmpty
  <2>2. ASSUME NEW x \in U
        PROVE  /\ SumFunctionOnSet(f, V) \in Nat
               /\ SumFunctionOnSet(f, V) <= SumFunctionOnSet(f, U)
    <3>1. SumFunctionOnSet(f, U) = f[x] + SumFunctionOnSet(f, U \ {x})
      BY <1>0, SumRemove
    <3>2. /\ SumFunctionOnSet(f, U \ {x}) \in Nat
          /\ x \notin V => /\ SumFunctionOnSet(f, V) \in Nat
                          /\ SumFunctionOnSet(f, V) <= SumFunctionOnSet(f, U \ {x})
          /\ x \in V => /\ SumFunctionOnSet(f, V \ {x}) \in Nat
                        /\ SumFunctionOnSet(f, V \ {x}) <= SumFunctionOnSet(f, U \ {x})
      <4>1. /\ U \ {x} \in Good /\ U \ {x} \in SUBSET (U \ {x}) /\ V \ {x} \in SUBSET (U \ {x})
            /\ x \notin V => V \in SUBSET (U \ {x})
        BY <1>1
      <4> QED
        BY <4>1
    <3>3. x \in V => SumFunctionOnSet(f, V) = f[x] + SumFunctionOnSet(f, V \ {x})
      BY <1>0, SumRemove
    <3>4. f[x] \in Nat
      OBVIOUS
    <3> QED
      BY <3>1, <3>2, <3>3, <3>4
  <2> QED
    BY <2>1, <2>2
<1>2. Good = SUBSET T
  <2>1. Good \in SUBSET (SUBSET T) /\ IsFiniteSet(T)
    BY FS_Subset
  <2> HIDE DEF Good
  <2> QED
    BY <1>1, <2>1, SubsetInduction
<1> QED
  BY <1>2

\* The sum over two disjoint sets is the sum of their sums.
LEMMA SumUnion ==
  ASSUME NEW S, IsFiniteSet(S), NEW f \in [S -> Int],
         NEW T \in SUBSET S, NEW R \in SUBSET S, T \cap R = {}
  PROVE  SumFunctionOnSet(f, T \cup R) = SumFunctionOnSet(f, T) + SumFunctionOnSet(f, R)
<1> DEFINE Good == {U \in SUBSET R : SumFunctionOnSet(f, T \cup U) =
                                       SumFunctionOnSet(f, T) + SumFunctionOnSet(f, U)}
<1>1. ASSUME NEW U \in SUBSET R, \A x \in U : U \ {x} \in Good
      PROVE  U \in Good
  <2>1. CASE U = {}
    <3>1. T \cup U = T /\ SumFunctionOnSet(f, U) = 0 /\ SumFunctionOnSet(f, T) \in Int
      BY <2>1, SumEmpty, SumType
    <3> QED
      BY <3>1
  <2>2. ASSUME NEW x \in U
        PROVE  U \in Good
    <3>1. (T \cup U) \ {x} = T \cup (U \ {x}) /\ T \cup U \in SUBSET S /\ U \in SUBSET S
          /\ x \in T \cup U
      OBVIOUS
    <3>2. SumFunctionOnSet(f, T \cup U) = f[x] + SumFunctionOnSet(f, T \cup (U \ {x}))
      BY <3>1, SumRemove
    <3>3. SumFunctionOnSet(f, U) = f[x] + SumFunctionOnSet(f, U \ {x})
      BY <3>1, SumRemove
    <3>4. SumFunctionOnSet(f, T \cup (U \ {x})) =
            SumFunctionOnSet(f, T) + SumFunctionOnSet(f, U \ {x})
      BY <1>1
    <3>5. SumFunctionOnSet(f, T) \in Int /\ SumFunctionOnSet(f, U \ {x}) \in Int /\ f[x] \in Int
      BY SumType
    <3> QED
      BY <3>2, <3>3, <3>4, <3>5
  <2> QED
    BY <2>1, <2>2
<1>2. Good = SUBSET R
  <2>1. Good \in SUBSET (SUBSET R) /\ IsFiniteSet(R)
    BY FS_Subset
  <2> HIDE DEF Good
  <2> QED
    BY <1>1, <2>1, SubsetInduction
<1> QED
  BY <1>2

\* Adding up through a one-to-one map adds up over its image.
LEMMA SumImage ==
  ASSUME NEW A, IsFiniteSet(A), NEW S, IsFiniteSet(S), NEW f \in [S -> Int],
         NEW g \in [A -> S], \A a, b \in A : g[a] = g[b] => a = b
  PROVE  SumFunctionOnSet([a \in A |-> f[g[a]]], A) = SumFunctionOnSet(f, {g[a] : a \in A})
<1> DEFINE h == [a \in A |-> f[g[a]]]
           Image(B) == {g[a] : a \in B}
           Good == {B \in SUBSET A : SumFunctionOnSet(h, B) = SumFunctionOnSet(f, Image(B))}
<1>0. h \in [A -> Int] /\ \A a \in A : h[a] = f[g[a]]
  OBVIOUS
<1>1. ASSUME NEW B \in SUBSET A, \A x \in B : B \ {x} \in Good
      PROVE  B \in Good
  <2>1. CASE B = {}
    <3>1. Image(B) = {}
      BY <2>1
    <3> HIDE DEF h
    <3>2. SumFunctionOnSet(h, B) = 0
      BY <1>0, <2>1, SumEmpty
    <3> QED
      BY <2>1, <3>1, <3>2, SumEmpty
  <2>2. ASSUME NEW x \in B
        PROVE  B \in Good
    <3>1. /\ Image(B) \in SUBSET S /\ g[x] \in Image(B)
          /\ Image(B) \ {g[x]} = Image(B \ {x})
      OBVIOUS
    <3>2. SumFunctionOnSet(h, B \ {x}) = SumFunctionOnSet(f, Image(B \ {x}))
      BY <1>1, <2>2
    <3> HIDE DEF h, Image
    <3>3. SumFunctionOnSet(h, B) = h[x] + SumFunctionOnSet(h, B \ {x})
      BY <1>0, SumRemove
    <3>4. SumFunctionOnSet(f, Image(B)) = f[g[x]] + SumFunctionOnSet(f, Image(B) \ {g[x]})
      BY <3>1, SumRemove
    <3> QED
      BY <1>0, <3>1, <3>2, <3>3, <3>4
  <2> QED
    BY <2>1, <2>2
<1>2. Good = SUBSET A
  <2>1. Good \in SUBSET (SUBSET A)
    OBVIOUS
  <2> HIDE DEF Good
  <2> QED
    BY <1>1, <2>1, SubsetInduction
<1>3. A \in Good
  BY <1>2
<1> QED
  BY <1>3
=============================================================================
