---------------------------- MODULE SumTheorems ----------------------------
(***************************************************************************)
(* Sums over finite sets.  MapThenSumSet is defined by a recursive         *)
(* function on the subsets of its argument; here are the facts about it    *)
(* that the invariants about ledgers need.  The summand is a function, so  *)
(* that the facts can be used without an operator as a parameter.          *)
(***************************************************************************)
EXTENDS Integers, FiniteSetsExt, FiniteSetTheorems, TLAPS

\* The element the recursion takes out of a set.
Pick(s) == CHOOSE x \in s : TRUE

\* The sum of g over S.
Sum(g, S) == MapThenSumSet(LAMBDA x : g[x], S)

\* f is the recursive function behind Sum(g, S).
Sums(g, S, f) == f = [s \in SUBSET S |-> IF s = {} THEN 0 ELSE g[Pick(s)] + f[s \ {Pick(s)}]]

\* It takes an element of the set.
LEMMA PickInSet == ASSUME NEW s, s # {} PROVE Pick(s) \in s
  BY DEF Pick

\* Induction on the subsets of a finite set, by what would be a smallest counterexample.
LEMMA SubsetInduction ==
  ASSUME NEW S, IsFiniteSet(S), NEW Good,
         \A T \in SUBSET S : (\A U \in SUBSET T : U # T => U \in Good) => T \in Good
  PROVE  \A T \in SUBSET S : T \in Good
  <1> DEFINE Bad == {T \in SUBSET S : T \notin Good}
  <1> SUFFICES ASSUME Bad # {} PROVE FALSE
    OBVIOUS
  <1>1. Bad \subseteq FiniteSubsetsOf(S)
    BY FS_FiniteSubsetsOfFinite
  <1>2. \E T \in Bad : \A U \in Bad : <<U, T>> \notin StrictSubsetOrdering(S)
    <2> HIDE DEF Bad
    <2> QED
      BY <1>1, WFMin, FS_StrictSubsetOrderingWellFounded
  <1>3. PICK T \in Bad : \A U \in Bad : <<U, T>> \notin StrictSubsetOrdering(S)
    BY <1>2
  <1>4. \A U \in SUBSET T : U # T => <<U, T>> \in StrictSubsetOrdering(S)
    BY DEF StrictSubsetOrdering
  <1>5. ASSUME NEW U \in SUBSET T, U # T PROVE U \in Good
    <2>1. U \in SUBSET S
      OBVIOUS
    <2>2. U \notin Bad
      BY <1>3, <1>4, <1>5
    <2>3. QED
      BY <2>1, <2>2
  <1>6. QED
    BY <1>5

\* What a solution of the recursion is, set by set.
LEMMA SumsAt ==
  ASSUME NEW g, NEW S, NEW f
  PROVE  Sums(g, S, f) <=>
           /\ f = [s \in SUBSET S |-> f[s]]
           /\ \A s \in SUBSET S : f[s] = IF s = {} THEN 0 ELSE g[Pick(s)] + f[s \ {Pick(s)}]
  BY DEF Sums

\* Two solutions agree, for summands that agree.
LEMMA SumsAgree ==
  ASSUME NEW S, IsFiniteSet(S), NEW g, NEW h, \A x \in S : g[x] = h[x],
         NEW A, NEW B, S \subseteq A, S \subseteq B,
         NEW e, Sums(g, A, e), NEW f, Sums(h, B, f)
  PROVE  \A s \in SUBSET S : e[s] = f[s]
  <1> DEFINE Good == {s \in SUBSET S : e[s] = f[s]}
  <1>1. ASSUME NEW T \in SUBSET S, \A U \in SUBSET T : U # T => U \in Good
        PROVE  T \in Good
    <2>1. e[T] = IF T = {} THEN 0 ELSE g[Pick(T)] + e[T \ {Pick(T)}]
      BY SumsAt
    <2>2. f[T] = IF T = {} THEN 0 ELSE h[Pick(T)] + f[T \ {Pick(T)}]
      BY SumsAt
    <2>3. CASE T = {}
      BY <2>1, <2>2, <2>3
    <2>4. CASE T # {}
      <3>1. Pick(T) \in T
        BY <2>4, PickInSet
      <3>2. g[Pick(T)] = h[Pick(T)]
        BY <3>1
      <3>3. e[T \ {Pick(T)}] = f[T \ {Pick(T)}]
        BY <3>1, <1>1
      <3>4. QED
        BY <2>1, <2>2, <2>4, <3>2, <3>3
    <2>5. QED
      BY <2>3, <2>4
  <1>2. \A s \in SUBSET S : s \in Good
    <2> HIDE DEF Good
    <2> QED
      BY <1>1, SubsetInduction
  <1>3. QED
    BY <1>2

\* There is a solution.
LEMMA SumsExists ==
  ASSUME NEW S, IsFiniteSet(S), NEW g
  PROVE  \E f : Sums(g, S, f)
  <1> DEFINE Good == {T \in SUBSET S : \E f : Sums(g, T, f)}
  <1>1. ASSUME NEW T \in SUBSET S, \A U \in SUBSET T : U # T => U \in Good
        PROVE  T \in Good
    <2> DEFINE Of(U) == CHOOSE f : Sums(g, U, f)
    <2> DEFINE Rest(s) == s \ {Pick(s)}
    <2> DEFINE Value(s) == IF s = {} THEN 0 ELSE g[Pick(s)] + Of(Rest(s))[Rest(s)]
    <2> DEFINE F == [s \in SUBSET T |-> Value(s)]
    <2>1. \A U \in SUBSET T : U # T => Sums(g, U, Of(U))
      BY <1>1
    <2>2. ASSUME NEW U \in SUBSET T, U # T, NEW V \in SUBSET U
          PROVE  Of(U)[V] = Of(V)[V]
      <3>1. Sums(g, U, Of(U)) /\ Sums(g, V, Of(V))
        BY <2>1, <2>2
      <3>2. IsFiniteSet(V)
        BY FS_Subset
      <3> HIDE DEF Of
      <3>3. QED
        BY <3>1, <3>2, SumsAgree
    <2>3. ASSUME NEW s \in SUBSET T, s # {}
          PROVE  F[Rest(s)] = Of(Rest(s))[Rest(s)]
      <3> DEFINE U == Rest(s)
      <3>1. Pick(s) \in s
        BY <2>3, PickInSet
      <3>2. U \in SUBSET T /\ U # T
        BY <3>1
      <3>3. Of(U)[U] = IF U = {} THEN 0 ELSE g[Pick(U)] + Of(U)[Rest(U)]
        <4>1. Sums(g, U, Of(U))
          BY <2>1, <3>2
        <4> HIDE DEF Of, U
        <4>2. QED
          BY <4>1, SumsAt
      <3>4. U # {} => Of(U)[Rest(U)] = Of(Rest(U))[Rest(U)]
        BY <2>2, <3>2
      <3>5. F[U] = Value(U)
        BY <3>2
      <3>6. QED
        BY <3>3, <3>4, <3>5
    <2>4. \A s \in SUBSET T : F[s] = IF s = {} THEN 0 ELSE g[Pick(s)] + F[Rest(s)]
      <3> SUFFICES ASSUME NEW s \in SUBSET T
                   PROVE  F[s] = IF s = {} THEN 0 ELSE g[Pick(s)] + F[Rest(s)]
        OBVIOUS
      <3>1. F[s] = Value(s)
        OBVIOUS
      <3>2. s # {} => F[Rest(s)] = Of(Rest(s))[Rest(s)]
        BY <2>3
      <3> HIDE DEF F, Of, Rest
      <3>3. QED
        BY <3>1, <3>2
    <2>5. F = [s \in SUBSET T |-> F[s]]
      OBVIOUS
    <2>6. Sums(g, T, F)
      <3> HIDE DEF F
      <3> QED
        BY <2>4, <2>5, SumsAt
    <2>7. QED
      BY <2>6
  <1>2. \A T \in SUBSET S : T \in Good
    <2> HIDE DEF Good
    <2> QED
      BY <1>1, SubsetInduction
  <1>3. QED
    BY <1>2

\* What MapThenSumSet computes satisfies the recursion.
LEMMA SumIsSolution ==
  ASSUME NEW g, NEW S, IsFiniteSet(S)
  PROVE  \E f : Sums(g, S, f) /\ Sum(g, S) = f[S]
  <1> DEFINE P(h) == h = [s \in SUBSET S |-> IF s = {} THEN 0 ELSE g[Pick(s)] + h[s \ {Pick(s)}]]
  <1>1. \A h : P(h) <=> Sums(g, S, h)
    BY DEF Sums
  <1>2. Sum(g, S) = (CHOOSE h : P(h))[S]
    BY Zenon DEF Sum, MapThenSumSet, MapThenFoldSet, Pick
  <1> HIDE DEF P
  <1>3. P(CHOOSE h : P(h))
    BY <1>1, SumsExists
  <1>4. QED
    BY <1>1, <1>2, <1>3

\* The sum of any set from any solution over a larger one.
LEMMA SumFrom ==
  ASSUME NEW g, NEW S, NEW T \in SUBSET S, IsFiniteSet(S), NEW f, Sums(g, S, f)
  PROVE  Sum(g, T) = f[T]
  <1>1. IsFiniteSet(T)
    BY FS_Subset
  <1>2. PICK e : Sums(g, T, e) /\ Sum(g, T) = e[T]
    BY <1>1, SumIsSolution
  <1>3. QED
    BY <1>1, <1>2, SumsAgree

\* Nothing adds up to 0.
LEMMA SumEmpty == ASSUME NEW g PROVE Sum(g, {}) = 0
  <1>1. IsFiniteSet({})
    BY FS_EmptySet
  <1>2. PICK f : Sums(g, {}, f) /\ Sum(g, {}) = f[{}]
    BY <1>1, SumIsSolution
  <1>3. QED
    BY <1>2, SumsAt

\* The sum depends on the summands in the set only.
LEMMA SumSame ==
  ASSUME NEW S, IsFiniteSet(S), NEW g, NEW h, \A x \in S : g[x] = h[x]
  PROVE  Sum(g, S) = Sum(h, S)
  <1>1. PICK e : Sums(g, S, e) /\ Sum(g, S) = e[S]
    BY SumIsSolution
  <1>2. PICK f : Sums(h, S, f) /\ Sum(h, S) = f[S]
    BY SumIsSolution
  <1>3. QED
    BY <1>1, <1>2, SumsAgree

\* Integers add up to an integer.
LEMMA SumType ==
  ASSUME NEW S, IsFiniteSet(S), NEW g, \A x \in S : g[x] \in Int
  PROVE  Sum(g, S) \in Int
  <1>1. PICK f : Sums(g, S, f) /\ Sum(g, S) = f[S]
    BY SumIsSolution
  <1> DEFINE Good == {T \in SUBSET S : f[T] \in Int}
  <1>2. ASSUME NEW T \in SUBSET S, \A U \in SUBSET T : U # T => U \in Good
        PROVE  T \in Good
    <2>1. f[T] = IF T = {} THEN 0 ELSE g[Pick(T)] + f[T \ {Pick(T)}]
      BY <1>1, SumsAt
    <2>2. CASE T = {}
      BY <2>1, <2>2
    <2>3. CASE T # {}
      <3>1. Pick(T) \in T
        BY <2>3, PickInSet
      <3>2. T \ {Pick(T)} \in Good
        BY <1>2, <3>1
      <3>3. QED
        BY <2>1, <2>3, <3>1, <3>2
    <2>4. QED
      BY <2>2, <2>3
  <1>3. \A T \in SUBSET S : T \in Good
    <2> HIDE DEF Good
    <2> QED
      BY <1>2, SubsetInduction
  <1>4. QED
    BY <1>1, <1>3

\* Any element can be taken out, not only the one the recursion takes.
LEMMA SumRemove ==
  ASSUME NEW S, IsFiniteSet(S), NEW g, \A x \in S : g[x] \in Int, NEW x \in S
  PROVE  Sum(g, S) = g[x] + Sum(g, S \ {x})
  <1>1. PICK f : Sums(g, S, f) /\ Sum(g, S) = f[S]
    BY SumIsSolution
  <1>2. \A T \in SUBSET S : f[T] \in Int
    <2> SUFFICES ASSUME NEW T \in SUBSET S PROVE f[T] \in Int
      OBVIOUS
    <2>1. IsFiniteSet(T) /\ \A y \in T : g[y] \in Int
      BY FS_Subset
    <2>2. QED
      BY <1>1, <2>1, SumFrom, SumType
  <1> DEFINE Good == {T \in SUBSET S : \A y \in T : f[T] = g[y] + f[T \ {y}]}
  <1>3. ASSUME NEW T \in SUBSET S, \A U \in SUBSET T : U # T => U \in Good
        PROVE  T \in Good
    <2> SUFFICES ASSUME NEW y \in T PROVE f[T] = g[y] + f[T \ {y}]
      OBVIOUS
    <2> DEFINE c == Pick(T)
    <2>1. c \in T
      BY PickInSet
    <2>2. f[T] = g[c] + f[T \ {c}]
      BY <1>1, SumsAt
    <2> HIDE DEF c
    <2>3. CASE c = y
      BY <2>2, <2>3
    <2>4. CASE c # y
      <3>1. f[T \ {c}] = g[y] + f[(T \ {c}) \ {y}]
        <4>1. T \ {c} \in Good
          BY <1>3, <2>1
        <4>2. QED
          BY <4>1, <2>4
      <3>2. f[T \ {y}] = g[c] + f[(T \ {y}) \ {c}]
        <4>1. T \ {y} \in Good
          BY <1>3
        <4>2. QED
          BY <4>1, <2>1, <2>4
      <3>3. f[(T \ {c}) \ {y}] = f[(T \ {y}) \ {c}]
        <4>1. (T \ {c}) \ {y} = (T \ {y}) \ {c}
          OBVIOUS
        <4>2. QED
          BY <4>1
      <3>4. g[c] \in Int /\ g[y] \in Int /\ f[(T \ {y}) \ {c}] \in Int
        BY <1>2, <2>1
      <3>5. QED
        BY <2>2, <3>1, <3>2, <3>3, <3>4
    <2>5. QED
      BY <2>3, <2>4
  <1>4. \A T \in SUBSET S : T \in Good
    <2> HIDE DEF Good
    <2> QED
      BY <1>3, SubsetInduction
  <1>5. f[S] = g[x] + f[S \ {x}]
    BY <1>4
  <1>6. Sum(g, S \ {x}) = f[S \ {x}]
    BY <1>1, SumFrom
  <1>7. QED
    BY <1>1, <1>5, <1>6

\* An element that is put in adds its summand.
LEMMA SumAdd ==
  ASSUME NEW S, IsFiniteSet(S), NEW x, x \notin S,
         NEW g, g[x] \in Int, \A y \in S : g[y] \in Int
  PROVE  Sum(g, S \cup {x}) = g[x] + Sum(g, S)
  <1>1. IsFiniteSet(S \cup {x})
    BY FS_AddElement
  <1>2. (S \cup {x}) \ {x} = S
    OBVIOUS
  <1>3. Sum(g, S \cup {x}) = g[x] + Sum(g, (S \cup {x}) \ {x})
    BY <1>1, SumRemove
  <1>4. QED
    BY <1>2, <1>3

\* One summand changes: so does the sum.
LEMMA SumChange ==
  ASSUME NEW S, IsFiniteSet(S), NEW x \in S,
         NEW g, NEW h, \A y \in S : g[y] \in Int /\ h[y] \in Int,
         \A y \in S : y # x => h[y] = g[y]
  PROVE  Sum(h, S) = Sum(g, S) - g[x] + h[x]
  <1>1. IsFiniteSet(S \ {x})
    BY FS_Subset
  <1>2. Sum(g, S) = g[x] + Sum(g, S \ {x}) /\ Sum(h, S) = h[x] + Sum(h, S \ {x})
    BY SumRemove
  <1>3. Sum(g, S \ {x}) = Sum(h, S \ {x})
    BY <1>1, SumSame
  <1>4. Sum(g, S \ {x}) \in Int
    BY <1>1, SumType
  <1>5. g[x] \in Int /\ h[x] \in Int
    OBVIOUS
  <1>6. QED
    BY <1>2, <1>3, <1>4, <1>5

\* Elements whose summand is 0 can be left out.
LEMMA SumSupport ==
  ASSUME NEW S, IsFiniteSet(S), NEW g, \A x \in S : g[x] \in Int,
         NEW T \in SUBSET S, \A x \in S \ T : g[x] = 0
  PROVE  Sum(g, S) = Sum(g, T)
  <1> DEFINE Good == {U \in SUBSET S : T \subseteq U => Sum(g, U) = Sum(g, T)}
  <1>1. ASSUME NEW U \in SUBSET S, \A V \in SUBSET U : V # U => V \in Good
        PROVE  U \in Good
    <2> SUFFICES ASSUME T \subseteq U, T # U PROVE Sum(g, U) = Sum(g, T)
      OBVIOUS
    <2>1. PICK x \in U : x \notin T
      OBVIOUS
    <2>2. IsFiniteSet(U) /\ IsFiniteSet(U \ {x})
      BY FS_Subset
    <2>3. Sum(g, U) = g[x] + Sum(g, U \ {x})
      BY <2>2, SumRemove
    <2>4. Sum(g, U \ {x}) = Sum(g, T)
      <3>1. U \ {x} \in Good
        BY <1>1, <2>1
      <3>2. QED
        BY <3>1, <2>1
    <2>5. g[x] = 0
      BY <2>1
    <2>6. Sum(g, U \ {x}) \in Int
      BY <2>2, SumType
    <2>7. QED
      BY <2>3, <2>4, <2>5, <2>6
  <1>2. \A U \in SUBSET S : U \in Good
    <2> HIDE DEF Good
    <2> QED
      BY <1>1, SubsetInduction
  <1>3. QED
    BY <1>2

\* A set whose summands are all 0.
LEMMA SumZero ==
  ASSUME NEW S, IsFiniteSet(S), NEW g, \A x \in S : g[x] = 0
  PROVE  Sum(g, S) = 0
  <1>1. Sum(g, S) = Sum(g, {})
    BY SumSupport
  <1>2. QED
    BY <1>1, SumEmpty

\* A set with one summand that is not 0.
LEMMA SumSingle ==
  ASSUME NEW S, IsFiniteSet(S), NEW g, NEW x \in S, g[x] \in Int,
         \A y \in S : y # x => g[y] = 0
  PROVE  Sum(g, S) = g[x]
  <1>1. \A y \in S : g[y] \in Int
    OBVIOUS
  <1>2. Sum(g, S) = g[x] + Sum(g, S \ {x})
    BY <1>1, SumRemove
  <1>3. IsFiniteSet(S \ {x})
    BY FS_Subset
  <1>4. Sum(g, S \ {x}) = 0
    BY <1>3, SumZero
  <1>5. QED
    BY <1>2, <1>4

\* Summands of 0 or 1 count at most the elements where they may be 1.
LEMMA SumCounts ==
  ASSUME NEW S, IsFiniteSet(S), NEW g, \A x \in S : g[x] \in {0, 1},
         NEW C, C \subseteq S, \A x \in S \ C : g[x] = 0
  PROVE  Sum(g, S) <= Cardinality(C)
  <1>1. IsFiniteSet(C)
    BY FS_Subset
  <1>2. Sum(g, S) = Sum(g, C)
    BY SumSupport
  <1> DEFINE Good == {T \in SUBSET C : Sum(g, T) <= Cardinality(T)}
  <1>3. ASSUME NEW T \in SUBSET C, \A U \in SUBSET T : U # T => U \in Good
        PROVE  T \in Good
    <2>1. CASE T = {}
      BY <2>1, SumEmpty, FS_EmptySet
    <2>2. CASE T # {}
      <3>1. PICK x : x \in T
        BY <2>2
      <3>2. IsFiniteSet(T) /\ IsFiniteSet(T \ {x})
        BY <1>1, FS_Subset
      <3>3. Sum(g, T) = g[x] + Sum(g, T \ {x})
        BY <3>1, <3>2, SumRemove
      <3>4. Cardinality(T \ {x}) = Cardinality(T) - 1 /\ Cardinality(T) \in Nat
        BY <3>1, <3>2, FS_RemoveElement, FS_CardinalityType
      <3>5. Sum(g, T \ {x}) <= Cardinality(T \ {x})
        BY <1>3, <3>1
      <3>6. Sum(g, T \ {x}) \in Int
        BY <3>2, SumType
      <3>7. g[x] \in {0, 1}
        BY <3>1
      <3>8. QED
        BY <3>3, <3>4, <3>5, <3>6, <3>7
    <2>3. QED
      BY <2>1, <2>2
  <1>4. \A T \in SUBSET C : T \in Good
    <2> HIDE DEF Good
    <2> QED
      BY <1>1, <1>3, SubsetInduction
  <1>5. QED
    BY <1>2, <1>4
============================================================================
