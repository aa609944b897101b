------------------------------ MODULE DataLemmas ------------------------------
(***************************************************************************)
(* Induction over the natural numbers and over the subsets of a finite set *)
(* (stated with sets, so that no predicate has to be passed as an          *)
(* operator), and what it shows about sums over finite sets.               *)
(***************************************************************************)
EXTENDS Integers, FiniteSets, FiniteSetTheorems, WellFoundedInduction, TLAPS

\* A set of numbers that contains 0, and with each number the next, contains all.
LEMMA NumberInduction ==
  ASSUME NEW G, 0 \in G, \A n \in Nat : n \in G => n + 1 \in G
  PROVE  Nat \subseteq G
<1> SUFFICES ASSUME Nat \ G # {} PROVE FALSE
  OBVIOUS
<1>1. PICK n \in Nat \ G : \A m \in Nat \ G : ~ (<<m, n>> \in OpToRel(<, Nat))
  BY NatLessThanWellFounded, WFMin
<1>2. n - 1 \in Nat
  OBVIOUS
<1>3. <<n - 1, n>> \in OpToRel(<, Nat)
  BY <1>2 DEF OpToRel
<1>4. n - 1 \in G
  BY <1>1, <1>2, <1>3
<1> QED BY <1>2, <1>4

\* A set of subsets that contains each subset whose proper subsets it contains, contains all.
LEMMA SubsetInduction ==
  ASSUME NEW U, IsFiniteSet(U), NEW G,
         \A s \in SUBSET U : (\A t \in SUBSET s : t # s => t \in G) => s \in G
  PROVE  SUBSET U \subseteq G
<1> SUFFICES ASSUME (SUBSET U) \ G # {} PROVE FALSE
  OBVIOUS
<1> DEFINE T == (SUBSET U) \ G
           R == StrictSubsetOrdering(U)
<1>1. IsWellFoundedOn(R, SUBSET U)
  <2>1. IsWellFoundedOn(R, FiniteSubsetsOf(U))
    BY FS_StrictSubsetOrderingWellFounded, Zenon
  <2>2. FiniteSubsetsOf(U) = SUBSET U
    BY FS_FiniteSubsetsOfFinite, Zenon
  <2> QED BY <2>1, <2>2
<1>2. \E s \in T : \A t \in T : ~ (<<t, s>> \in R)
  <2>1. T \subseteq SUBSET U /\ T # {}
    OBVIOUS
  <2> HIDE DEF T, R
  <2> QED BY <1>1, <2>1, WFMin
<1>3. PICK s \in T : \A t \in T : ~ (<<t, s>> \in R)
  BY <1>2
<1>4. ASSUME NEW t \in SUBSET s, t # s PROVE t \in G
  BY <1>3, <1>4 DEF StrictSubsetOrdering
<1> QED BY <1>3, <1>4

-------------------------------------------------------------------------------
\* f gives the sum of w over each subset of S, as MapThenSumSet computes it.
Pick(s) == CHOOSE x \in s : TRUE
Sums(f, w, S) ==
  f = [s \in SUBSET S |-> IF s = {} THEN 0 ELSE w[Pick(s)] + f[s \ {Pick(s)}]]

LEMMA PickIn == ASSUME NEW s, s # {} PROVE Pick(s) \in s
  BY DEF Pick

LEMMA SumsAt ==
  ASSUME NEW f, NEW w, NEW S, Sums(f, w, S), NEW s \in SUBSET S
  PROVE  f[s] = IF s = {} THEN 0 ELSE w[Pick(s)] + f[s \ {Pick(s)}]
<1> DEFINE step(t) == IF t = {} THEN 0 ELSE w[Pick(t)] + f[t \ {Pick(t)}]
<1>1. f = [t \in SUBSET S |-> step(t)]
  BY DEF Sums
<1> HIDE DEF step
<1>2. f[s] = step(s)
  BY <1>1
<1> QED BY <1>2 DEF step

\* Such a function exists.
LEMMA SumsExist ==
  ASSUME NEW w, NEW S, IsFiniteSet(S)
  PROVE  \E f : Sums(f, w, S)
<1> DEFINE step(f, s) == IF s = {} THEN 0 ELSE w[Pick(s)] + f[s \ {Pick(s)}]
           Up(n) == {s \in SUBSET S : Cardinality(s) <= n}
           G == {n \in Nat : \E f : \A s \in Up(n) : f[s] = step(f, s)}
<1>1. ASSUME NEW s \in SUBSET S
      PROVE  /\ Cardinality(s) \in Nat /\ Cardinality(s) <= Cardinality(S)
             /\ Cardinality(s) = 0 => s = {}
             /\ s # {} => Cardinality(s \ {Pick(s)}) = Cardinality(s) - 1
  BY FS_Subset, FS_CardinalityType, FS_EmptySet, FS_RemoveElement, PickIn
<1>2. 0 \in G
  <2> DEFINE f == [s \in SUBSET S |-> 0]
  <2>1. ASSUME NEW s \in Up(0) PROVE f[s] = step(f, s)
    <3>1. s \in SUBSET S /\ Cardinality(s) <= 0
      OBVIOUS
    <3> HIDE DEF f, Up
    <3>2. Cardinality(s) = 0
      <4>1. Cardinality(s) \in Nat
        BY <1>1, <3>1
      <4> QED BY <3>1, <4>1
    <3>3. s = {}
      BY <1>1, <3>1, <3>2
    <3> QED BY <3>3 DEF f
  <2>2. \A s \in Up(0) : f[s] = step(f, s)
    BY <2>1
  <2> HIDE DEF f, step, Up
  <2> QED BY <2>2
<1>3. ASSUME NEW n \in Nat, n \in G PROVE n + 1 \in G
  <2>1. PICK f : \A s \in Up(n) : f[s] = step(f, s)
    BY <1>3
  <2> DEFINE g == [s \in SUBSET S |-> step(f, s)]
  <2>2. \A s \in Up(n) : g[s] = f[s]
    BY <2>1
  <2>3. ASSUME NEW s \in Up(n + 1) PROVE g[s] = step(g, s)
    <3>1. CASE s = {}
      BY <3>1
    <3>2. CASE s # {}
      <4>1. s \ {Pick(s)} \in Up(n)
        BY <1>1, <3>2
      <4>2. g[s \ {Pick(s)}] = f[s \ {Pick(s)}]
        BY <2>2, <4>1
      <4>3. g[s] = w[Pick(s)] + f[s \ {Pick(s)}]
        BY <3>2
      <4> QED BY <3>2, <4>2, <4>3
    <3> QED BY <3>1, <3>2
  <2>4. \A s \in Up(n + 1) : g[s] = step(g, s)
    BY <2>3
  <2> HIDE DEF g, step, Up
  <2> QED BY <2>4
<1>4. Cardinality(S) \in G
  <2>1. Cardinality(S) \in Nat
    BY <1>1
  <2> HIDE DEF G
  <2> QED BY <1>2, <1>3, <2>1, NumberInduction
<1>5. PICK f : \A s \in SUBSET S : f[s] = step(f, s)
  BY <1>1, <1>4
<1> DEFINE g == [s \in SUBSET S |-> f[s]]
<1>6. ASSUME NEW s \in SUBSET S PROVE f[s] = step(g, s)
  <2>1. s # {} => g[s \ {Pick(s)}] = f[s \ {Pick(s)}]
    OBVIOUS
  <2> QED BY <1>5, <2>1
<1>7. g = [s \in SUBSET S |-> step(g, s)]
  BY <1>6
<1> QED BY <1>7 DEF Sums

\* The sum is a number, and the element that is added last does not matter.
LEMMA SumsType ==
  ASSUME NEW S, IsFiniteSet(S), NEW w \in [S -> Nat], NEW f, Sums(f, w, S)
  PROVE  \A s \in SUBSET S : f[s] \in Nat
<1> DEFINE G == {s \in SUBSET S : f[s] \in Nat}
<1>1. ASSUME NEW s \in SUBSET S, \A t \in SUBSET s : t # s => t \in G
      PROVE  s \in G
  <2>1. CASE s = {}
    <3>1. f[s] = 0
      BY <2>1, SumsAt
    <3> QED BY <3>1
  <2>2. CASE s # {}
    <3>1. Pick(s) \in s
      BY <2>2, PickIn
    <3>2. s \ {Pick(s)} \in G
      BY <1>1, <3>1
    <3>3. f[s] = w[Pick(s)] + f[s \ {Pick(s)}]
      BY <2>2, SumsAt
    <3> QED BY <3>1, <3>2, <3>3
  <2> QED BY <2>1, <2>2
<1>2. SUBSET S \subseteq G
  <2> HIDE DEF G
  <2> QED BY <1>1, SubsetInduction
<1> QED BY <1>2

LEMMA SumsSplit ==
  ASSUME NEW S, IsFiniteSet(S), NEW w \in [S -> Nat], NEW f, Sums(f, w, S)
  PROVE  \A s \in SUBSET S : \A x \in s : f[s] = w[x] + f[s \ {x}]
<1> DEFINE G == {s \in SUBSET S : \A x \in s : f[s] = w[x] + f[s \ {x}]}
<1>1. ASSUME NEW s \in SUBSET S, \A t \in SUBSET s : t # s => t \in G
      PROVE  s \in G
  <2> SUFFICES ASSUME NEW x \in s PROVE f[s] = w[x] + f[s \ {x}]
    OBVIOUS
  <2> DEFINE p == Pick(s)
  <2>1. p \in s /\ f[s] = w[p] + f[s \ {p}]
    BY PickIn, SumsAt
  <2>2. CASE p # x
    <3>1. s \ {p} \in G /\ s \ {x} \in G
      BY <1>1, <2>1
    <3>2. f[s \ {p}] = w[x] + f[(s \ {p}) \ {x}]
      BY <2>2, <3>1
    <3>3. f[s \ {x}] = w[p] + f[(s \ {x}) \ {p}]
      BY <2>1, <2>2, <3>1
    <3>4. (s \ {p}) \ {x} = (s \ {x}) \ {p}
      OBVIOUS
    <3>5. f[(s \ {p}) \ {x}] \in Nat /\ w[p] \in Nat /\ w[x] \in Nat
      BY <2>1, SumsType
    <3> HIDE DEF p
    <3> QED BY <2>1, <3>2, <3>3, <3>4, <3>5
  <2> QED BY <2>1, <2>2
<1>2. SUBSET S \subseteq G
  <2> HIDE DEF G
  <2> QED BY <1>1, SubsetInduction
<1> QED BY <1>2

\* There is one such function: what a sum is depends on the summands only.
LEMMA SumsUnique ==
  ASSUME NEW S, IsFiniteSet(S), NEW w, NEW f, Sums(f, w, S), NEW g, Sums(g, w, S)
  PROVE  f[S] = g[S]
<1> DEFINE G == {s \in SUBSET S : f[s] = g[s]}
<1>1. ASSUME NEW s \in SUBSET S, \A t \in SUBSET s : t # s => t \in G
      PROVE  s \in G
  <2>1. s # {} => f[s \ {Pick(s)}] = g[s \ {Pick(s)}]
    BY <1>1, PickIn
  <2>2. f[s] = IF s = {} THEN 0 ELSE w[Pick(s)] + f[s \ {Pick(s)}]
    BY SumsAt
  <2>3. g[s] = IF s = {} THEN 0 ELSE w[Pick(s)] + g[s \ {Pick(s)}]
    BY SumsAt
  <2>4. f[s] = g[s]
    BY <2>1, <2>2, <2>3
  <2> QED BY <2>4
<1>2. SUBSET S \subseteq G
  <2> HIDE DEF G
  <2> QED BY <1>1, SubsetInduction
<1> QED BY <1>2

\* The sum itself, and how it grows with the set.
Summed(w, S) == (CHOOSE f : Sums(f, w, S))[S]

LEMMA SummedIs ==
  ASSUME NEW S, IsFiniteSet(S), NEW w, NEW f, Sums(f, w, S)
  PROVE  Summed(w, S) = f[S]
<1> DEFINE g == CHOOSE h : Sums(h, w, S)
<1>1. Sums(g, w, S)
  OBVIOUS
<1> HIDE DEF g
<1>2. g[S] = f[S]
  BY <1>1, SumsUnique
<1> QED BY <1>2 DEF Summed, g

LEMMA SummedNothing == ASSUME NEW w PROVE Summed(w, {}) = 0
<1>1. IsFiniteSet({})
  BY FS_EmptySet
<1>2. PICK f : Sums(f, w, {})
  BY <1>1, SumsExist
<1>3. f[{}] = 0
  BY <1>2, SumsAt
<1> QED BY <1>1, <1>2, <1>3, SummedIs

LEMMA SummedAdd ==
  ASSUME NEW S, IsFiniteSet(S), NEW x, x \notin S, NEW w \in [S \cup {x} -> Nat]
  PROVE  /\ Summed([y \in S |-> w[y]], S) \in Nat
         /\ Summed(w, S \cup {x}) = Summed([y \in S |-> w[y]], S) + w[x]
<1> DEFINE T == S \cup {x}
           v == [y \in S |-> w[y]]
<1>1. IsFiniteSet(T) /\ v \in [S -> Nat] /\ T \ {x} = S /\ x \in T /\ S \in SUBSET T
  BY FS_AddElement
<1>2. PICK f : Sums(f, w, T)
  BY <1>1, SumsExist
<1> DEFINE g == [s \in SUBSET S |-> f[s]]
<1>3. Sums(g, v, S)
  <2> DEFINE step(s) == IF s = {} THEN 0 ELSE v[Pick(s)] + g[s \ {Pick(s)}]
  <2>1. ASSUME NEW s \in SUBSET S PROVE g[s] = step(s)
    <3>1. f[s] = IF s = {} THEN 0 ELSE w[Pick(s)] + f[s \ {Pick(s)}]
      BY <1>1, <1>2, SumsAt
    <3>2. s # {} => v[Pick(s)] = w[Pick(s)] /\ g[s \ {Pick(s)}] = f[s \ {Pick(s)}]
      BY PickIn
    <3> QED BY <3>1, <3>2
  <2>2. g = [s \in SUBSET S |-> step(s)]
    BY <2>1
  <2> QED BY <2>2 DEF Sums
<1>4. f[T] = w[x] + f[S] /\ f[S] \in Nat /\ w[x] \in Nat
  <2> HIDE DEF T
  <2>1. f[T] = w[x] + f[T \ {x}]
    BY <1>1, <1>2, SumsSplit DEF T
  <2>2. f[S] \in Nat
    BY <1>1, <1>2, SumsType DEF T
  <2> QED BY <1>1, <2>1, <2>2
<1>5. Summed(w, T) = f[T] /\ Summed(v, S) = g[S]
  <2> HIDE DEF T, v, g
  <2> QED BY <1>1, <1>2, <1>3, SummedIs
<1>6. g[S] = f[S]
  OBVIOUS
<1> QED BY <1>4, <1>5, <1>6

\* A sum of less over fewer is not more.
LEMMA SumsGrow ==
  ASSUME NEW T, IsFiniteSet(T), NEW S \in SUBSET T,
         NEW v \in [S -> Nat], NEW w \in [T -> Nat], \A x \in S : v[x] <= w[x],
         NEW f, Sums(f, v, S), NEW g, Sums(g, w, T)
  PROVE  f[S] <= g[T]
<1> DEFINE G == {t \in SUBSET T : f[t \cap S] <= g[t]}
<1>0. IsFiniteSet(S)
  BY FS_Subset
<1>1. ASSUME NEW t \in SUBSET T, \A u \in SUBSET t : u # t => u \in G
      PROVE  t \in G
  <2>1. f[t \cap S] \in Nat /\ g[t] \in Nat
    BY <1>0, SumsType
  <2>2. CASE t = {}
    <3>1. f[t \cap S] = 0
      BY <2>2, SumsAt
    <3> QED BY <2>1, <3>1
  <2>3. CASE t # {}
    <3> DEFINE p == Pick(t)
               u == t \ {p}
    <3>1. p \in t /\ g[t] = w[p] + g[u]
      BY <2>3, PickIn, SumsAt
    <3>2. f[u \cap S] <= g[u]
      BY <1>1, <3>1
    <3>3. f[u \cap S] \in Nat /\ g[u] \in Nat /\ w[p] \in Nat
      BY <1>0, <3>1, SumsType
    <3>4. CASE p \in S
      <4>1. f[t \cap S] = v[p] + f[(t \cap S) \ {p}]
        <5>1. t \cap S \in SUBSET S /\ p \in t \cap S
          BY <3>1, <3>4
        <5> HIDE DEF p
        <5> QED BY <1>0, <5>1, SumsSplit
      <4>2. (t \cap S) \ {p} = u \cap S
        OBVIOUS
      <4>3. v[p] \in Nat /\ v[p] <= w[p]
        BY <3>4
      <4> HIDE DEF p, u
      <4> QED BY <3>1, <3>2, <3>3, <4>1, <4>2, <4>3
    <3>5. CASE p \notin S
      <4>1. t \cap S = u \cap S
        BY <3>5
      <4> HIDE DEF p, u
      <4> QED BY <3>1, <3>2, <3>3, <4>1
    <3> QED BY <3>4, <3>5
  <2> QED BY <2>2, <2>3
<1>2. SUBSET T \subseteq G
  <2> HIDE DEF G
  <2> QED BY <1>1, SubsetInduction
<1>3. T \cap S = S
  OBVIOUS
<1> QED BY <1>2, <1>3
===============================================================================
