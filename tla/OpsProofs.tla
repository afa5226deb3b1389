------------------------------ MODULE OpsProofs ------------------------------
(***************************************************************************)
(* Proofs about the operators the components are built from. Three parts:  *)
(*   sums      what SumFunctionOnSet of the community modules computes: the *)
(*             sum over a finite set, taken in any order                   *)
(*   chains    a block that try_append_block accepts keeps the chain       *)
(*             acceptable to the replay of try_replace_chain               *)
(*   mempools  what an arrangement of a sequence keeps, and what Add and   *)
(*             PurgeConfirmed do to a pool                                 *)
(* Induction: a set of numbers that is not empty has a least one, so the   *)
(* smallest counterexample can be named and refuted.                       *)
(***************************************************************************)
EXTENDS MempoolOps, FiniteSetTheorems, SequenceTheorems, WellFoundedInduction, TLAPS

\* Every set of naturals that is not empty has a least element.
LEMMA LeastNatural ==
    ASSUME NEW S \in SUBSET Nat, S # {}
    PROVE  \E i \in S : \A j \in S : i <= j
PROOF
<1>1. IsWellFoundedOn(OpToRel(<, Nat), Nat)
  BY NatLessThanWellFounded
<1>2. PICK i \in S : \A j \in S : ~ (<<j, i>> \in OpToRel(<, Nat))
  BY <1>1, WFMin
<1>3. \A j \in S : ~ (j < i)
  BY <1>2 DEF OpToRel
<1> QED
  BY <1>3

-----------------------------------------------------------------------------
\* Sums. The provers have no induction over finite sets, but a set of numbers that
\* is not empty has a least one, so the good subsets of a finite set can be
\* followed from the empty one to the set itself.

\* A bad subset none of whose own subsets is bad.
LEMMA SmallestSubset ==
    ASSUME NEW S, IsFiniteSet(S), NEW bad \in SUBSET (SUBSET S), bad # {}
    PROVE  \E T \in bad : \A U \in SUBSET T : U # T => U \notin bad
PROOF
<1> DEFINE sizes == {Cardinality(T) : T \in bad}
<1>1. \A T \in SUBSET S : IsFiniteSet(T) /\ Cardinality(T) \in Nat
  BY FS_Subset, FS_CardinalityType
<1>2. sizes \in SUBSET Nat /\ sizes # {}
  BY <1>1
<1>3. PICK T \in bad : \A U \in bad : Cardinality(T) <= Cardinality(U)
  <2>1. PICK k \in sizes : \A j \in sizes : k <= j
    BY <1>2, LeastNatural
  <2> QED
    BY <2>1
<1>4. ASSUME NEW U \in SUBSET T, U # T PROVE U \notin bad
  <2>1. T \in SUBSET S /\ U \in SUBSET S /\ IsFiniteSet(T)
    BY <1>1, <1>3
  <2>2. Cardinality(U) <= Cardinality(T) /\ Cardinality(U) # Cardinality(T)
    BY <1>4, <2>1, FS_Subset
  <2>3. Cardinality(U) \in Nat /\ Cardinality(T) \in Nat
    BY <1>1, <2>1
  <2> QED
    BY <1>3, <2>1, <2>2, <2>3
<1> QED
  BY <1>3, <1>4

\* Finite sets are built one element at a time.
LEMMA SubsetsReached ==
    ASSUME NEW S, IsFiniteSet(S), NEW good \in SUBSET (SUBSET S), {} \in good,
           \A T \in good : \A x \in S \ T : T \cup {x} \in good
    PROVE  SUBSET S = good
PROOF
<1> DEFINE bad == (SUBSET S) \ good
<1> SUFFICES ASSUME bad # {} PROVE FALSE
  OBVIOUS
<1>1. PICK T \in bad : \A U \in SUBSET T : U # T => U \notin bad
  <2>1. bad \in SUBSET (SUBSET S)
    OBVIOUS
  <2> HIDE DEF bad
  <2> QED
    BY <2>1, SmallestSubset
<1>2. PICK x : x \in T
  BY <1>1
<1>3. T \ {x} \in good
  BY <1>1, <1>2
<1>4. (T \ {x}) \cup {x} = T /\ x \in S \ (T \ {x})
  BY <1>1, <1>2
<1> QED
  BY <1>1, <1>3, <1>4

OneOf(s) == CHOOSE x \in s : TRUE

\* The function a sum follows, on the subsets of S.
Accumulates(g, f, S) ==
    g = [s \in SUBSET S |-> IF s = {} THEN 0 ELSE f[OneOf(s)] + g[s \ {OneOf(s)}]]

LEMMA OneOfIsIn == \A s : s # {} => OneOf(s) \in s
PROOF
  BY DEF OneOf

LEMMA AccumulatesMeans ==
    ASSUME NEW g, NEW f, NEW S, Accumulates(g, f, S), NEW s \in SUBSET S
    PROVE  g[s] = IF s = {} THEN 0 ELSE f[OneOf(s)] + g[s \ {OneOf(s)}]
PROOF
  BY DEF Accumulates

LEMMA MakesAccumulation ==
    ASSUME NEW S, NEW g, g = [s \in SUBSET S |-> g[s]], NEW f,
           \A s \in SUBSET S : g[s] = IF s = {} THEN 0 ELSE f[OneOf(s)] + g[s \ {OneOf(s)}]
    PROVE  Accumulates(g, f, S)
PROOF
  BY DEF Accumulates

LEMMA SumIsAccumulated ==
    ASSUME NEW f, NEW S, \E g : Accumulates(g, f, S)
    PROVE  \E g : Accumulates(g, f, S) /\ SumFunctionOnSet(f, S) = g[S]
PROOF
<1>1. SumFunctionOnSet(f, S) = (CHOOSE g : Accumulates(g, f, S))[S]
  BY DEF SumFunctionOnSet, FoldFunctionOnSet, MapThenFoldSet, Accumulates, OneOf
<1> QED
  BY <1>1

LEMMA AccumulationUnique ==
    ASSUME NEW f, NEW S, IsFiniteSet(S), NEW g, NEW h,
           Accumulates(g, f, S), NEW T \in SUBSET S, Accumulates(h, f, T)
    PROVE  \A s \in SUBSET T : g[s] = h[s]
PROOF
<1> DEFINE differ == {s \in SUBSET T : g[s] # h[s]}
           sizes == {Cardinality(s) : s \in differ}
<1> SUFFICES ASSUME differ # {} PROVE FALSE
  OBVIOUS
<1>1. \A s \in SUBSET S : IsFiniteSet(s) /\ Cardinality(s) \in Nat
  BY FS_Subset, FS_CardinalityType
<1>2. sizes \in SUBSET Nat /\ sizes # {}
  BY <1>1
<1>3. PICK s \in differ : \A t \in differ : Cardinality(s) <= Cardinality(t)
  <2>1. PICK k \in sizes : \A j \in sizes : k <= j
    BY <1>2, LeastNatural
  <2> QED
    BY <2>1
<1> DEFINE u == s \ {OneOf(s)}
<1>4. s \in SUBSET S /\ s \in SUBSET T
  BY <1>3
<1>5. /\ g[s] = IF s = {} THEN 0 ELSE f[OneOf(s)] + g[u]
      /\ h[s] = IF s = {} THEN 0 ELSE f[OneOf(s)] + h[u]
  BY <1>4, AccumulatesMeans
<1>6. s # {} /\ g[u] # h[u]
  BY <1>3, <1>5
<1>7. OneOf(s) \in s
  BY <1>6, OneOfIsIn
<1>8. Cardinality(u) = Cardinality(s) - 1 /\ Cardinality(s) \in Nat
  BY <1>1, <1>4, <1>7, FS_RemoveElement
<1>9. u \in differ
  BY <1>4, <1>6
<1> QED
  BY <1>3, <1>8, <1>9

\* On a finite set the function exists, so that the sum takes one element at a time.
LEMMA SumSteps ==
    ASSUME NEW f, NEW S, IsFiniteSet(S)
    PROVE  SumFunctionOnSet(f, S) =
              IF S = {} THEN 0 ELSE f[OneOf(S)] + SumFunctionOnSet(f, S \ {OneOf(S)})
PROOF
<1> DEFINE Sum(s) == SumFunctionOnSet(f, s)
           Less(s) == s \ {OneOf(s)}
           Has(s) == \E g : Accumulates(g, f, s)
           bad == {T \in SUBSET S : ~Has(T)}
           sizes == {Cardinality(T) : T \in bad}
<1>1. \A T \in SUBSET S : IsFiniteSet(T) /\ Cardinality(T) \in Nat
  BY FS_Subset, FS_CardinalityType
\* Where the function exists, the sum follows it.
<1>2. ASSUME NEW T \in SUBSET S, \A U \in SUBSET T : Has(U)
      PROVE  Sum(T) = IF T = {} THEN 0 ELSE f[OneOf(T)] + Sum(Less(T))
  <2>1. PICK g : Accumulates(g, f, T) /\ Sum(T) = g[T]
    <3>1. Has(T)
      BY <1>2
    <3> QED
      BY <3>1, SumIsAccumulated
  <2>2. g[T] = IF T = {} THEN 0 ELSE f[OneOf(T)] + g[Less(T)]
    BY <2>1, AccumulatesMeans
  <2>3. Sum(Less(T)) = g[Less(T)]
    <3>1. Less(T) \in SUBSET T /\ Less(T) \in SUBSET Less(T)
      OBVIOUS
    <3>2. PICK h : Accumulates(h, f, Less(T)) /\ Sum(Less(T)) = h[Less(T)]
      <4>1. Has(Less(T))
        BY <1>2, <3>1
      <4> QED
        BY <4>1, SumIsAccumulated
    <3>3. IsFiniteSet(T)
      BY <1>1
    <3>4. \A s \in SUBSET Less(T) : g[s] = h[s]
      BY <2>1, <3>1, <3>2, <3>3, AccumulationUnique
    <3> QED
      BY <3>1, <3>2, <3>4
  <2> QED
    BY <2>1, <2>2, <2>3
<1>3. bad = {}
  <2> SUFFICES ASSUME bad # {} PROVE FALSE
    OBVIOUS
  <2>1. sizes \in SUBSET Nat /\ sizes # {}
    BY <1>1
  <2>2. PICK T \in bad : \A U \in bad : Cardinality(T) <= Cardinality(U)
    <3>1. PICK k \in sizes : \A j \in sizes : k <= j
      BY <2>1, LeastNatural
    <3> QED
      BY <3>1
  <2>3. ASSUME NEW U \in SUBSET T, U # T PROVE Has(U)
    <3>1. T \in SUBSET S /\ U \in SUBSET S /\ IsFiniteSet(T)
      BY <1>1, <2>2
    <3>2. Cardinality(U) <= Cardinality(T) /\ Cardinality(U) # Cardinality(T)
      BY <2>3, <3>1, FS_Subset
    <3>3. Cardinality(U) \in Nat /\ Cardinality(T) \in Nat
      BY <1>1, <3>1
    <3> QED
      BY <2>2, <3>1, <3>2, <3>3
  <2> DEFINE g == [s \in SUBSET T |-> IF s = {} THEN 0 ELSE f[OneOf(s)] + Sum(Less(s))]
  <2>4. ASSUME NEW s \in SUBSET T, s # {} PROVE Sum(Less(s)) = g[Less(s)]
    <3>1. OneOf(s) \in s
      BY <2>4, OneOfIsIn
    <3>2. Less(s) \in SUBSET T /\ Less(s) # T /\ Less(s) \in SUBSET S
      BY <2>2, <2>4, <3>1
    <3>3. \A v \in SUBSET Less(s) : Has(v)
      BY <2>3, <3>2
    <3> HIDE DEF Less, Has
    <3>4. Sum(Less(s)) = IF Less(s) = {} THEN 0
                         ELSE f[OneOf(Less(s))] + Sum(Less(Less(s)))
      BY <1>2, <3>2, <3>3
    <3> HIDE DEF Sum
    <3> QED
      BY <3>2, <3>4
  <2> HIDE DEF Sum
  <2>5. \A s \in SUBSET T : g[s] = IF s = {} THEN 0 ELSE f[OneOf(s)] + g[Less(s)]
    BY <2>4
  <2>6. g = [s \in SUBSET T |-> g[s]]
    OBVIOUS
  <2> HIDE DEF g
  <2>7. Accumulates(g, f, T)
    BY <2>5, <2>6, MakesAccumulation
  <2> QED
    BY <2>2, <2>7
<1>4. \A U \in SUBSET S : Has(U)
  BY <1>3
<1> HIDE DEF Has
<1> QED
  BY <1>2, <1>4

Sum(f, S) == SumFunctionOnSet(f, S)

LEMMA SumOfNone ==
    ASSUME NEW f
    PROVE  Sum(f, {}) = 0
PROOF
  BY SumSteps, FS_EmptySet DEF Sum

\* A sum of integers, taken one element at a time in any order.
LEMMA SumTakesAny ==
    ASSUME NEW S, IsFiniteSet(S), NEW f, \A x \in S : f[x] \in Int
    PROVE  /\ Sum(f, S) \in Int
           /\ \A x \in S : Sum(f, S) = f[x] + Sum(f, S \ {x})
PROOF
<1> DEFINE Good(T) == /\ Sum(f, T) \in Int
                      /\ \A x \in T : Sum(f, T) = f[x] + Sum(f, T \ {x})
           bad == {T \in SUBSET S : ~Good(T)}
<1> SUFFICES ASSUME bad # {} PROVE FALSE
  <2>1. S \notin bad => Good(S)
    OBVIOUS
  <2> QED
    BY <2>1
<1>1. PICK T \in bad : \A U \in SUBSET T : U # T => U \notin bad
  <2>1. bad \in SUBSET (SUBSET S)
    OBVIOUS
  <2> HIDE DEF bad
  <2> QED
    BY <2>1, SmallestSubset
<1>2. ASSUME NEW U \in SUBSET T, U # T PROVE Good(U)
  BY <1>1, <1>2
<1>3. Sum(f, T) = IF T = {} THEN 0 ELSE f[OneOf(T)] + Sum(f, T \ {OneOf(T)})
  <2>1. IsFiniteSet(T)
    BY <1>1, FS_Subset
  <2> QED
    BY <2>1, SumSteps DEF Sum
<1>4. CASE T = {}
  BY <1>1, <1>3, <1>4
<1>5. CASE T # {}
  <2> DEFINE y == OneOf(T)
             V == T \ {y}
  <2>1. y \in T
    BY <1>5, OneOfIsIn
  <2>2. f[y] \in Int
    BY <1>1, <2>1
  <2> HIDE DEF y
  <2>3. Good(V)
    BY <1>2, <2>1
  <2>4. Sum(f, T) = f[y] + Sum(f, V)
    BY <1>3, <1>5 DEF y
  <2>5. ASSUME NEW x \in T PROVE Sum(f, T) = f[x] + Sum(f, T \ {x})
    <3>1. CASE x = y
      BY <2>4, <3>1
    <3>2. CASE x # y
      <4>1. Sum(f, V) = f[x] + Sum(f, V \ {x})
        BY <2>3, <3>2
      <4>2. Sum(f, T \ {x}) = f[y] + Sum(f, V \ {x})
        <5>1. y \in T \ {x} /\ (T \ {x}) \ {y} = V \ {x}
          BY <2>1, <3>2
        <5>2. Good(T \ {x})
          BY <1>2
        <5> QED
          BY <5>1, <5>2
      <4>3. Sum(f, V \ {x}) \in Int /\ f[x] \in Int
        <5>1. V \ {x} \in SUBSET T /\ V \ {x} # T
          BY <2>1
        <5> QED
          BY <1>1, <1>2, <5>1
      <4> HIDE DEF V
      <4> QED
        BY <2>2, <2>4, <4>1, <4>2, <4>3
    <3> QED
      BY <3>1, <3>2
  <2>6. Sum(f, T) \in Int
    BY <2>2, <2>3, <2>4
  <2> QED
    BY <1>1, <2>5, <2>6
<1> QED
  BY <1>4, <1>5

LEMMA SumType ==
    ASSUME NEW S, IsFiniteSet(S), NEW f, \A x \in S : f[x] \in Int
    PROVE  Sum(f, S) \in Int
PROOF
  BY SumTakesAny

LEMMA SumAdds ==
    ASSUME NEW S, IsFiniteSet(S), NEW x, x \notin S, NEW f,
           f[x] \in Int, \A y \in S : f[y] \in Int
    PROVE  Sum(f, S \cup {x}) = f[x] + Sum(f, S)
PROOF
<1> DEFINE T == S \cup {x}
<1>1. IsFiniteSet(T) /\ x \in T /\ T \ {x} = S /\ \A y \in T : f[y] \in Int
  BY FS_AddElement
<1> HIDE DEF T
<1>2. Sum(f, T) = f[x] + Sum(f, T \ {x})
  BY <1>1, SumTakesAny
<1> QED
  BY <1>1, <1>2 DEF T

LEMMA SumOfOne ==
    ASSUME NEW x, NEW f, f[x] \in Int
    PROVE  Sum(f, {x}) = f[x]
PROOF
<1>1. IsFiniteSet({}) /\ x \notin {} /\ {} \cup {x} = {x}
  BY FS_EmptySet
<1>2. Sum(f, {} \cup {x}) = f[x] + Sum(f, {})
  BY <1>1, SumAdds
<1> QED
  BY <1>1, <1>2, SumOfNone

LEMMA SumOfTwo ==
    ASSUME NEW x, NEW y, x # y, NEW f, f[x] \in Int, f[y] \in Int
    PROVE  Sum(f, {x, y}) = f[x] + f[y]
PROOF
<1>1. IsFiniteSet({x}) /\ y \notin {x} /\ {x} \cup {y} = {x, y}
  BY FS_Singleton
<1>2. Sum(f, {x} \cup {y}) = f[y] + Sum(f, {x})
  BY <1>1, SumAdds
<1> QED
  BY <1>1, <1>2, SumOfOne

\* The relations between terms that hold between their sums.
LEMMA SumsCompare ==
    ASSUME NEW S, IsFiniteSet(S), NEW f, NEW g,
           \A x \in S : f[x] \in Int /\ g[x] \in Int /\ f[x] <= g[x]
    PROVE  Sum(f, S) <= Sum(g, S)
PROOF
<1> DEFINE good == {T \in SUBSET S : Sum(f, T) <= Sum(g, T)}
<1>1. {} \in good
  BY SumOfNone
<1>2. ASSUME NEW T \in good, NEW x \in S \ T PROVE T \cup {x} \in good
  <2>1. IsFiniteSet(T) /\ x \notin T /\ Sum(f, T) <= Sum(g, T)
    BY FS_Subset
  <2>2. f[x] \in Int /\ g[x] \in Int /\ f[x] <= g[x]
    OBVIOUS
  <2>3. \A y \in T : f[y] \in Int /\ g[y] \in Int
    OBVIOUS
  <2>4. Sum(f, T) \in Int /\ Sum(g, T) \in Int
    BY <2>1, <2>3, SumType
  <2>5. Sum(f, T \cup {x}) = f[x] + Sum(f, T) /\ Sum(g, T \cup {x}) = g[x] + Sum(g, T)
    BY <2>1, <2>2, <2>3, SumAdds
  <2>6. Sum(f, T \cup {x}) <= Sum(g, T \cup {x})
    BY <2>1, <2>2, <2>4, <2>5
  <2> QED
    BY <2>6
<1>3. SUBSET S = good
  <2>1. good \in SUBSET (SUBSET S)
    OBVIOUS
  <2> HIDE DEF good
  <2>2. \A T \in good : \A x \in S \ T : T \cup {x} \in good
    BY <1>2
  <2> QED
    BY <1>1, <2>1, <2>2, SubsetsReached
<1> QED
  BY <1>3

LEMMA SumsAgree ==
    ASSUME NEW S, IsFiniteSet(S), NEW f, NEW g,
           \A x \in S : f[x] \in Int /\ f[x] = g[x]
    PROVE  Sum(f, S) = Sum(g, S)
PROOF
<1>1. Sum(f, S) <= Sum(g, S) /\ Sum(g, S) <= Sum(f, S)
  BY SumsCompare
<1>2. Sum(f, S) \in Int /\ Sum(g, S) \in Int
  BY SumType
<1> QED
  BY <1>1, <1>2

\* Terms that are sums of two terms.
LEMMA SumOfPairs ==
    ASSUME NEW S, IsFiniteSet(S), NEW f, NEW g, NEW h,
           \A x \in S : f[x] \in Int /\ g[x] \in Int /\ h[x] = f[x] + g[x]
    PROVE  Sum(h, S) = Sum(f, S) + Sum(g, S)
PROOF
<1> DEFINE good == {T \in SUBSET S : Sum(h, T) = Sum(f, T) + Sum(g, T)}
<1>1. {} \in good
  BY SumOfNone
<1>2. ASSUME NEW T \in good, NEW x \in S \ T PROVE T \cup {x} \in good
  <2>1. IsFiniteSet(T) /\ x \notin T /\ Sum(h, T) = Sum(f, T) + Sum(g, T)
    BY FS_Subset
  <2>2. f[x] \in Int /\ g[x] \in Int /\ h[x] \in Int /\ h[x] = f[x] + g[x]
    OBVIOUS
  <2>3. \A y \in T : f[y] \in Int /\ g[y] \in Int /\ h[y] \in Int
    OBVIOUS
  <2>4. Sum(f, T) \in Int /\ Sum(g, T) \in Int
    BY <2>1, <2>3, SumType
  <2>5. /\ Sum(f, T \cup {x}) = f[x] + Sum(f, T)
        /\ Sum(g, T \cup {x}) = g[x] + Sum(g, T)
        /\ Sum(h, T \cup {x}) = h[x] + Sum(h, T)
    BY <2>1, <2>2, <2>3, SumAdds
  <2>6. Sum(h, T \cup {x}) = Sum(f, T \cup {x}) + Sum(g, T \cup {x})
    BY <2>1, <2>2, <2>4, <2>5
  <2> QED
    BY <2>6
<1>3. SUBSET S = good
  <2>1. good \in SUBSET (SUBSET S)
    OBVIOUS
  <2> HIDE DEF good
  <2>2. \A T \in good : \A x \in S \ T : T \cup {x} \in good
    BY <1>2
  <2> QED
    BY <1>1, <2>1, <2>2, SubsetsReached
<1> QED
  BY <1>3

LEMMA SumOfDifferences ==
    ASSUME NEW S, IsFiniteSet(S), NEW f, NEW g, NEW h,
           \A x \in S : f[x] \in Int /\ g[x] \in Int /\ h[x] = f[x] - g[x]
    PROVE  Sum(h, S) = Sum(f, S) - Sum(g, S)
PROOF
<1>1. \A x \in S : h[x] \in Int /\ g[x] \in Int /\ f[x] = h[x] + g[x]
  OBVIOUS
<1>2. Sum(f, S) = Sum(h, S) + Sum(g, S)
  BY <1>1, SumOfPairs
<1>3. Sum(h, S) \in Int /\ Sum(g, S) \in Int
  BY <1>1, SumType
<1> QED
  BY <1>2, <1>3

\* Two disjoint sets of terms.
LEMMA SumSplits ==
    ASSUME NEW A, NEW B, IsFiniteSet(A), IsFiniteSet(B), A \cap B = {},
           NEW f, \A x \in A \cup B : f[x] \in Int
    PROVE  Sum(f, A \cup B) = Sum(f, A) + Sum(f, B)
PROOF
<1> DEFINE good == {T \in SUBSET A : Sum(f, T \cup B) = Sum(f, T) + Sum(f, B)}
<1>1. {} \in good
  <2>1. {} \cup B = B /\ Sum(f, B) \in Int
    BY SumType
  <2> HIDE DEF good
  <2>2. Sum(f, {} \cup B) = Sum(f, {}) + Sum(f, B)
    BY <2>1, SumOfNone
  <2> QED
    BY <2>2 DEF good
<1>2. ASSUME NEW T \in good, NEW x \in A \ T PROVE T \cup {x} \in good
  <2> DEFINE U == T \cup B
  <2>1. IsFiniteSet(T) /\ x \notin T /\ Sum(f, U) = Sum(f, T) + Sum(f, B)
    BY FS_Subset
  <2>2. f[x] \in Int /\ x \notin U /\ \A y \in U : f[y] \in Int
    OBVIOUS
  <2>3. IsFiniteSet(U) /\ \A y \in T : f[y] \in Int
    BY <2>1, FS_Union
  <2>4. Sum(f, T) \in Int /\ Sum(f, B) \in Int
    BY <2>1, <2>3, SumType
  <2>7. U = T \cup B /\ U \cup {x} = (T \cup {x}) \cup B
    OBVIOUS
  <2> HIDE DEF U
  <2>5. Sum(f, T \cup {x}) = f[x] + Sum(f, T) /\ Sum(f, U \cup {x}) = f[x] + Sum(f, U)
    BY <2>1, <2>2, <2>3, SumAdds
  <2>6. Sum(f, U \cup {x}) = Sum(f, T \cup {x}) + Sum(f, B)
    BY <2>1, <2>2, <2>4, <2>5
  <2> QED
    BY <2>6, <2>7
<1>3. SUBSET A = good
  <2>1. good \in SUBSET (SUBSET A)
    OBVIOUS
  <2> HIDE DEF good
  <2>2. \A T \in good : \A x \in A \ T : T \cup {x} \in good
    BY <1>2
  <2> QED
    BY <1>1, <2>1, <2>2, SubsetsReached
<1> QED
  BY <1>3

\* Terms that are zero do not count.
LEMMA SumOfZeros ==
    ASSUME NEW S, IsFiniteSet(S), NEW f, \A x \in S : f[x] = 0
    PROVE  Sum(f, S) = 0
PROOF
<1>1. \A x \in S : f[x] \in Int /\ f[x] = f[x] + f[x]
  OBVIOUS
<1>2. Sum(f, S) = Sum(f, S) + Sum(f, S)
  BY <1>1, SumOfPairs
<1>3. Sum(f, S) \in Int
  BY <1>1, SumType
<1>4. \A z \in Int : z = z + z => z = 0
  OBVIOUS
<1> QED
  BY <1>2, <1>3, <1>4, Zenon

LEMMA SumOfSubset ==
    ASSUME NEW S, IsFiniteSet(S), NEW T \in SUBSET S, NEW f,
           \A x \in S : f[x] \in Int, \A x \in S \ T : f[x] = 0
    PROVE  Sum(f, S) = Sum(f, T)
PROOF
<1> DEFINE R == S \ T
<1>1. IsFiniteSet(T) /\ IsFiniteSet(R) /\ T \cup R = S /\ T \cap R = {}
  BY FS_Subset
<1>2. (\A x \in T : f[x] \in Int) /\ \A x \in R : f[x] = 0
  OBVIOUS
<1> HIDE DEF R
<1>3. Sum(f, S) = Sum(f, T) + Sum(f, R)
  BY <1>1, SumSplits
<1>4. Sum(f, R) = 0 /\ Sum(f, T) \in Int
  BY <1>1, <1>2, SumOfZeros, SumType
<1> QED
  BY <1>3, <1>4

LEMMA SumNat ==
    ASSUME NEW S, IsFiniteSet(S), NEW f, \A x \in S : f[x] \in Nat
    PROVE  Sum(f, S) \in Nat
PROOF
<1> DEFINE zero == [x \in S |-> 0]
<1>1. \A x \in S : zero[x] = 0 /\ zero[x] \in Int /\ f[x] \in Int /\ zero[x] <= f[x]
  OBVIOUS
<1> HIDE DEF zero
<1>2. Sum(zero, S) <= Sum(f, S)
  BY <1>1, SumsCompare
<1>3. Sum(zero, S) = 0 /\ Sum(f, S) \in Int
  BY <1>1, SumOfZeros, SumType
<1> QED
  BY <1>2, <1>3

LEMMA ImageFinite ==
    ASSUME NEW S, IsFiniteSet(S), NEW b
    PROVE  IsFiniteSet({b[x] : x \in S})
PROOF
<1> DEFINE image == {b[x] : x \in S}
           h == [x \in S |-> b[x]]
<1>1. h \in Surjection(S, image)
  BY DEF Surjection
<1> HIDE DEF h, image
<1>2. IsFiniteSet(image)
  BY <1>1, FS_Surjection
<1> QED
  BY <1>2 DEF image

\* The same terms under other names.
LEMMA SumRenamed ==
    ASSUME NEW S, IsFiniteSet(S), NEW f, NEW g, NEW b,
           \A x, y \in S : x # y => b[x] # b[y],
           \A x \in S : g[x] \in Int /\ g[x] = f[b[x]]
    PROVE  Sum(g, S) = Sum(f, {b[x] : x \in S})
PROOF
<1> DEFINE Image(T) == {b[x] : x \in T}
           good == {T \in SUBSET S : Sum(g, T) = Sum(f, Image(T))}
<1>1. {} \in good
  <2>1. Image({}) = {}
    OBVIOUS
  <2>2. Sum(g, {}) = Sum(f, Image({}))
    BY <2>1, SumOfNone
  <2> QED
    BY <2>2
<1>2. ASSUME NEW T \in good, NEW x \in S \ T PROVE T \cup {x} \in good
  <2>1. IsFiniteSet(T) /\ x \notin T /\ Sum(g, T) = Sum(f, Image(T))
    BY FS_Subset
  <2>2. g[x] \in Int /\ g[x] = f[b[x]] /\ \A y \in T : g[y] \in Int
    OBVIOUS
  <2>3. b[x] \notin Image(T) /\ Image(T \cup {x}) = Image(T) \cup {b[x]}
    BY <2>1
  <2>4. IsFiniteSet(Image(T)) /\ \A v \in Image(T) : f[v] \in Int
    BY <2>1, ImageFinite
  <2> HIDE DEF Image
  <2>5. Sum(g, T \cup {x}) = g[x] + Sum(g, T)
    BY <2>1, <2>2, SumAdds
  <2>6. Sum(f, Image(T) \cup {b[x]}) = f[b[x]] + Sum(f, Image(T))
    BY <2>2, <2>3, <2>4, SumAdds
  <2>7. Sum(g, T \cup {x}) = Sum(f, Image(T \cup {x}))
    BY <2>1, <2>2, <2>3, <2>5, <2>6
  <2> QED
    BY <2>7
<1>3. SUBSET S = good
  <2>1. good \in SUBSET (SUBSET S)
    OBVIOUS
  <2> HIDE DEF good
  <2>2. \A T \in good : \A x \in S \ T : T \cup {x} \in good
    BY <1>2
  <2> QED
    BY <1>1, <2>1, <2>2, SubsetsReached
<1> QED
  BY <1>3

\* A sum of sums over the disjoint parts of a set.
LEMMA SumOfSums ==
    ASSUME NEW I, IsFiniteSet(I), NEW parts, NEW f, NEW g,
           NEW all, \A x \in all : \E i \in I : x \in parts[i],
           \A i \in I : parts[i] \subseteq all,
           \A i \in I : IsFiniteSet(parts[i]),
           \A i, j \in I : i # j => parts[i] \cap parts[j] = {},
           \A i \in I : \A x \in parts[i] : f[x] \in Int,
           \A i \in I : g[i] = Sum(f, parts[i])
    PROVE  IsFiniteSet(all) /\ Sum(g, I) = Sum(f, all)
PROOF
<1> DEFINE All(T) == UNION {parts[i] : i \in T}
           good == {T \in SUBSET I : IsFiniteSet(All(T)) /\ Sum(g, T) = Sum(f, All(T))}
<1>1. {} \in good
  <2>1. All({}) = {}
    OBVIOUS
  <2>2. IsFiniteSet(All({})) /\ Sum(g, {}) = Sum(f, All({}))
    BY <2>1, SumOfNone, FS_EmptySet
  <2> QED
    BY <2>2
<1>2. ASSUME NEW T \in good, NEW x \in I \ T PROVE T \cup {x} \in good
  <2>1. IsFiniteSet(T) /\ x \notin T /\ IsFiniteSet(All(T)) /\ Sum(g, T) = Sum(f, All(T))
    BY FS_Subset
  <2>2. All(T \cup {x}) = parts[x] \cup All(T) /\ parts[x] \cap All(T) = {}
    BY <2>1
  <2>3. \A v \in parts[x] \cup All(T) : f[v] \in Int
    OBVIOUS
  <2>4. IsFiniteSet(parts[x]) /\ g[x] = Sum(f, parts[x])
    OBVIOUS
  <2>5. g[x] \in Int /\ \A i \in T : g[i] \in Int
    BY SumType
  <2> HIDE DEF All
  <2>6. Sum(g, T \cup {x}) = g[x] + Sum(g, T)
    BY <2>1, <2>5, SumAdds
  <2>7. Sum(f, parts[x] \cup All(T)) = Sum(f, parts[x]) + Sum(f, All(T))
    BY <2>1, <2>2, <2>3, <2>4, SumSplits
  <2>8. IsFiniteSet(parts[x] \cup All(T))
    BY <2>1, <2>4, FS_Union
  <2>9. IsFiniteSet(All(T \cup {x})) /\ Sum(g, T \cup {x}) = Sum(f, All(T \cup {x}))
    BY <2>1, <2>2, <2>4, <2>6, <2>7, <2>8
  <2> QED
    BY <2>9
<1>3. SUBSET I = good
  <2>1. good \in SUBSET (SUBSET I)
    OBVIOUS
  <2> HIDE DEF good
  <2>2. \A T \in good : \A x \in I \ T : T \cup {x} \in good
    BY <1>2
  <2> QED
    BY <1>1, <2>1, <2>2, SubsetsReached
<1>4. All(I) = all
  OBVIOUS
<1> QED
  BY <1>3, <1>4

-----------------------------------------------------------------------------
\* Chains.

\* Validation only gets easier with more unspent outputs.
LEMMA ValidationMonotonic ==
    ASSUME NEW tx, NEW small, NEW large, small \subseteq large,
           ValidateAgainst(tx, small)
    PROVE  ValidateAgainst(tx, large)
PROOF
  BY DEF ValidateAgainst

\* The positions of a chain with one more block: the old ones, which stay where
\* they were, and those of the new block, which come after them.
LEMMA AppendPositions ==
    ASSUME NEW c \in Seq(Block), NEW b \in Block
    PROVE  LET d == Append(c, b) IN
           /\ \A q : q \in Positions(d) <=>
                 \/ q \in Positions(c)
                 \/ \E j \in DOMAIN b.transactions : q = <<Len(c) + 1, j>>
           /\ \A q \in Positions(c) : /\ TxAt(d, q) = TxAt(c, q)
                                      /\ q[1] \in 1..Len(c)
                                      /\ q[2] \in Nat
           /\ \A j \in DOMAIN b.transactions :
                 TxAt(d, <<Len(c) + 1, j>>) = b.transactions[j]
PROOF
<1> DEFINE d == Append(c, b)
<1>1. /\ d \in Seq(Block)
      /\ DOMAIN d = 1..(Len(c) + 1)
      /\ DOMAIN c = 1..Len(c)
      /\ Len(c) \in Nat
      /\ \A i \in 1..Len(c) : d[i] = c[i]
      /\ d[Len(c) + 1] = b
  BY AppendProperties
<1> HIDE DEF d
<1>2. ASSUME NEW q
      PROVE  q \in Positions(d) <=>
                 \/ q \in Positions(c)
                 \/ \E j \in DOMAIN b.transactions : q = <<Len(c) + 1, j>>
  <2>1. q \in Positions(d) <=>
           \E i \in DOMAIN d : \E j \in DOMAIN d[i].transactions : q = <<i, j>>
    BY DEF Positions
  <2>2. q \in Positions(c) <=>
           \E i \in DOMAIN c : \E j \in DOMAIN c[i].transactions : q = <<i, j>>
    BY DEF Positions
  <2>3. \A i : i \in DOMAIN d <=> i \in DOMAIN c \/ i = Len(c) + 1
    BY <1>1
  <2> QED
    BY <1>1, <2>1, <2>2, <2>3
<1>3. ASSUME NEW q \in Positions(c)
      PROVE  TxAt(d, q) = TxAt(c, q) /\ q[1] \in 1..Len(c) /\ q[2] \in Nat
  <2>1. PICK i \in DOMAIN c : \E j \in DOMAIN c[i].transactions : q = <<i, j>>
    BY DEF Positions
  <2>2. PICK j \in DOMAIN c[i].transactions : q = <<i, j>>
    BY <2>1
  <2>3. c[i] \in Block
    BY <1>1
  <2>4. c[i].transactions \in Seq(Tx)
    BY <2>3 DEF Block
  <2>5. j \in Nat
    BY <2>4
  <2>6. i \in 1..Len(c) /\ d[i] = c[i]
    BY <1>1
  <2>7. q[1] = i /\ q[2] = j
    BY <2>2
  <2> QED
    BY <2>5, <2>6, <2>7 DEF TxAt
<1>4. ASSUME NEW j \in DOMAIN b.transactions
      PROVE  TxAt(d, <<Len(c) + 1, j>>) = b.transactions[j]
  BY <1>1 DEF TxAt
<1> QED
  BY <1>2, <1>3, <1>4 DEF d

\* An output of a transaction of a chain is not what a coinbase spends.
LEMMA OutputsAreReal ==
    ASSUME NEW tx \in Tx
    PROVE  NullOutPoint \notin Outputs(tx)
PROOF
<1>1. tx.vout \in Seq([value : Value, owner : Owner])
  BY DEF Tx
<1>2. 0 \notin DOMAIN tx.vout
  BY <1>1
<1> QED
  BY <1>2 DEF Outputs, NullOutPoint

\* Every position of a chain holds a transaction.
LEMMA PositionsHoldTxs ==
    ASSUME NEW c \in Seq(Block), NEW p \in Positions(c)
    PROVE  TxAt(c, p) \in Tx
PROOF
<1>1. PICK i \in DOMAIN c : \E j \in DOMAIN c[i].transactions : p = <<i, j>>
  BY DEF Positions
<1>2. PICK j \in DOMAIN c[i].transactions : p = <<i, j>>
  BY <1>1
<1>3. c[i] \in Block
  OBVIOUS
<1>4. c[i].transactions \in Seq(Tx)
  BY <1>3 DEF Block
<1>5. c[i].transactions[j] \in Tx
  BY <1>4
<1>6. p[1] = i /\ p[2] = j
  BY <1>2
<1> QED
  BY <1>5, <1>6 DEF TxAt

\* What the replay sees at q, output by output.
LEMMA InReplayUtxos ==
    ASSUME NEW c, NEW q, NEW op
    PROVE  op \in ReplayUtxos(c, q) <=>
             \E p \in Positions(c) :
                /\ Before(p, q)
                /\ op \in Outputs(TxAt(c, p))
                /\ \A r \in Positions(c) : Before(p, r) /\ Before(r, q)
                      => op \notin Inputs(TxAt(c, r))
PROOF
<1> DEFINE Lasting(p) ==
              \A r \in Positions(c) : Before(p, r) /\ Before(r, q)
                 => op \notin Inputs(TxAt(c, r))
<1>1. op \in ReplayUtxos(c, q) <=>
         \E p \in {r \in Positions(c) : Before(r, q)} :
            op \in {o \in Outputs(TxAt(c, p)) :
                      \A r \in Positions(c) :
                         Before(p, r) /\ Before(r, q) => o \notin Inputs(TxAt(c, r))}
  BY Zenon DEF ReplayUtxos
<1>2. ASSUME NEW p
      PROVE  op \in {o \in Outputs(TxAt(c, p)) :
                      \A r \in Positions(c) :
                         Before(p, r) /\ Before(r, q) => o \notin Inputs(TxAt(c, r))}
               <=> op \in Outputs(TxAt(c, p)) /\ Lasting(p)
  OBVIOUS
<1> HIDE DEF Lasting
<1>3. op \in ReplayUtxos(c, q) <=>
         \E p \in {r \in Positions(c) : Before(r, q)} :
            op \in Outputs(TxAt(c, p)) /\ Lasting(p)
  BY <1>1, <1>2
<1> QED
  BY <1>3 DEF Lasting

\* At transaction j of the new block, try_append_block sees no output that the
\* replay would not see there.
LEMMA AppendSeesLess ==
    ASSUME NEW c \in Seq(Block), NEW b \in Block, NEW j \in DOMAIN b.transactions
    PROVE  UtxosAt(BuildUtxoSet(c), b.transactions, j)
             \subseteq ReplayUtxos(Append(c, b), <<Len(c) + 1, j>>)
PROOF
<1> DEFINE d == Append(c, b)
           q == <<Len(c) + 1, j>>
           txs == b.transactions
<1>1. /\ \A r : r \in Positions(d) <=>
                   \/ r \in Positions(c)
                   \/ \E k \in DOMAIN txs : r = <<Len(c) + 1, k>>
      /\ \A r \in Positions(c) : TxAt(d, r) = TxAt(c, r) /\ r[1] \in 1..Len(c)
      /\ \A k \in DOMAIN txs : TxAt(d, <<Len(c) + 1, k>>) = txs[k]
  BY AppendPositions
<1> HIDE DEF d
<1>2. Len(c) \in Nat /\ DOMAIN txs = 1..Len(txs) /\ Len(txs) \in Nat /\ j \in Nat
  <2>1. txs \in Seq(Tx)
    BY DEF Block
  <2> QED
    BY <2>1
<1>3. \A r \in Positions(c) : Before(r, q)
  BY <1>1, <1>2 DEF Before
<1>4. \A k \in DOMAIN txs : Before(<<Len(c) + 1, k>>, q) <=> k < j
  BY <1>2 DEF Before
<1>5. SUFFICES ASSUME NEW op \in UtxosAt(BuildUtxoSet(c), txs, j)
               PROVE  \E p \in Positions(d) :
                         /\ Before(p, q)
                         /\ op \in Outputs(TxAt(d, p))
                         /\ \A r \in Positions(d) : Before(p, r) /\ Before(r, q)
                               => op \notin Inputs(TxAt(d, r))
  BY InReplayUtxos DEF d
<1>6. CASE /\ op \in BuildUtxoSet(c)
           /\ \A k \in 1..(j - 1) : op \notin Inputs(txs[k])
  <2> DEFINE Made == UNION {Outputs(TxAt(c, u)) : u \in Positions(c)}
             Spent == UNION {Inputs(TxAt(c, t)) :
                               t \in {u \in Positions(c) : ~IsCoinbase(TxAt(c, u))}}
  <2>5. BuildUtxoSet(c) = Made \ Spent
    BY DEF BuildUtxoSet
  <2>6. op \in Made /\ op \notin Spent
    <3> HIDE DEF Made, Spent
    <3> QED
      BY <1>6, <2>5
  <2>1. PICK p \in Positions(c) : op \in Outputs(TxAt(c, p))
    BY <2>6
  <2>2. \A r \in Positions(c) : op \notin Inputs(TxAt(c, r))
    <3> TAKE r \in Positions(c)
    <3>1. CASE IsCoinbase(TxAt(c, r))
      <4>1. op # NullOutPoint
        BY <2>1, OutputsAreReal, PositionsHoldTxs
      <4> QED
        BY <3>1, <4>1 DEF IsCoinbase, Inputs, Range
    <3>2. CASE ~IsCoinbase(TxAt(c, r))
      BY <2>6, <3>2
    <3> QED
      BY <3>1, <3>2
  <2>3. p \in Positions(d) /\ Before(p, q) /\ op \in Outputs(TxAt(d, p))
    BY <1>1, <1>3, <2>1
  <2>4. ASSUME NEW r \in Positions(d), Before(r, q) PROVE op \notin Inputs(TxAt(d, r))
    <3>1. CASE r \in Positions(c)
      BY <1>1, <2>2, <3>1
    <3>2. CASE \E k \in DOMAIN txs : r = <<Len(c) + 1, k>>
      <4>1. PICK k \in DOMAIN txs : r = <<Len(c) + 1, k>>
        BY <3>2
      <4>2. k \in 1..(j - 1)
        BY <1>2, <1>4, <2>4, <4>1
      <4> QED
        BY <1>1, <1>6, <4>1, <4>2
    <3> QED
      BY <1>1, <3>1, <3>2
  <2> QED
    BY <2>3, <2>4
<1>7. CASE \E i \in 1..(j - 1) : /\ op \in Outputs(txs[i])
                                 /\ \A k \in (i + 1)..(j - 1) : op \notin Inputs(txs[k])
  <2>1. PICK i \in 1..(j - 1) : /\ op \in Outputs(txs[i])
                                /\ \A k \in (i + 1)..(j - 1) : op \notin Inputs(txs[k])
    BY <1>7
  <2>2. i \in DOMAIN txs /\ i < j /\ i \in Nat
    BY <1>2
  <2> DEFINE p == <<Len(c) + 1, i>>
  <2>3. p \in Positions(d) /\ Before(p, q) /\ op \in Outputs(TxAt(d, p))
    BY <1>1, <1>4, <2>1, <2>2
  <2>4. ASSUME NEW r \in Positions(d), Before(p, r), Before(r, q)
        PROVE  op \notin Inputs(TxAt(d, r))
    <3>1. r \notin Positions(c)
      BY <1>1, <1>2, <2>2, <2>4 DEF Before
    <3>2. PICK k \in DOMAIN txs : r = <<Len(c) + 1, k>>
      BY <1>1, <3>1
    <3>3. k \in (i + 1)..(j - 1)
      BY <1>2, <2>2, <2>4, <3>2 DEF Before
    <3> QED
      BY <1>1, <2>1, <3>2, <3>3
  <2> QED
    BY <2>3, <2>4
<1> QED
  BY <1>5, <1>6, <1>7 DEF UtxosAt

\* What the replay sees at a position of the old chain does not depend on the
\* new block.
LEMMA AppendKeepsPast ==
    ASSUME NEW c \in Seq(Block), NEW b \in Block, NEW q \in Positions(c)
    PROVE  ReplayUtxos(c, q) \subseteq ReplayUtxos(Append(c, b), q)
PROOF
<1> DEFINE d == Append(c, b)
<1>1. /\ \A r : r \in Positions(d) <=>
                   \/ r \in Positions(c)
                   \/ \E k \in DOMAIN b.transactions : r = <<Len(c) + 1, k>>
      /\ \A r \in Positions(c) : TxAt(d, r) = TxAt(c, r) /\ r[1] \in 1..Len(c)
  BY AppendPositions
<1> HIDE DEF d
<1>2. \A r \in Positions(d) : Before(r, q) => r \in Positions(c)
  <2> SUFFICES ASSUME NEW r \in Positions(d), Before(r, q), r \notin Positions(c)
               PROVE  FALSE
    OBVIOUS
  <2>1. PICK k \in DOMAIN b.transactions : r = <<Len(c) + 1, k>>
    BY <1>1
  <2>2. q[1] \in 1..Len(c) /\ Len(c) \in Nat
    BY <1>1
  <2> QED
    BY <2>1, <2>2 DEF Before
<1>3. SUFFICES ASSUME NEW op \in ReplayUtxos(c, q)
               PROVE  op \in ReplayUtxos(d, q)
  BY DEF d
<1>4. PICK p \in Positions(c) :
         /\ Before(p, q)
         /\ op \in Outputs(TxAt(c, p))
         /\ \A r \in Positions(c) : Before(p, r) /\ Before(r, q)
               => op \notin Inputs(TxAt(c, r))
  BY <1>3, InReplayUtxos
<1>5. /\ p \in Positions(d)
      /\ op \in Outputs(TxAt(d, p))
      /\ \A r \in Positions(d) : Before(p, r) /\ Before(r, q)
            => op \notin Inputs(TxAt(d, r))
  BY <1>1, <1>2, <1>4
<1> QED
  BY <1>4, <1>5, InReplayUtxos

\* The chain with the block try_append_block accepts passes the replay.
LEMMA AppendReplays ==
    ASSUME NEW c \in Seq(Block), NEW b \in Block, ChainReplays(c),
           TxsApply(b.transactions, BuildUtxoSet(c))
    PROVE  ChainReplays(Append(c, b))
PROOF
<1> DEFINE d == Append(c, b)
<1>1. /\ \A q : q \in Positions(d) <=>
                   \/ q \in Positions(c)
                   \/ \E j \in DOMAIN b.transactions : q = <<Len(c) + 1, j>>
      /\ \A q \in Positions(c) : TxAt(d, q) = TxAt(c, q)
      /\ \A j \in DOMAIN b.transactions :
            TxAt(d, <<Len(c) + 1, j>>) = b.transactions[j]
  BY AppendPositions
<1> HIDE DEF d
<1>2. ASSUME NEW q \in Positions(c)
      PROVE  IsCoinbase(TxAt(d, q)) \/ ValidateAgainst(TxAt(d, q), ReplayUtxos(d, q))
  <2>1. ReplayUtxos(c, q) \subseteq ReplayUtxos(d, q)
    BY AppendKeepsPast DEF d
  <2> QED
    BY <1>1, <2>1, ValidationMonotonic DEF ChainReplays
<1>3. ASSUME NEW j \in DOMAIN b.transactions
      PROVE  \/ IsCoinbase(TxAt(d, <<Len(c) + 1, j>>))
             \/ ValidateAgainst(TxAt(d, <<Len(c) + 1, j>>),
                                ReplayUtxos(d, <<Len(c) + 1, j>>))
  <2>1. UtxosAt(BuildUtxoSet(c), b.transactions, j)
          \subseteq ReplayUtxos(d, <<Len(c) + 1, j>>)
    BY AppendSeesLess DEF d
  <2> QED
    BY <1>1, <2>1, ValidationMonotonic DEF TxsApply
<1> QED
  BY <1>1, <1>2, <1>3 DEF ChainReplays, d

-----------------------------------------------------------------------------
\* Nothing is spent twice.

\* No two places of a chain hold the same coinbase.
UniqueCoinbases(c) ==
    \A p, q \in Positions(c) :
        IsCoinbase(TxAt(c, p)) /\ TxAt(c, p) = TxAt(c, q) => p = q

\* What must not be at two places: the same transaction, or two payments that
\* spend one output.
Clash(c, p, q) ==
    \/ TxAt(c, p) = TxAt(c, q)
    \/ /\ ~IsCoinbase(TxAt(c, p))
       /\ ~IsCoinbase(TxAt(c, q))
       /\ \E op : op \in Inputs(TxAt(c, p)) /\ op \in Inputs(TxAt(c, q))

\* Positions are pairs of numbers, so of two of them one comes first.
LEMMA PositionsOrdered ==
    ASSUME NEW c \in Seq(Block)
    PROVE  /\ \A p \in Positions(c) : p[1] \in Nat /\ p[2] \in Nat
           /\ \A p, q \in Positions(c) : p = q \/ Before(p, q) \/ Before(q, p)
           /\ \A p, q, r \in Positions(c) :
                 Before(p, q) /\ Before(q, r) => Before(p, r)
           /\ \A p \in Positions(c) : ~Before(p, p)
PROOF
<1>1. ASSUME NEW p \in Positions(c)
      PROVE  p = <<p[1], p[2]>> /\ p[1] \in Nat /\ p[2] \in Nat
  <2>1. PICK i \in DOMAIN c : \E j \in DOMAIN c[i].transactions : p = <<i, j>>
    BY DEF Positions
  <2>2. PICK j \in DOMAIN c[i].transactions : p = <<i, j>>
    BY <2>1
  <2>3. c[i] \in Block
    OBVIOUS
  <2>4. c[i].transactions \in Seq(Tx)
    BY <2>3 DEF Block
  <2>5. i \in Nat /\ j \in Nat
    BY <2>4
  <2> QED
    BY <2>2, <2>5
<1>2. \A p \in Positions(c) : p[1] \in Nat /\ p[2] \in Nat
  BY <1>1
<1>3. ASSUME NEW p \in Positions(c), NEW q \in Positions(c)
      PROVE  p = q \/ Before(p, q) \/ Before(q, p)
  <2>1. CASE p[1] = q[1] /\ p[2] = q[2]
    BY <1>1, <2>1
  <2>2. CASE p[1] # q[1] \/ p[2] # q[2]
    BY <1>2, <2>2 DEF Before
  <2> QED
    BY <2>1, <2>2
<1> QED
  BY <1>2, <1>3 DEF Before

\* A set of positions that is not empty has a first one.
LEMMA FirstPosition ==
    ASSUME NEW c \in Seq(Block), NEW S \in SUBSET Positions(c), S # {}
    PROVE  \E q \in S : \A r \in S : ~Before(r, q)
PROOF
<1>1. \A p \in S : p[1] \in Nat /\ p[2] \in Nat
  BY PositionsOrdered
<1> DEFINE rows == {p[1] : p \in S}
<1>2. PICK i \in rows : \A k \in rows : i <= k
  <2>1. rows \in SUBSET Nat /\ rows # {}
    BY <1>1
  <2> HIDE DEF rows
  <2> QED
    BY <2>1, LeastNatural
<1> DEFINE row == {p \in S : p[1] = i}
           columns == {p[2] : p \in row}
<1>3. PICK j \in columns : \A k \in columns : j <= k
  <2>1. columns \in SUBSET Nat /\ columns # {}
    BY <1>1, <1>2
  <2> HIDE DEF columns
  <2> QED
    BY <2>1, LeastNatural
<1>4. PICK q \in S : q[1] = i /\ q[2] = j
  BY <1>3
<1>5. ASSUME NEW r \in S PROVE ~Before(r, q)
  <2>1. i <= r[1] /\ (r[1] = i => j <= r[2])
    BY <1>2, <1>3
  <2> QED
    BY <1>1, <1>4, <2>1 DEF Before
<1> QED
  BY <1>5

\* A chain that replays holds no transaction twice and spends no output twice.
\* Of the clashes of a chain take one whose later place q is the first. What q
\* spends is unspent at q, so it was created after the earlier place p had spent
\* it; but p needs it created before, and the same output created at two places
\* is a clash before q.
LEMMA NoClash ==
    ASSUME NEW c \in Seq(Block), ChainReplays(c), UniqueCoinbases(c),
           NEW p0 \in Positions(c), NEW q0 \in Positions(c), Before(p0, q0)
    PROVE  ~Clash(c, p0, q0)
PROOF
<1> DEFINE Late == {q \in Positions(c) :
                      \E p \in Positions(c) : Before(p, q) /\ Clash(c, p, q)}
<1> SUFFICES ASSUME Clash(c, p0, q0) PROVE FALSE
  OBVIOUS
<1>1. q0 \in Late /\ Late \in SUBSET Positions(c)
  OBVIOUS
<1>2. PICK q \in Late : \A r \in Late : ~Before(r, q)
  <2> HIDE DEF Late
  <2> QED
    BY <1>1, FirstPosition
<1>3. PICK p \in Positions(c) : Before(p, q) /\ Clash(c, p, q)
  OBVIOUS
<1>4. q \in Positions(c)
  OBVIOUS
<1>5. ASSUME NEW a \in Positions(c), NEW b \in Positions(c), Before(a, q), Before(b, q),
             TxAt(c, a) = TxAt(c, b)
      PROVE  a = b
  <2>1. ASSUME NEW x \in Positions(c), NEW y \in Positions(c), Before(x, y), Before(y, q),
               TxAt(c, x) = TxAt(c, y)
        PROVE  FALSE
    <3>1. y \in Late
      BY <2>1 DEF Clash
    <3> QED
      BY <1>2, <2>1, <3>1
  <2> QED
    BY <1>5, <2>1, PositionsOrdered
<1> HIDE DEF Late
<1>6. ~IsCoinbase(TxAt(c, p)) /\ ~IsCoinbase(TxAt(c, q))
  <2>1. p # q
    BY <1>3, PositionsOrdered
  <2> QED
    BY <1>3, <1>4, <2>1 DEF Clash, UniqueCoinbases
<1>7. /\ ValidateAgainst(TxAt(c, p), ReplayUtxos(c, p))
      /\ ValidateAgainst(TxAt(c, q), ReplayUtxos(c, q))
  BY <1>4, <1>6 DEF ChainReplays
<1>8. PICK op : op \in Inputs(TxAt(c, p)) /\ op \in Inputs(TxAt(c, q))
  <2>1. CASE TxAt(c, p) = TxAt(c, q)
    <3>1. TxAt(c, q) \in Tx
      BY <1>4, PositionsHoldTxs
    <3>2. TxAt(c, q).vin \in Seq(OutPoint) /\ TxAt(c, q).vin # <<>>
      BY <1>6, <1>7, <3>1 DEF ValidateAgainst, Tx
    <3>3. TxAt(c, q).vin[1] \in Inputs(TxAt(c, q))
      BY <3>2 DEF Inputs, Range
    <3> QED
      BY <2>1, <3>3
  <2>2. CASE TxAt(c, p) # TxAt(c, q)
    BY <1>3, <2>2 DEF Clash
  <2> QED
    BY <2>1, <2>2
<1>9. op \in ReplayUtxos(c, p) /\ op \in ReplayUtxos(c, q)
  BY <1>6, <1>7, <1>8 DEF ValidateAgainst
<1>10. PICK a \in Positions(c) : Before(a, p) /\ op \in Outputs(TxAt(c, a))
  BY <1>9, InReplayUtxos
<1>11. PICK b \in Positions(c) :
          /\ Before(b, q)
          /\ op \in Outputs(TxAt(c, b))
          /\ \A r \in Positions(c) :
                Before(b, r) /\ Before(r, q) => op \notin Inputs(TxAt(c, r))
  BY <1>9, InReplayUtxos
<1>12. TxAt(c, a) = TxAt(c, b)
  BY <1>10, <1>11 DEF Outputs
<1>13. a = b
  <2>1. Before(a, q)
    BY <1>3, <1>4, <1>10, PositionsOrdered
  <2> QED
    BY <1>5, <1>11, <1>12, <2>1
<1> QED
  BY <1>3, <1>8, <1>10, <1>11, <1>13

\* The inputs of a coinbase are no output of a chain.
LEMMA CoinbaseSpendsNothing ==
    ASSUME NEW c \in Seq(Block), NEW p \in Positions(c), NEW r,
           NEW op \in Outputs(TxAt(c, p)), op \in Inputs(TxAt(c, r))
    PROVE  ~IsCoinbase(TxAt(c, r))
PROOF
<1>1. op # NullOutPoint
  BY OutputsAreReal, PositionsHoldTxs
<1> QED
  BY <1>1 DEF IsCoinbase, Inputs, Range

\* On such a chain the two passes of build_utxo_set find what the replay leaves.
LEMMA PassesAgree ==
    ASSUME NEW c \in Seq(Block), ChainReplays(c), UniqueCoinbases(c)
    PROVE  BuildUtxoSet(c) = ReplayUtxos(c, <<Len(c) + 1, 1>>)
PROOF
<1> DEFINE end == <<Len(c) + 1, 1>>
           Made == UNION {Outputs(TxAt(c, u)) : u \in Positions(c)}
           Spent == UNION {Inputs(TxAt(c, t)) :
                             t \in {u \in Positions(c) : ~IsCoinbase(TxAt(c, u))}}
<1>1. BuildUtxoSet(c) = Made \ Spent
  BY DEF BuildUtxoSet
<1>2. \A r \in Positions(c) : Before(r, end)
  <2> SUFFICES ASSUME NEW r \in Positions(c) PROVE Before(r, end)
    OBVIOUS
  <2>1. PICK i \in DOMAIN c : \E j \in DOMAIN c[i].transactions : r = <<i, j>>
    BY DEF Positions
  <2>2. r[1] = i /\ i \in 1..Len(c)
    BY <2>1
  <2> QED
    BY <2>2 DEF Before
<1> HIDE DEF end
<1>3. ASSUME NEW op
      PROVE  op \in ReplayUtxos(c, end) <=>
               \E p \in Positions(c) :
                  /\ op \in Outputs(TxAt(c, p))
                  /\ \A r \in Positions(c) : Before(p, r) => op \notin Inputs(TxAt(c, r))
  BY <1>2, InReplayUtxos
<1>4. ASSUME NEW op \in Made, op \notin Spent PROVE op \in ReplayUtxos(c, end)
  <2>1. PICK p \in Positions(c) : op \in Outputs(TxAt(c, p))
    OBVIOUS
  <2>2. \A r \in Positions(c) : op \notin Inputs(TxAt(c, r))
    BY <1>4, <2>1, CoinbaseSpendsNothing
  <2> QED
    BY <1>3, <2>1, <2>2
<1>5. ASSUME NEW op \in ReplayUtxos(c, end) PROVE op \in Made /\ op \notin Spent
  <2>1. PICK p \in Positions(c) :
           /\ op \in Outputs(TxAt(c, p))
           /\ \A r \in Positions(c) : Before(p, r) => op \notin Inputs(TxAt(c, r))
    BY <1>3
  <2>2. ASSUME NEW r \in Positions(c), ~IsCoinbase(TxAt(c, r)), op \in Inputs(TxAt(c, r))
        PROVE  FALSE
    <3>1. op \in ReplayUtxos(c, r)
      BY <2>2 DEF ChainReplays, ValidateAgainst
    <3>2. PICK b \in Positions(c) : Before(b, r) /\ op \in Outputs(TxAt(c, b))
      BY <3>1, InReplayUtxos
    <3>3. TxAt(c, b) = TxAt(c, p)
      BY <2>1, <3>2 DEF Outputs
    <3>4. ~Before(p, r)
      BY <2>1, <2>2
    <3>5. Before(b, p)
      BY <3>2, <3>4, PositionsOrdered
    <3> QED
      BY <3>3, <3>5, NoClash DEF Clash
  <2> QED
    BY <2>1, <2>2
<1>6. ASSUME NEW op PROVE op \in BuildUtxoSet(c) <=> op \in ReplayUtxos(c, end)
  <2> HIDE DEF Made, Spent
  <2> QED
    BY <1>1, <1>4, <1>5
<1>7. BuildUtxoSet(c) = ReplayUtxos(c, end)
  BY <1>6, Zenon
<1> QED
  BY <1>7 DEF end

-----------------------------------------------------------------------------
\* Mempools.

\* `precedes' is a strict total order on K.
Orders(precedes, K) ==
    /\ \A i \in K : <<i, i>> \notin precedes
    /\ \A i, j, k \in K :
          <<i, j>> \in precedes /\ <<j, k>> \in precedes => <<i, k>> \in precedes
    /\ \A i, j \in K : i # j => <<i, j>> \in precedes \/ <<j, i>> \in precedes

\* t lists the elements of s at the positions K, each once, in the order given:
\* place k of t holds what was at from[k].
Rearranges(t, s, K, precedes, from) ==
    /\ from \in [1..Cardinality(K) -> K]
    /\ Cardinality(K) \in Nat
    /\ t = [k \in 1..Cardinality(K) |-> s[from[k]]]
    /\ \A k, l \in 1..Cardinality(K) : k < l => <<from[k], from[l]>> \in precedes
    /\ \A k, l \in 1..Cardinality(K) : k # l => from[k] # from[l]
    /\ \A i \in K : \E k \in 1..Cardinality(K) : from[k] = i

\* Sorting and retaining neither lose nor duplicate an element, and order them.
LEMMA ArrangeRearranges ==
    ASSUME NEW E, NEW s \in Seq(E), NEW K \in SUBSET (DOMAIN s), NEW precedes,
           Orders(precedes, K)
    PROVE  \E from : Rearranges(Arrange(s, K, precedes), s, K, precedes, from)
PROOF
<1> DEFINE n == Cardinality(K)
           Pred(i) == {j \in K : <<j, i>> \in precedes}
           Place(i) == Cardinality(Pred(i)) + 1
           P == [i \in K |-> Place(i)]
           from == [k \in 1..n |-> CHOOSE i \in K : Place(i) = k]
<1>1. IsFiniteSet(K) /\ n \in Nat
  <2>1. IsFiniteSet(1..Len(s))
    BY FS_Interval
  <2>2. DOMAIN s = 1..Len(s)
    OBVIOUS
  <2> QED
    BY <2>1, <2>2, FS_Subset, FS_CardinalityType
<1>2. \A i \in K : IsFiniteSet(Pred(i)) /\ Cardinality(Pred(i)) \in Nat /\ Place(i) \in 1..n
  <2> TAKE i \in K
  <2>1. IsFiniteSet(K \ {i}) /\ Cardinality(K \ {i}) = n - 1
    BY <1>1, FS_RemoveElement
  <2>2. Pred(i) \in SUBSET (K \ {i})
    BY DEF Orders
  <2>3. IsFiniteSet(Pred(i)) /\ Cardinality(Pred(i)) <= n - 1
    BY ZenonT(40), <2>1, <2>2, FS_Subset
  <2>4. Cardinality(Pred(i)) \in Nat
    BY <2>3, FS_CardinalityType
  <2> QED
    BY <1>1, <2>3, <2>4
<1>3. \A i, j \in K : <<i, j>> \in precedes => Place(i) < Place(j)
  <2> SUFFICES ASSUME NEW i \in K, NEW j \in K, <<i, j>> \in precedes
               PROVE  Place(i) < Place(j)
    OBVIOUS
  <2>1. Pred(i) \in SUBSET Pred(j) /\ i \in Pred(j) /\ i \notin Pred(i)
    BY DEF Orders
  <2>2. Cardinality(Pred(i)) <= Cardinality(Pred(j))
    BY <1>2, <2>1, FS_Subset
  <2>3. Cardinality(Pred(i)) # Cardinality(Pred(j))
    BY <1>2, <2>1, FS_Subset
  <2>4. Cardinality(Pred(i)) \in Nat /\ Cardinality(Pred(j)) \in Nat
    BY <1>2
  <2> HIDE DEF Pred
  <2> QED
    BY <2>2, <2>3, <2>4
<1>4. \A i, j \in K : Place(i) = Place(j) => i = j
  <2> SUFFICES ASSUME NEW i \in K, NEW j \in K, Place(i) = Place(j), i # j
               PROVE  FALSE
    OBVIOUS
  <2>1. <<i, j>> \in precedes \/ <<j, i>> \in precedes
    BY DEF Orders
  <2>2. Place(i) < Place(j) \/ Place(j) < Place(i)
    BY <1>3, <2>1
  <2> HIDE DEF Place
  <2>3. Place(i) \in 1..n /\ Place(j) \in 1..n
    BY <1>2
  <2> QED
    BY <2>2, <2>3
<1>5. \A k \in 1..n : \E i \in K : Place(i) = k
  <2>1. IsFiniteSet(1..n) /\ Cardinality(1..n) = n
    BY <1>1, FS_Interval
  <2>2. P \in Injection(K, 1..n)
    BY <1>2, <1>4 DEF Injection, IsInjective
  <2>3. P \in Surjection(K, 1..n)
    BY <1>1, <2>1, <2>2, FS_Injection
  <2> QED
    BY <2>3 DEF Surjection
<1> HIDE DEF Place
<1>6. \A k \in 1..n : from[k] \in K /\ Place(from[k]) = k
  BY <1>5
<1>7. Arrange(s, K, precedes) = [k \in 1..n |-> s[from[k]]]
  BY DEF Arrange, Place
<1>8. \A k, l \in 1..n : k < l => <<from[k], from[l]>> \in precedes
  <2> SUFFICES ASSUME NEW k \in 1..n, NEW l \in 1..n, k < l
               PROVE  <<from[k], from[l]>> \in precedes
    OBVIOUS
  <2>1. from[k] # from[l]
    BY <1>6
  <2>2. CASE <<from[l], from[k]>> \in precedes
    <3>1. l < k
      BY <1>3, <1>6, <2>2
    <3> QED
      BY <3>1
  <2> QED
    BY <1>6, <2>1, <2>2 DEF Orders
<1>9. \A i \in K : from[Place(i)] = i
  <2> TAKE i \in K
  <2>1. Place(i) \in 1..n
    BY <1>2
  <2>2. from[Place(i)] \in K /\ Place(from[Place(i)]) = Place(i)
    BY <1>6, <2>1
  <2> QED
    BY <1>4, <2>2
<1> HIDE DEF from
<1>10. from \in [1..n -> K]
  BY <1>6 DEF from
<1> QED
  <2>1. \A k, l \in 1..n : k # l => from[k] # from[l]
    BY <1>6
  <2>2. \A i \in K : \E k \in 1..n : from[k] = i
    BY <1>2, <1>9
  <2> QED
    BY <1>1, <1>7, <1>8, <1>10, <2>1, <2>2 DEF Rearranges

\* What follows for any arrangement: its type, its elements, and that facts about
\* pairs of different elements survive it.
LEMMA ArrangeElements ==
    ASSUME NEW E, NEW s \in Seq(E), NEW K \in SUBSET (DOMAIN s), NEW precedes,
           Orders(precedes, K)
    PROVE  /\ Arrange(s, K, precedes) \in Seq(E)
           /\ Range(Arrange(s, K, precedes)) = {s[i] : i \in K}
PROOF
<1> DEFINE t == Arrange(s, K, precedes)
<1>1. PICK from : Rearranges(t, s, K, precedes, from)
  BY ArrangeRearranges
<1>2. DOMAIN s = 1..Len(s) /\ \A i \in DOMAIN s : s[i] \in E
  OBVIOUS
<1> HIDE DEF t
<1>3. t \in Seq(E)
  BY SMTT(30), <1>1, <1>2 DEF Rearranges
<1>4. DOMAIN t = 1..Cardinality(K) /\ \A k \in DOMAIN t : from[k] \in K /\ t[k] = s[from[k]]
  BY <1>1 DEF Rearranges
<1>5. Range(t) \subseteq {s[i] : i \in K}
  BY <1>4 DEF Range
<1>6. ASSUME NEW i \in K PROVE s[i] \in Range(t)
  <2>1. PICK k \in 1..Cardinality(K) : from[k] = i
    BY <1>1 DEF Rearranges
  <2> QED
    BY <1>4, <2>1 DEF Range
<1> QED
  BY <1>3, <1>5, <1>6 DEF t

\* A sequence has one element before another.
Precede(t, e, f) == \E k, l \in DOMAIN t : k < l /\ t[k] = e /\ t[l] = f

\* What comes first in the order comes first in the arrangement.
LEMMA ArrangeOrders ==
    ASSUME NEW E, NEW s \in Seq(E), NEW K \in SUBSET (DOMAIN s), NEW precedes,
           Orders(precedes, K)
    PROVE  \A i, j \in K : <<i, j>> \in precedes =>
              Precede(Arrange(s, K, precedes), s[i], s[j])
PROOF
<1> DEFINE t == Arrange(s, K, precedes)
<1>1. PICK from : Rearranges(t, s, K, precedes, from)
  BY ArrangeRearranges
<1> HIDE DEF t
<1>2. /\ DOMAIN t = 1..Cardinality(K)
      /\ \A k \in DOMAIN t : k \in Nat /\ t[k] = s[from[k]]
      /\ \A k, l \in DOMAIN t : k < l => <<from[k], from[l]>> \in precedes
      /\ \A i \in K : \E k \in DOMAIN t : from[k] = i
  BY <1>1 DEF Rearranges
<1>3. ASSUME NEW i \in K, NEW j \in K, <<i, j>> \in precedes
      PROVE  Precede(t, s[i], s[j])
  <2>1. PICK k \in DOMAIN t : from[k] = i
    BY <1>2
  <2>2. PICK l \in DOMAIN t : from[l] = j
    BY <1>2
  <2>3. i # j /\ <<j, i>> \notin precedes
    BY <1>3 DEF Orders
  <2>4. ~(l < k) /\ k # l
    BY <1>2, <2>1, <2>2, <2>3
  <2>5. k \in Nat /\ l \in Nat /\ t[k] = s[i] /\ t[l] = s[j]
    BY <1>2, <2>1, <2>2
  <2> QED
    BY <2>4, <2>5 DEF Precede
<1> QED
  BY <1>3 DEF t

LEMMA FeeOrder ==
    ASSUME NEW s \in Seq(Entry)
    PROVE  Orders(HigherFeeFirst(s), DOMAIN s)
PROOF
<1>1. \A i \in DOMAIN s : i \in Nat /\ s[i] \in Entry
  OBVIOUS
<1>2. \A i \in DOMAIN s : i \in Nat /\ s[i].fee \in Nat
  BY <1>1 DEF Entry
<1> QED
  BY <1>2 DEF Orders, HigherFeeFirst

LEMMA ListOrder ==
    ASSUME NEW s \in Seq(Entry), NEW K \in SUBSET (DOMAIN s)
    PROVE  Orders(AsListed(s), K)
PROOF
<1>1. \A i \in DOMAIN s : i \in Nat
  OBVIOUS
<1> QED
  BY <1>1 DEF Orders, AsListed

\* No two entries of s are the same transaction or spend the same output.
Disjoint(s) ==
    \A i, j \in DOMAIN s :
        i # j => s[i].tx # s[j].tx /\ Inputs(s[i].tx) \cap Inputs(s[j].tx) = {}

LEMMA ArrangeDisjoint ==
    ASSUME NEW s \in Seq(Entry), NEW K \in SUBSET (DOMAIN s), NEW precedes,
           Orders(precedes, K), \A i, j \in K : i # j =>
              s[i].tx # s[j].tx /\ Inputs(s[i].tx) \cap Inputs(s[j].tx) = {}
    PROVE  Disjoint(Arrange(s, K, precedes))
PROOF
<1> DEFINE t == Arrange(s, K, precedes)
<1>1. PICK from : Rearranges(t, s, K, precedes, from)
  BY ArrangeRearranges
<1> HIDE DEF t
<1>2. /\ DOMAIN t = 1..Cardinality(K)
      /\ \A k \in DOMAIN t : from[k] \in K /\ t[k] = s[from[k]]
      /\ \A k, l \in DOMAIN t : k # l => from[k] # from[l]
  BY <1>1 DEF Rearranges
<1>3. ASSUME NEW k \in DOMAIN t, NEW l \in DOMAIN t, k # l
      PROVE  t[k].tx # t[l].tx /\ Inputs(t[k].tx) \cap Inputs(t[l].tx) = {}
  <2>1. from[k] \in K /\ from[l] \in K /\ from[k] # from[l]
    BY <1>2, <1>3
  <2>2. t[k] = s[from[k]] /\ t[l] = s[from[l]]
    BY <1>2
  <2> QED
    BY <2>1, <2>2
<1>4. Disjoint(t)
  BY <1>3 DEF Disjoint
<1> QED
  BY <1>4 DEF t

LEMMA SortSorts ==
    ASSUME NEW s \in Seq(Entry)
    PROVE  \A i, j \in DOMAIN SortByFee(s) :
              i < j => SortByFee(s)[i].fee >= SortByFee(s)[j].fee
PROOF
<1> DEFINE t == SortByFee(s)
<1>1. PICK from : Rearranges(t, s, DOMAIN s, HigherFeeFirst(s), from)
  BY ArrangeRearranges, FeeOrder DEF SortByFee
<1> HIDE DEF t
<1>2. /\ DOMAIN t = 1..Cardinality(DOMAIN s)
      /\ \A k \in DOMAIN t : from[k] \in DOMAIN s /\ t[k] = s[from[k]]
      /\ \A k, l \in DOMAIN t : k < l => <<from[k], from[l]>> \in HigherFeeFirst(s)
  BY <1>1 DEF Rearranges
<1>3. \A i \in DOMAIN s : s[i].fee \in Nat
  <2>1. \A i \in DOMAIN s : s[i] \in Entry
    OBVIOUS
  <2> QED
    BY <2>1 DEF Entry
<1>4. ASSUME NEW i \in DOMAIN t, NEW j \in DOMAIN t, i < j
      PROVE  t[i].fee >= t[j].fee
  <2>1. <<from[i], from[j]>> \in HigherFeeFirst(s)
    BY <1>2, <1>4
  <2>2. s[from[i]].fee >= s[from[j]].fee
    BY <1>2, <1>3, <2>1 DEF HigherFeeFirst
  <2> QED
    BY <1>2, <2>2
<1> QED
  BY <1>4 DEF t

\* What add does to a consistent pool when it accepts a transaction: the pool
\* stays consistent, becomes sorted, and gains exactly the new entry.
LEMMA AddKeeps ==
    ASSUME NEW pool \in Pool, Consistent(pool), NEW tx \in Tx, NEW fee \in Nat,
           CanAdd(pool, tx)
    PROVE  /\ Add(pool, tx, fee) \in Pool
           /\ Consistent(Add(pool, tx, fee))
           /\ Sorted(Add(pool, tx, fee))
           /\ Range(Add(pool, tx, fee).entries)
                = Range(pool.entries) \cup {[tx |-> tx, fee |-> fee]}
PROOF
<1> DEFINE new == [tx |-> tx, fee |-> fee]
           s == Append(pool.entries, new)
           t == SortByFee(s)
<1>1. /\ pool.entries \in Seq(Entry)
      /\ new \in Entry
      /\ pool.reserved_inputs \in SUBSET OutPoint
  BY DEF Pool, Entry
<1>2. /\ s \in Seq(Entry)
      /\ DOMAIN s = 1..(Len(pool.entries) + 1)
      /\ DOMAIN pool.entries = 1..Len(pool.entries)
      /\ \A i \in DOMAIN pool.entries : s[i] = pool.entries[i]
      /\ s[Len(pool.entries) + 1] = new
      /\ Len(pool.entries) \in Nat
  BY <1>1, AppendProperties
<1>3. {s[i] : i \in DOMAIN s} = Range(pool.entries) \cup {new}
  <2>1. \A i \in DOMAIN s : i \in DOMAIN pool.entries \/ i = Len(pool.entries) + 1
    BY <1>2
  <2>2. Len(pool.entries) + 1 \in DOMAIN s /\ DOMAIN pool.entries \subseteq DOMAIN s
    BY <1>2
  <2> QED
    BY <1>2, <2>1, <2>2 DEF Range
<1>4. /\ t \in Seq(Entry)
      /\ Range(t) = Range(pool.entries) \cup {new}
  <2>1. Orders(HigherFeeFirst(s), DOMAIN s)
    BY <1>2, FeeOrder
  <2> HIDE DEF s
  <2>2. s \in Seq(Entry)
    BY <1>2
  <2>3. /\ Arrange(s, DOMAIN s, HigherFeeFirst(s)) \in Seq(Entry)
        /\ Range(Arrange(s, DOMAIN s, HigherFeeFirst(s))) = {s[i] : i \in DOMAIN s}
    BY <2>1, <2>2, ArrangeElements
  <2> QED
    BY <1>3, <2>3 DEF SortByFee
<1>5. Disjoint(s)
  <2>1. Disjoint(pool.entries)
    BY DEF Consistent, Disjoint
  <2>2. \A i \in DOMAIN pool.entries :
           /\ pool.entries[i].tx # tx
           /\ Inputs(pool.entries[i].tx) \cap Inputs(tx) = {}
    BY DEF Consistent, CanAdd, PoolContains, PoolTxs, Range
  <2>3. \A i \in DOMAIN s : i \in DOMAIN pool.entries \/ i = Len(pool.entries) + 1
    BY <1>2
  <2>4. ASSUME NEW i \in DOMAIN s, NEW j \in DOMAIN s, i # j
        PROVE  s[i].tx # s[j].tx /\ Inputs(s[i].tx) \cap Inputs(s[j].tx) = {}
    <3>1. CASE i \in DOMAIN pool.entries /\ j \in DOMAIN pool.entries
      BY <1>2, <2>1, <2>4, <3>1 DEF Disjoint
    <3>2. CASE i \in DOMAIN pool.entries /\ j = Len(pool.entries) + 1
      BY <1>2, <2>2, <3>2
    <3>3. CASE i = Len(pool.entries) + 1 /\ j \in DOMAIN pool.entries
      BY <1>2, <2>2, <3>3
    <3> QED
      BY <2>3, <2>4, <3>1, <3>2, <3>3
  <2> QED
    BY <2>4 DEF Disjoint
<1>6. Disjoint(t)
  BY <1>2, <1>5, FeeOrder, ArrangeDisjoint DEF SortByFee, Disjoint
<1>7. \A i, j \in DOMAIN t : i < j => t[i].fee >= t[j].fee
  BY <1>2, SortSorts
<1>8. Inputs(tx) \subseteq OutPoint
  BY DEF Inputs, Tx, Range
<1> HIDE DEF t
<1>9. Add(pool, tx, fee) = [entries |-> t,
                            reserved_inputs |-> pool.reserved_inputs \cup Inputs(tx)]
  BY DEF Add, t
<1>10. PoolTxs(Add(pool, tx, fee)) = PoolTxs(pool) \cup {tx}
  <2>1. Add(pool, tx, fee).entries = t
    BY <1>9
  <2> HIDE DEF s
  <2>2. \A e : e \in Range(t) <=> e \in Range(pool.entries) \/ e = new
    BY <1>4
  <2>3. new.tx = tx
    OBVIOUS
  <2> HIDE DEF new
  <2>4. {e.tx : e \in Range(t)} = {e.tx : e \in Range(pool.entries)} \cup {tx}
    BY <2>2, <2>3
  <2> QED
    BY <2>1, <2>4 DEF PoolTxs
<1>11. UNION {Inputs(u) : u \in PoolTxs(pool) \cup {tx}}
         = (UNION {Inputs(u) : u \in PoolTxs(pool)}) \cup Inputs(tx)
  OBVIOUS
<1>12. Consistent(Add(pool, tx, fee))
  BY <1>6, <1>9, <1>10, <1>11 DEF Consistent, Disjoint
<1> QED
  BY <1>1, <1>4, <1>6, <1>7, <1>8, <1>9, <1>12
     DEF Pool, Sorted

\* What purge_confirmed does to a consistent pool: it stays consistent and
\* sorted, and loses exactly the entries with the given ids.
LEMMA PurgeKeeps ==
    ASSUME NEW pool \in Pool, Consistent(pool), Sorted(pool), NEW ids
    PROVE  /\ PurgeConfirmed(pool, ids) \in Pool
           /\ Consistent(PurgeConfirmed(pool, ids))
           /\ Sorted(PurgeConfirmed(pool, ids))
           /\ Range(PurgeConfirmed(pool, ids).entries)
                = {e \in Range(pool.entries) : e.tx \notin ids}
PROOF
<1> DEFINE s == pool.entries
           gone == {i \in DOMAIN s : s[i].tx \in ids}
           K == DOMAIN s \ gone
           t == Arrange(s, K, AsListed(s))
<1>1. s \in Seq(Entry) /\ pool.reserved_inputs \in SUBSET OutPoint
  BY DEF Pool
<1>2. Orders(AsListed(s), K)
  BY <1>1, ListOrder
<1>3. t \in Seq(Entry) /\ Range(t) = {s[i] : i \in K}
  BY <1>1, <1>2, ArrangeElements
<1>4. {s[i] : i \in K} = {e \in Range(s) : e.tx \notin ids}
  BY DEF Range
<1>5. Disjoint(s)
  BY DEF Consistent, Disjoint
<1>6. Disjoint(t)
  BY ZenonT(40), <1>1, <1>2, <1>5, ArrangeDisjoint DEF Disjoint
<1>7. \A i, j \in DOMAIN t : i < j => t[i].fee >= t[j].fee
  <2>1. PICK from : Rearranges(t, s, K, AsListed(s), from)
    BY <1>1, <1>2, ArrangeRearranges
  <2> HIDE DEF t
  <2>2. /\ DOMAIN t = 1..Cardinality(K)
        /\ \A k \in DOMAIN t : from[k] \in DOMAIN s /\ t[k] = s[from[k]]
        /\ \A k, l \in DOMAIN t : k < l => <<from[k], from[l]>> \in AsListed(s)
    BY <2>1 DEF Rearranges
  <2> QED
    BY <2>2 DEF Sorted, AsListed
<1> HIDE DEF t
<1>8. PurgeConfirmed(pool, ids) =
        [entries |-> t,
         reserved_inputs |-> pool.reserved_inputs \ UNION {Inputs(s[i].tx) : i \in gone}]
  BY DEF PurgeConfirmed, t
<1>9. PoolTxs(PurgeConfirmed(pool, ids)) = {s[i].tx : i \in K}
  BY <1>3, <1>8 DEF PoolTxs
<1>10. pool.reserved_inputs = UNION {Inputs(s[i].tx) : i \in DOMAIN s}
  BY DEF Consistent, PoolTxs, Range
<1>11. PurgeConfirmed(pool, ids).reserved_inputs = UNION {Inputs(s[i].tx) : i \in K}
  <2>1. ASSUME NEW op PROVE op \in PurgeConfirmed(pool, ids).reserved_inputs
                             <=> \E i \in K : op \in Inputs(s[i].tx)
    <3>1. \A i \in K, j \in gone : i # j /\ i \in DOMAIN s /\ j \in DOMAIN s
      OBVIOUS
    <3>2. \A i \in K, j \in gone : op \in Inputs(s[i].tx) => op \notin Inputs(s[j].tx)
      BY <1>5, <3>1 DEF Disjoint
    <3> QED
      BY <1>8, <1>10, <3>2
  <2> QED
    BY <2>1
<1>12. UNION {Inputs(s[i].tx) : i \in K} = UNION {Inputs(tx) : tx \in {s[i].tx : i \in K}}
  OBVIOUS
<1> HIDE DEF s, gone, K
<1>13. Consistent(PurgeConfirmed(pool, ids))
  <2>1. PurgeConfirmed(pool, ids).reserved_inputs
          = UNION {Inputs(tx) : tx \in PoolTxs(PurgeConfirmed(pool, ids))}
    BY <1>9, <1>11, <1>12
  <2>2. PurgeConfirmed(pool, ids).entries = t
    BY <1>8
  <2> QED
    BY <1>6, <2>1, <2>2 DEF Consistent, Disjoint
<1>14. Sorted(PurgeConfirmed(pool, ids))
  BY <1>7, <1>8 DEF Sorted
<1>15. PurgeConfirmed(pool, ids) \in Pool
  BY <1>1, <1>3, <1>8 DEF Pool
<1> QED
  BY <1>3, <1>4, <1>8, <1>13, <1>14, <1>15 DEF s

-----------------------------------------------------------------------------
\* The fees of a block.

LEMMA UpToFinite ==
    ASSUME NEW k \in Nat
    PROVE  IsFiniteSet(1..k) /\ Cardinality(1..k) = k
PROOF
  BY FS_Interval

\* Fewer terms, none of them larger, do not add up to more.
LEMMA FewerAndSmaller ==
    ASSUME NEW A, NEW B, IsFiniteSet(A), IsFiniteSet(B), Cardinality(A) <= Cardinality(B),
           NEW f, \A x \in A \cup B : f[x] \in Nat, \A a \in A, b \in B : f[a] <= f[b]
    PROVE  Sum(f, A) <= Sum(f, B)
PROOF
<1> DEFINE Matches(T, U) == Cardinality(U) = Cardinality(T) /\ Sum(f, T) <= Sum(f, U)
           good == {T \in SUBSET A : \E U \in SUBSET B : Matches(T, U)}
<1>1. {} \in good
  <2>1. Matches({}, {})
    BY SumOfNone
  <2> QED
    BY <2>1
<1>2. ASSUME NEW T \in good, NEW x \in A \ T PROVE T \cup {x} \in good
  <2>1. PICK U \in SUBSET B : Matches(T, U)
    OBVIOUS
  <2>2. IsFiniteSet(T) /\ IsFiniteSet(U) /\ T \cup {x} \in SUBSET A
    BY FS_Subset
  <2>3. /\ Cardinality(T \cup {x}) = Cardinality(T) + 1
        /\ IsFiniteSet(T \cup {x})
        /\ Cardinality(T) \in Nat
    BY <2>2, FS_AddElement, FS_CardinalityType
  <2>4. Cardinality(T \cup {x}) <= Cardinality(A) /\ Cardinality(A) \in Nat /\ Cardinality(B) \in Nat
    BY <2>2, FS_Subset, FS_CardinalityType
  <2>5. Cardinality(U) < Cardinality(B)
    BY <2>1, <2>3, <2>4
  <2>6. PICK y \in B : y \notin U
    <3>1. U # B
      BY <2>4, <2>5
    <3> QED
      BY <3>1
  <2>7. Cardinality(U \cup {y}) = Cardinality(U) + 1
    BY <2>2, <2>6, FS_AddElement
  <2>8. f[x] \in Int /\ f[y] \in Int /\ f[x] <= f[y]
    OBVIOUS
  <2>9. (\A v \in T : f[v] \in Int) /\ \A v \in U : f[v] \in Int
    OBVIOUS
  <2>10. Sum(f, T \cup {x}) = f[x] + Sum(f, T) /\ Sum(f, U \cup {y}) = f[y] + Sum(f, U)
    BY <2>2, <2>6, <2>8, <2>9, SumAdds
  <2>11. Sum(f, T) \in Int /\ Sum(f, U) \in Int
    BY <2>2, <2>9, SumType
  <2>12. Matches(T \cup {x}, U \cup {y})
    BY <2>1, <2>3, <2>7, <2>8, <2>10, <2>11
  <2>13. U \cup {y} \in SUBSET B
    BY <2>6
  <2> QED
    BY <2>2, <2>12, <2>13
<1>3. SUBSET A = good
  <2>1. good \in SUBSET (SUBSET A)
    OBVIOUS
  <2> HIDE DEF good
  <2>2. \A T \in good : \A x \in A \ T : T \cup {x} \in good
    BY <1>2
  <2> QED
    BY <1>1, <2>1, <2>2, SubsetsReached
<1>4. PICK U \in SUBSET B : Matches(A, U)
  BY <1>3
<1>5. Sum(f, U) <= Sum(f, B)
  <2> DEFINE R == B \ U
  <2>1. IsFiniteSet(U) /\ IsFiniteSet(R) /\ U \cup R = B /\ U \cap R = {}
    BY FS_Subset
  <2>2. (\A v \in U : f[v] \in Nat) /\ (\A v \in R : f[v] \in Nat) /\ \A v \in B : f[v] \in Int
    OBVIOUS
  <2> HIDE DEF R
  <2>3. Sum(f, B) = Sum(f, U) + Sum(f, R)
    BY <2>1, <2>2, SumSplits
  <2>4. Sum(f, U) \in Nat /\ Sum(f, R) \in Nat
    BY <2>1, <2>2, SumNat
  <2> QED
    BY <2>3, <2>4
<1>6. Sum(f, A) \in Int /\ Sum(f, U) \in Int /\ Sum(f, B) \in Int
  <2>1. IsFiniteSet(U) /\ \A v \in A \cup B : f[v] \in Int
    BY FS_Subset
  <2> QED
    BY <2>1, SumType
<1> QED
  BY <1>4, <1>5, <1>6

\* The first entries of a sorted pool pay the most: no choice of entries that fits
\* into a block pays more than total_fees of the same limit.
LEMMA FirstEntriesPayMost ==
    ASSUME NEW pool \in Pool, Sorted(pool), NEW limit \in Nat,
           NEW K \in SUBSET (DOMAIN pool.entries), Cardinality(K) <= limit,
           NEW f, \A i \in DOMAIN pool.entries : f[i] = pool.entries[i].fee
    PROVE  Sum(f, K) <= TotalFees(pool, limit)
PROOF
<1> DEFINE s == pool.entries
           M == FirstEntries(pool, limit)
           g == [i \in M |-> s[i].fee]
<1>1. s \in Seq(Entry) /\ Len(s) \in Nat /\ DOMAIN s = 1..Len(s)
  BY DEF Pool
<1>2. \A i \in DOMAIN s : f[i] \in Nat /\ f[i] = s[i].fee
  <2> SUFFICES ASSUME NEW i \in DOMAIN s PROVE s[i].fee \in Nat
    OBVIOUS
  <2>1. s[i] \in Entry
    BY <1>1
  <2> QED
    BY <2>1 DEF Entry
<1> HIDE DEF s
<1>3. PICK m \in Nat : /\ M = 1..m
                       /\ m <= Len(s)
                       /\ m <= limit
                       /\ m = Len(s) \/ m = limit
  BY <1>1 DEF FirstEntries, s
<1> HIDE DEF M
<1>4. IsFiniteSet(DOMAIN s) /\ Cardinality(DOMAIN s) = Len(s)
  <2>1. IsFiniteSet(1..Len(s)) /\ Cardinality(1..Len(s)) = Len(s)
    <3>1. Len(s) \in Nat
      BY <1>1
    <3> QED
      BY ONLY <3>1, UpToFinite
  <2> QED
    BY <1>1, <2>1
<1>5. IsFiniteSet(M) /\ Cardinality(M) = m
  BY <1>3, UpToFinite
<1>6. K \in SUBSET (DOMAIN s) /\ M \in SUBSET (DOMAIN s)
  BY <1>1, <1>3 DEF s
<1>7. IsFiniteSet(K) /\ Cardinality(K) <= Len(s) /\ Cardinality(K) \in Nat
  BY <1>4, <1>6, FS_Subset, FS_CardinalityType
<1>8. Cardinality(K) <= m
  BY <1>3, <1>7
<1> DEFINE both == K \cap M
           out == K \ M
           in == M \ K
<1>9. /\ Cardinality(out) = Cardinality(K) - Cardinality(both)
      /\ Cardinality(in) = Cardinality(M) - Cardinality(both)
      /\ Cardinality(both) \in Nat
      /\ IsFiniteSet(both) /\ IsFiniteSet(out) /\ IsFiniteSet(in)
  <2>1. IsFiniteSet(both) /\ IsFiniteSet(out) /\ IsFiniteSet(in)
    BY <1>5, <1>7, FS_Subset
  <2>2. Cardinality(out) = Cardinality(K) - Cardinality(both)
    BY <1>7, FS_Difference
  <2>3. Cardinality(in) = Cardinality(M) - Cardinality(M \cap K)
    BY <1>5, FS_Difference
  <2>4. M \cap K = both
    OBVIOUS
  <2> QED
    BY <2>1, <2>2, <2>3, <2>4, FS_CardinalityType
<1>10. Cardinality(out) <= Cardinality(in)
  <2> HIDE DEF both, out, in
  <2> QED
    BY <1>5, <1>7, <1>8, <1>9
<1>11. \A i \in out, j \in in : f[i] <= f[j]
  <2> SUFFICES ASSUME NEW i \in out, NEW j \in in PROVE f[i] <= f[j]
    OBVIOUS
  <2>1. i \in DOMAIN s /\ j \in DOMAIN s /\ j < i
    <3>1. i \in DOMAIN s /\ j \in DOMAIN s
      BY <1>6
    <3>2. M = 1..m /\ i \notin M /\ j \in M /\ i \in 1..Len(s)
      BY <1>1, <1>3, <3>1
    <3>3. i \in Nat /\ i >= 1 /\ j \in Nat /\ i > m /\ j <= m
      BY ONLY <1>1, <3>2, m \in Nat
    <3> QED
      BY <3>1, <3>3
  <2>2. s[j].fee >= s[i].fee
    BY <2>1 DEF Sorted, s
  <2> QED
    BY <1>2, <2>1, <2>2
<1>12. /\ \A i \in out \cup in : f[i] \in Nat
       /\ \A i \in both \cup out : f[i] \in Int
       /\ \A i \in both \cup in : f[i] \in Int
  BY <1>2, <1>6
<1>13. /\ both \cup out = K /\ both \cap out = {}
       /\ both \cup in = M /\ both \cap in = {}
  OBVIOUS
<1> HIDE DEF both, out, in
<1>14. Sum(f, out) <= Sum(f, in)
  BY <1>9, <1>10, <1>11, <1>12, FewerAndSmaller
<1>15. Sum(f, K) = Sum(f, both) + Sum(f, out) /\ Sum(f, M) = Sum(f, both) + Sum(f, in)
  BY <1>9, <1>12, <1>13, SumSplits
<1>16. Sum(f, both) \in Int /\ Sum(f, out) \in Int /\ Sum(f, in) \in Int
  BY <1>9, <1>12, SumType
<1>17. TotalFees(pool, limit) = Sum(f, M)
  <2>1. TotalFees(pool, limit) = Sum(g, M)
    BY DEF TotalFees, SumFunction, Sum, s, M
  <2>2. \A i \in M : f[i] \in Int /\ f[i] = g[i]
    BY <1>2, <1>6
  <2> HIDE DEF g
  <2> QED
    BY <1>5, <2>1, <2>2, SumsAgree
<1> QED
  BY <1>14, <1>15, <1>16, <1>17
=============================================================================
