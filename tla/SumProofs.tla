----------------------------- MODULE SumProofs -----------------------------
(***************************************************************************)
(* Facts the other proofs cite: about sums of natural numbers over finite  *)
(* sets, which are recursive functions, by induction on the subsets of the *)
(* set; and about the split of VUsers among agents (VUserShare).           *)
(***************************************************************************)
EXTENDS VUserShare, FiniteSetTheorems, TLAPS

(* Induction over the subsets of a finite set, without an operator.        *)
LEMMA SubsetInduction ==
  ASSUME NEW S, IsFiniteSet(S), NEW C,
         \A T \in SUBSET S : (\A U \in SUBSET T : U # T => U \in C) => T \in C
  PROVE  \A T \in SUBSET S : T \in C
  <1> DEFINE Bad == {T \in SUBSET S : T \notin C}
  <1>1. IsWellFoundedOn(StrictSubsetOrdering(S), SUBSET S)
    BY FS_StrictSubsetOrderingWellFounded, FS_FiniteSubsetsOfFinite
  <1>2. SUFFICES ASSUME Bad # {} PROVE FALSE
    OBVIOUS
  <1>3. PICK T \in Bad : \A U \in Bad : ~ (<<U, T>> \in StrictSubsetOrdering(S))
    <2>1. Bad \subseteq SUBSET S
      OBVIOUS
    <2> HIDE DEF Bad
    <2> QED BY <1>1, <1>2, <2>1, WFMin
  <1>4. \A U \in SUBSET T : U # T => U \in C
    BY <1>3 DEF StrictSubsetOrdering
  <1> QED BY <1>3, <1>4

(* The element the sum takes first, and the equation of the recursive      *)
(* function behind SumFunctionOnSet.                                       *)
First(s) == CHOOSE x \in s : TRUE

Equation(f, S, iter) ==
    iter = [s \in SUBSET S |-> IF s = {} THEN 0 ELSE f[First(s)] + iter[s \ {First(s)}]]

LEMMA SumIsSolution ==
  ASSUME NEW S, NEW f
  PROVE  SumFunctionOnSet(f, S) = (CHOOSE iter : Equation(f, S, iter))[S]
  BY DEF SumFunctionOnSet, FoldFunctionOnSet, MapThenFoldSet, Equation, First

LEMMA FirstIsMember == \A s : s # {} => First(s) \in s
  BY DEF First

(* Two solutions agree where both are defined.                             *)
LEMMA SolutionsAgree ==
  ASSUME NEW S, NEW T, IsFiniteSet(T), T \subseteq S, NEW f, NEW i, NEW j,
         Equation(f, S, i), Equation(f, T, j)
  PROVE  \A u \in SUBSET T : i[u] = j[u]
  <1> DEFINE C == {u \in SUBSET T : i[u] = j[u]}
  <1>1. ASSUME NEW u \in SUBSET T, \A v \in SUBSET u : v # u => v \in C
        PROVE  u \in C
    <2>1. CASE u = {}
      BY <2>1 DEF Equation
    <2>2. CASE u # {}
      <3>1. First(u) \in u
        BY <2>2, FirstIsMember
      <3>2. u \ {First(u)} \in C
        BY <1>1, <3>1
      <3>3. i[u] = f[First(u)] + i[u \ {First(u)}] /\ j[u] = f[First(u)] + j[u \ {First(u)}]
        BY <2>2 DEF Equation
      <3> QED BY <3>2, <3>3
    <2> QED BY <2>1, <2>2
  <1> HIDE DEF C
  <1>2. \A u \in SUBSET T : u \in C
    BY <1>1, SubsetInduction
  <1> QED BY <1>2 DEF C

(* There is a solution.                                                    *)
LEMMA SolutionExists ==
  ASSUME NEW S, IsFiniteSet(S), NEW f
  PROVE  \A T \in SUBSET S : \E iter : Equation(f, T, iter)
  <1> DEFINE C == {T \in SUBSET S : \E iter : Equation(f, T, iter)}
  <1>1. ASSUME NEW T \in SUBSET S, \A U \in SUBSET T : U # T => U \in C
        PROVE  T \in C
    <2> DEFINE G(s) == (CHOOSE it : Equation(f, s, it))
               x == First(T)
               h == [s \in SUBSET T |->
                       IF s # T THEN G(s)[s]
                       ELSE IF T = {} THEN 0 ELSE f[x] + G(T \ {x})[T \ {x}]]
    <2>1. ASSUME NEW s \in SUBSET T, s # T PROVE Equation(f, s, G(s))
      <3>1. \E it : Equation(f, s, it)
        BY <1>1, <2>1
      <3> HIDE DEF Equation
      <3> QED BY <3>1
    <2>2. ASSUME NEW s \in SUBSET T, s # T, s # {}
          PROVE  G(s)[s] = f[First(s)] + G(s \ {First(s)})[s \ {First(s)}]
      <3> DEFINE u == s \ {First(s)}
      <3>1. First(s) \in s /\ u \in SUBSET T /\ u # T /\ u \subseteq s
        BY <2>2, FirstIsMember
      <3>2. Equation(f, s, G(s)) /\ Equation(f, u, G(u))
        BY <2>1, <2>2, <3>1
      <3>3. IsFiniteSet(u)
        BY <3>1, FS_Subset
      <3> HIDE DEF G, u
      <3>4. G(s)[u] = G(u)[u]
        BY <3>1, <3>2, <3>3, SolutionsAgree
      <3>5. G(s)[s] = f[First(s)] + G(s)[u]
        BY <2>2, <3>2 DEF Equation, u
      <3> QED BY <3>4, <3>5 DEF u
    <2>3. ASSUME NEW s \in SUBSET T, s # T, s = {} PROVE G(s)[s] = 0
      <3>1. Equation(f, s, G(s))
        BY <2>1, <2>3
      <3> HIDE DEF G
      <3> QED BY <2>3, <3>1 DEF Equation
    <2> HIDE DEF G
    <2>4. ASSUME NEW s \in SUBSET T
          PROVE  h[s] = IF s = {} THEN 0 ELSE f[First(s)] + h[s \ {First(s)}]
      <3>1. CASE s = {}
        BY <2>3, <3>1
      <3>2. CASE s # {}
        <4>1. First(s) \in s
          BY <3>2, FirstIsMember
        <4>2. s \ {First(s)} \in SUBSET T /\ s \ {First(s)} # T
          BY <4>1
        <4>3. h[s \ {First(s)}] = G(s \ {First(s)})[s \ {First(s)}]
          BY <4>2
        <4> QED BY <2>2, <3>2, <4>3
      <3> QED BY <3>1, <3>2
    <2>5. h = [s \in SUBSET T |-> h[s]]
      OBVIOUS
    <2> HIDE DEF h
    <2>6. h = [s \in SUBSET T |-> IF s = {} THEN 0 ELSE f[First(s)] + h[s \ {First(s)}]]
      BY <2>4, <2>5
    <2> QED BY <2>6 DEF Equation
  <1> HIDE DEF C
  <1>2. \A T \in SUBSET S : T \in C
    BY <1>1, SubsetInduction
  <1> QED BY <1>2 DEF C

(* The sum over no element, and over an element and the others.            *)
LEMMA SumUnfolds ==
  ASSUME NEW S, IsFiniteSet(S), NEW f
  PROVE  /\ SumFunctionOnSet(f, {}) = 0
         /\ S # {} => SumFunctionOnSet(f, S)
                        = f[First(S)] + SumFunctionOnSet(f, S \ {First(S)})
  <1> DEFINE G(s) == CHOOSE it : Equation(f, s, it)
             R == S \ {First(S)}
  <1>1. {} \in SUBSET S /\ S \in SUBSET S /\ R \in SUBSET S
    OBVIOUS
  <1>2. ASSUME NEW s \in SUBSET S PROVE Equation(f, s, G(s))
    <2>1. \E it : Equation(f, s, it)
      BY SolutionExists
    <2> QED BY <2>1
  <1>3. Equation(f, {}, G({})) /\ Equation(f, S, G(S)) /\ Equation(f, R, G(R))
    BY <1>1, <1>2
  <1>4. \A s : SumFunctionOnSet(f, s) = G(s)[s]
    BY SumIsSolution
  <1>5. IsFiniteSet(R)
    BY FS_Subset
  <1> HIDE DEF G, R
  <1>6. G({})[{}] = 0
    BY <1>3 DEF Equation
  <1>7. G(S)[R] = G(R)[R]
    BY <1>1, <1>3, <1>5, SolutionsAgree
  <1>8. S # {} => G(S)[S] = f[First(S)] + G(S)[R]
    BY <1>3 DEF Equation, R
  <1> QED BY <1>4, <1>6, <1>7, <1>8 DEF R
-----------------------------------------------------------------------------
(* The sum of natural numbers is one.                                      *)
LEMMA SumType ==
  ASSUME NEW S, IsFiniteSet(S), NEW f, \A x \in S : f[x] \in Nat
  PROVE  SumFunctionOnSet(f, S) \in Nat
  <1> DEFINE C == {T \in SUBSET S : SumFunctionOnSet(f, T) \in Nat}
  <1>1. ASSUME NEW T \in SUBSET S, \A U \in SUBSET T : U # T => U \in C
        PROVE  T \in C
    <2>1. IsFiniteSet(T)
      BY FS_Subset
    <2>2. CASE T = {}
      <3>1. SumFunctionOnSet(f, T) = 0
        BY <2>1, <2>2, SumUnfolds
      <3> QED BY <3>1
    <2>3. CASE T # {}
      <3>1. First(T) \in T /\ T \ {First(T)} \in C
        BY <1>1, <2>3, FirstIsMember
      <3>2. SumFunctionOnSet(f, T) = f[First(T)] + SumFunctionOnSet(f, T \ {First(T)})
        BY <2>1, <2>3, SumUnfolds
      <3>3. f[First(T)] \in Nat /\ SumFunctionOnSet(f, T \ {First(T)}) \in Nat
        BY <3>1
      <3>4. SumFunctionOnSet(f, T) \in Nat
        BY <3>2, <3>3
      <3> QED BY <3>4
    <2> QED BY <2>2, <2>3
  <1> HIDE DEF C
  <1>2. S \in C
    BY <1>1, SubsetInduction
  <1> QED BY <1>2 DEF C

(* The sum does not depend on the order: any element can be taken out.     *)
LEMMA SumTakesOut ==
  ASSUME NEW S, IsFiniteSet(S), NEW f, \A x \in S : f[x] \in Nat, NEW y \in S
  PROVE  SumFunctionOnSet(f, S) = f[y] + SumFunctionOnSet(f, S \ {y})
  <1> DEFINE sum(T) == SumFunctionOnSet(f, T)
             C == {T \in SUBSET S : \A x \in T : sum(T) = f[x] + sum(T \ {x})}
  <1>0. \A T \in SUBSET S : IsFiniteSet(T) /\ sum(T) \in Nat
    BY FS_Subset, SumType
  <1>1. ASSUME NEW T \in SUBSET S, \A U \in SUBSET T : U # T => U \in C
        PROVE  T \in C
    <2> SUFFICES ASSUME NEW x \in T PROVE sum(T) = f[x] + sum(T \ {x})
      OBVIOUS
    <2> DEFINE c == First(T)
    <2>1. c \in T /\ sum(T) = f[c] + sum(T \ {c})
      BY <1>0, SumUnfolds, FirstIsMember
    <2>2. CASE x # c
      <3>1. sum(T \ {c}) = f[x] + sum((T \ {c}) \ {x})
        BY <1>1, <2>1, <2>2
      <3>2. sum(T \ {x}) = f[c] + sum((T \ {x}) \ {c})
        BY <1>1, <2>1, <2>2
      <3>3. (T \ {c}) \ {x} = (T \ {x}) \ {c}
        OBVIOUS
      <3>4. f[x] \in Nat /\ f[c] \in Nat /\ sum((T \ {c}) \ {x}) \in Nat
        BY <1>0, <2>1
      <3> HIDE DEF sum, c
      <3> QED BY <2>1, <3>1, <3>2, <3>3, <3>4
    <2> QED BY <2>1, <2>2
  <1> HIDE DEF C
  <1>2. S \in C
    BY <1>1, SubsetInduction
  <1> QED BY <1>2 DEF C

(* Sums compare as their terms do.                                         *)
LEMMA SumMonotone ==
  ASSUME NEW S, IsFiniteSet(S), NEW f, NEW g,
         \A x \in S : f[x] \in Nat /\ g[x] \in Nat /\ f[x] <= g[x]
  PROVE  SumFunctionOnSet(f, S) <= SumFunctionOnSet(g, S)
  <1> DEFINE C == {T \in SUBSET S : SumFunctionOnSet(f, T) <= SumFunctionOnSet(g, T)}
  <1>1. ASSUME NEW T \in SUBSET S, \A U \in SUBSET T : U # T => U \in C
        PROVE  T \in C
    <2>1. IsFiniteSet(T)
      BY FS_Subset
    <2>2. CASE T = {}
      BY <2>1, <2>2, SumUnfolds
    <2>3. CASE T # {}
      <3> DEFINE R == T \ {First(T)}
      <3>1. First(T) \in T /\ R \in C /\ IsFiniteSet(R) /\ R \subseteq S
        BY <1>1, <2>1, <2>3, FirstIsMember, FS_Subset
      <3>2. SumFunctionOnSet(f, R) \in Nat /\ SumFunctionOnSet(g, R) \in Nat
        BY <3>1, SumType
      <3>3. /\ SumFunctionOnSet(f, T) = f[First(T)] + SumFunctionOnSet(f, R)
            /\ SumFunctionOnSet(g, T) = g[First(T)] + SumFunctionOnSet(g, R)
        BY <2>1, <2>3, SumUnfolds
      <3> QED BY <3>1, <3>2, <3>3
    <2> QED BY <2>2, <2>3
  <1> HIDE DEF C
  <1>2. S \in C
    BY <1>1, SubsetInduction
  <1> QED BY <1>2 DEF C

(* Equal terms make equal sums.                                            *)
LEMMA SumOfEquals ==
  ASSUME NEW S, IsFiniteSet(S), NEW f, NEW g,
         \A x \in S : f[x] \in Nat /\ f[x] = g[x]
  PROVE  SumFunctionOnSet(f, S) = SumFunctionOnSet(g, S)
  <1>1. SumFunctionOnSet(f, S) \in Nat /\ SumFunctionOnSet(g, S) \in Nat
    BY SumType
  <1>2. SumFunctionOnSet(f, S) <= SumFunctionOnSet(g, S)
    BY SumMonotone
  <1>3. SumFunctionOnSet(g, S) <= SumFunctionOnSet(f, S)
    BY SumMonotone
  <1> QED BY <1>1, <1>2, <1>3

(* Terms that are zero do not count.                                       *)
LEMMA SumIgnoresZeros ==
  ASSUME NEW S, IsFiniteSet(S), NEW T \in SUBSET S, NEW f,
         \A x \in S : f[x] \in Nat /\ (x \notin T => f[x] = 0)
  PROVE  SumFunctionOnSet(f, S) = SumFunctionOnSet(f, T)
  <1> DEFINE C == {U \in SUBSET S : SumFunctionOnSet(f, U) = SumFunctionOnSet(f, U \cap T)}
  <1>1. ASSUME NEW U \in SUBSET S, \A V \in SUBSET U : V # U => V \in C
        PROVE  U \in C
    <2>1. CASE U = {}
      <3>1. U \cap T = U
        BY <2>1
      <3> QED BY <3>1
    <2>2. CASE U # {}
      <3> DEFINE x == First(U)
                 V == U \ {x}
      <3>1. x \in U /\ V \in C /\ IsFiniteSet(U) /\ IsFiniteSet(U \cap T) /\ IsFiniteSet(V)
        BY <1>1, <2>2, FirstIsMember, FS_Subset
      <3>2. /\ SumFunctionOnSet(f, U) = f[x] + SumFunctionOnSet(f, V)
            /\ SumFunctionOnSet(f, V) = SumFunctionOnSet(f, V \cap T)
            /\ SumFunctionOnSet(f, V) \in Nat
        BY <2>2, <3>1, SumUnfolds, SumType
      <3>3. CASE x \in T
        <4>1. V \cap T = (U \cap T) \ {x} /\ x \in U \cap T /\ \A y \in U \cap T : f[y] \in Nat
          BY <3>1, <3>3
        <4> HIDE DEF x, V
        <4>2. SumFunctionOnSet(f, U \cap T) = f[x] + SumFunctionOnSet(f, (U \cap T) \ {x})
          BY <3>1, <4>1, SumTakesOut
        <4> QED BY <3>2, <4>1, <4>2
      <3>4. CASE x \notin T
        <4>1. V \cap T = U \cap T /\ f[x] = 0
          BY <3>1, <3>4
        <4> HIDE DEF x, V
        <4>2. SumFunctionOnSet(f, U) = SumFunctionOnSet(f, V)
          BY <3>2, <4>1
        <4> QED BY <3>2, <4>1, <4>2
      <3> QED BY <3>3, <3>4
    <2> QED BY <2>1, <2>2
  <1> HIDE DEF C
  <1>2. S \in C
    BY <1>1, SubsetInduction
  <1>3. S \cap T = T
    OBVIOUS
  <1> QED BY <1>2, <1>3 DEF C

(* A sum over one element at most.                                         *)
LEMMA SumOfOne ==
  ASSUME NEW S, NEW f, \A x, y \in S : x = y, \A x \in S : f[x] \in Nat
  PROVE  /\ S = {} => SumFunctionOnSet(f, S) = 0
         /\ \A x \in S : SumFunctionOnSet(f, S) = f[x]
         /\ SumFunctionOnSet(f, S) \in Nat
  <1>1. SumFunctionOnSet(f, {}) = 0
    BY SumUnfolds, FS_EmptySet
  <1>2. ASSUME NEW x \in S PROVE SumFunctionOnSet(f, S) = f[x]
    <2>1. S = {x} /\ S \ {x} = {} /\ f[x] \in Nat
      OBVIOUS
    <2>2. IsFiniteSet(S)
      BY <2>1, FS_Singleton
    <2>3. SumFunctionOnSet(f, S) = f[x] + SumFunctionOnSet(f, S \ {x})
      BY <2>2, SumTakesOut
    <2> QED BY <1>1, <2>1, <2>3
  <1> QED BY <1>1, <1>2

(* A sum of q for every element, and one more for some of them.            *)
LEMMA SumOfShares ==
  ASSUME NEW S, IsFiniteSet(S), NEW more \in SUBSET S, NEW q \in Nat, NEW f,
         \A x \in S : f[x] = IF x \in more THEN q + 1 ELSE q
  PROVE  SumFunctionOnSet(f, S) = q * Cardinality(S) + Cardinality(more)
  <1> DEFINE C == {T \in SUBSET S : SumFunctionOnSet(f, T)
                                     = q * Cardinality(T) + Cardinality(T \cap more)}
  <1>1. ASSUME NEW T \in SUBSET S, \A U \in SUBSET T : U # T => U \in C
        PROVE  T \in C
    <2>1. IsFiniteSet(T)
      BY FS_Subset
    <2>2. CASE T = {}
      BY <2>1, <2>2, SumUnfolds, FS_EmptySet
    <2>3. CASE T # {}
      <3> DEFINE x == First(T)
                 R == T \ {x}
                 n == Cardinality(R)
                 m == Cardinality(R \cap more)
      <3>1. x \in T /\ R \in C /\ IsFiniteSet(R)
        BY <1>1, <2>1, <2>3, FirstIsMember, FS_Subset
      <3>2. SumFunctionOnSet(f, T) = f[x] + (q * n + m)
        BY <2>1, <2>3, <3>1, SumUnfolds
      <3>3. Cardinality(T) = n + 1
        <4>1. T = R \cup {x} /\ x \notin R
          BY <3>1
        <4> HIDE DEF R
        <4> QED BY <3>1, <4>1, FS_AddElement
      <3>4. Cardinality(T \cap more) = IF x \in more THEN m + 1 ELSE m
        <4>1. IsFiniteSet(R \cap more)
          BY <3>1, FS_Intersection
        <4>2. CASE x \in more
          <5>1. T \cap more = (R \cap more) \cup {x} /\ x \notin R \cap more
            BY <3>1, <4>2
          <5> HIDE DEF R
          <5> QED BY <4>1, <4>2, <5>1, FS_AddElement
        <4>3. CASE x \notin more
          <5>1. T \cap more = R \cap more
            BY <4>3
          <5> QED BY <4>3, <5>1
        <4> QED BY <4>2, <4>3
      <3>5. n \in Nat /\ m \in Nat
        BY <3>1, FS_CardinalityType, FS_Intersection
      <3>6. f[x] = IF x \in more THEN q + 1 ELSE q
        BY <3>1
      <3>7. q * n \in Nat /\ q * (n + 1) = q * n + q
        BY <3>5
      <3> HIDE DEF x, n, m, R
      <3>8. SumFunctionOnSet(f, T) = q * (n + 1) + Cardinality(T \cap more)
        BY <3>2, <3>4, <3>5, <3>6, <3>7
      <3> QED BY <3>3, <3>8
    <2> QED BY <2>2, <2>3
  <1> HIDE DEF C
  <1>2. S \in C
    BY <1>1, SubsetInduction
  <1>3. S \cap more = more
    OBVIOUS
  <1> QED BY <1>2, <1>3 DEF C
-----------------------------------------------------------------------------
(* What Go's / and % are on natural numbers.                               *)
LEMMA DivMod ==
  ASSUME NEW t \in Nat, NEW k \in Nat \ {0}
  PROVE  /\ t \div k \in Nat
         /\ t % k \in 0 .. k - 1
         /\ t = k * (t \div k) + (t % k)
  <1>1. t \div k \in Int
    OBVIOUS
  <1>2. t = k * (t \div k) + (t % k)
    OBVIOUS
  <1>3. t % k \in 0 .. k - 1
    OBVIOUS
  <1>4. t \div k >= 0
    BY <1>1, <1>2, <1>3
  <1> QED BY <1>1, <1>2, <1>3, <1>4

(* Each agent of an allocation gets the quotient or one more, so any two   *)
(* agents of a run differ by one VUser at most.                            *)
LEMMA AllocationIsEven ==
  ASSUME NEW total \in Nat, NEW S, IsFiniteSet(S), S # {},
         NEW share \in Allocations(total, S), NEW a \in S
  PROVE  /\ share[a] \in Nat
         /\ share[a] >= total \div Cardinality(S)
         /\ share[a] <= total \div Cardinality(S) + 1
  <1>1. Cardinality(S) \in Nat \ {0}
    BY FS_CardinalityType, FS_EmptySet
  <1>2. total \div Cardinality(S) \in Nat
    BY <1>1, DivMod
  <1> DEFINE q == total \div Cardinality(S)
  <1>3. share[a] \in {q, q + 1}
    BY DEF Allocations
  <1> QED BY <1>2, <1>3

(* An allocation gives out all VUsers, and no more.                        *)
LEMMA AllocationIsTotal ==
  ASSUME NEW total \in Nat, NEW S, IsFiniteSet(S), S # {},
         NEW share \in Allocations(total, S)
  PROVE  SumFunctionOnSet(share, S) = total
  <1> DEFINE k == Cardinality(S)
             q == total \div k
  <1>1. k \in Nat \ {0}
    BY FS_CardinalityType, FS_EmptySet
  <1>2. q \in Nat /\ total = k * q + (total % k)
    BY <1>1, DivMod
  <1>3. PICK more \in SUBSET S : /\ Cardinality(more) = total % k
                                 /\ share = [a \in S |-> IF a \in more THEN q + 1 ELSE q]
    BY DEF Allocations
  <1>4. \A a \in S : share[a] = IF a \in more THEN q + 1 ELSE q
    BY <1>3
  <1> HIDE DEF q, k
  <1>5. SumFunctionOnSet(share, S) = q * Cardinality(S) + Cardinality(more)
    BY <1>2, <1>4, SumOfShares
  <1> QED BY <1>1, <1>2, <1>3, <1>5 DEF k
=============================================================================
