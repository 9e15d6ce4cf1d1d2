----------------------------- MODULE SumProofs -----------------------------
(***************************************************************************)
(* Theorems about the sum of a function over a finite set of its indices,  *)
(* SumFunctionOnSet, on which the accounts of Settlement and Acceptance    *)
(* are built: taking an index out of a sum, sums of equal terms, and the   *)
(* sum after the change of one term.                                       *)
(*                                                                         *)
(* The definition chooses the order of the terms, so everything rests on   *)
(* induction.  The induction theorems of the library take an operator as   *)
(* parameter; here induction is a fact about sets, NatInd and SetInd, and  *)
(* comes from the well-founded minimum theorem WFMin.  That a finite set   *)
(* of numbers has a largest comes from it as well.  At the end, what the   *)
(* models make of a set of numbers when they sort it.                      *)
(***************************************************************************)
EXTENDS Sequences, Functions, FiniteSetTheorems, WellFoundedInduction, TLAPS

(* A set of numbers with 0, and with the successors of its members, holds  *)
(* every number.                                                           *)
LEMMA NatInd ==
  ASSUME NEW S \in SUBSET Nat, 0 \in S, \A n \in S : n + 1 \in S
  PROVE  S = Nat
  <1> DEFINE T == Nat \ S
             R == {p \in Nat \X Nat : p[1] < p[2]}
  <1>1. IsWellFoundedOn(OpToRel(<, Nat), Nat)
    BY NatLessThanWellFounded
  <1>2. OpToRel(<, Nat) = {p \in Nat \X Nat : p[1] < p[2]}
    BY DEF OpToRel
  <1>3. IsWellFoundedOn(R, Nat)
    BY <1>1, <1>2, Zenon
  <1>4. SUFFICES ASSUME T # {} PROVE FALSE
    OBVIOUS
  <1>5. \E x \in T : \A y \in T : ~ (<<y, x>> \in R)
    <2> HIDE DEF T, R
    <2>1. T \subseteq Nat
      BY DEF T
    <2> QED BY <1>3, <1>4, <2>1, WFMin, Zenon
  <1>6. PICK x \in T : \A y \in T : ~ (y < x)
    BY <1>5
  <1>7. x # 0 /\ x - 1 \in Nat
    OBVIOUS
  <1>8. x - 1 \in T
    BY <1>7
  <1>9. QED
    BY <1>6, <1>7, <1>8

(* A family with the empty set, and with each of its members one element   *)
(* larger, holds every subset of a finite set.                             *)
LEMMA SetInd ==
  ASSUME NEW S, IsFiniteSet(S), NEW F, {} \in F,
         \A T \in SUBSET S, x \in S : T \in F /\ x \notin T => T \cup {x} \in F
  PROVE  \A T \in SUBSET S : T \in F
  <1> DEFINE N == {n \in Nat : \A T \in SUBSET S : Cardinality(T) = n => T \in F}
  <1>1. \A T \in SUBSET S : IsFiniteSet(T) /\ Cardinality(T) \in Nat
    BY FS_Subset, FS_CardinalityType
  <1>2. 0 \in N
    BY <1>1, FS_EmptySet
  <1>3. ASSUME NEW n \in N
        PROVE  n + 1 \in N
    <2>1. SUFFICES ASSUME NEW T \in SUBSET S, Cardinality(T) = n + 1
                   PROVE  T \in F
      OBVIOUS
    <2>2. T # {}
      BY <2>1, FS_EmptySet
    <2>3. PICK x \in T : TRUE
      BY <2>2
    <2>4. Cardinality(T \ {x}) = n
      BY <1>1, <2>1, <2>3, FS_RemoveElement
    <2>5. T \ {x} \in F
      BY <2>4
    <2>6. (T \ {x}) \cup {x} \in F
      BY <2>5
    <2>7. (T \ {x}) \cup {x} = T
      BY <2>3
    <2>8. QED
      BY <2>6, <2>7
  <1>4. N = Nat
    <2>1. N \in SUBSET Nat
      OBVIOUS
    <2> HIDE DEF N
    <2>2. QED
      BY <1>2, <1>3, <2>1, NatInd
  <1>5. QED
    BY <1>1, <1>4

(* A finite set of numbers with some member has a largest.                 *)
LEMMA HasLargest ==
  ASSUME NEW S \in SUBSET Nat, IsFiniteSet(S), S # {}
  PROVE  \E x \in S : \A y \in S : x >= y
  <1> DEFINE F == {T \in SUBSET S : T # {} => \E x \in T : \A y \in T : x >= y}
  <1>1. {} \in F
    OBVIOUS
  <1>2. ASSUME NEW T \in SUBSET S, NEW x \in S, T \in F, x \notin T
        PROVE  T \cup {x} \in F
    <2>1. SUFFICES \E z \in T \cup {x} : \A y \in T \cup {x} : z >= y
      OBVIOUS
    <2>2. CASE T = {}
      BY <2>2
    <2>3. CASE T # {}
      <3>1. PICK z \in T : \A y \in T : z >= y
        BY <1>2, <2>3
      <3>2. CASE z >= x
        BY <3>1, <3>2
      <3>3. CASE ~ (z >= x)
        <4>1. \A y \in T : x >= y
          BY <3>1, <3>3
        <4>2. QED
          BY <4>1
      <3>4. QED
        BY <3>2, <3>3
    <2>4. QED
      BY <2>2, <2>3
  <1>3. S \in F
    <2> HIDE DEF F
    <2>1. \A T \in SUBSET S, x \in S : T \in F /\ x \notin T => T \cup {x} \in F
      BY <1>2
    <2>2. \A T \in SUBSET S : T \in F
      BY <1>1, <2>1, SetInd
    <2>3. QED
      BY <2>2
  <1>4. QED
    BY <1>3

-----------------------------------------------------------------------------
(* The recursion behind SumFunctionOnSet(f, S).                            *)
First(T) == CHOOSE x \in T : TRUE
Rest(T) == T \ {First(T)}
Body(f, S, g) ==
  [T \in SUBSET S |-> IF T = {} THEN 0 ELSE f[First(T)] + g[Rest(T)]]
Partial(f, S) == CHOOSE g : g = Body(f, S, g)

(* The sum of the Folds module is the value of its partial sums.           *)
LEMMA SumIsPartial ==
  ASSUME NEW f, NEW S
  PROVE  SumFunctionOnSet(f, S) = Partial(f, S)[S]
  BY Zenon DEF SumFunctionOnSet, FoldFunctionOnSet, MapThenFoldSet, Partial, Body,
         First, Rest

(* What is left of a set when its first member is taken.                   *)
LEMMA RestIsSmaller ==
  ASSUME NEW S, IsFiniteSet(S), NEW T \in SUBSET S, T # {}
  PROVE  /\ First(T) \in T /\ Rest(T) \in SUBSET S
         /\ IsFiniteSet(T) /\ Cardinality(T) \in Nat
         /\ Cardinality(Rest(T)) = Cardinality(T) - 1
  <1>1. First(T) \in T
    BY DEF First
  <1>2. IsFiniteSet(T)
    BY FS_Subset
  <1>3. Cardinality(T) \in Nat
    BY <1>2, FS_CardinalityType
  <1>4. Cardinality(T \ {First(T)}) = Cardinality(T) - 1
    BY <1>1, <1>2, FS_RemoveElement
  <1>5. QED
    BY <1>1, <1>2, <1>3, <1>4 DEF Rest

(* The recursion is one: functions that obey it up to a cardinality exist  *)
(* for every cardinality.                                                  *)
LEMMA PartialExists ==
  ASSUME NEW f, NEW S, IsFiniteSet(S)
  PROVE  Partial(f, S) = Body(f, S, Partial(f, S))
  <1> DEFINE Obeys(g, n) ==
               \A T \in SUBSET S : Cardinality(T) <= n => g[T] = Body(f, S, g)[T]
             N == {n \in Nat : \E g : Obeys(g, n)}
  <1>1. \A T \in SUBSET S : Cardinality(T) \in Nat /\ Cardinality(T) <= Cardinality(S)
    BY FS_Subset, FS_CardinalityType
  <1>2. Cardinality(S) \in Nat
    BY FS_CardinalityType
  <1>3. 0 \in N
    <2>1. \A T \in SUBSET S : Cardinality(T) <= 0 => T = {}
      BY <1>1, FS_Subset, FS_EmptySet
    <2>2. Obeys([T \in SUBSET S |-> 0], 0)
      BY <2>1 DEF Body
    <2>3. QED
      BY <2>2
  <1>4. ASSUME NEW n \in N
        PROVE  n + 1 \in N
    <2>1. PICK g : Obeys(g, n)
      OBVIOUS
    <2> DEFINE h == Body(f, S, g)
    <2>2. ASSUME NEW T \in SUBSET S, Cardinality(T) <= n + 1
          PROVE  h[T] = Body(f, S, h)[T]
      <3>1. CASE T = {}
        BY <3>1 DEF Body
      <3>2. CASE T # {}
        <4>1. Rest(T) \in SUBSET S /\ Cardinality(Rest(T)) <= n
          BY <1>1, <2>2, <3>2, RestIsSmaller
        <4>2. g[Rest(T)] = h[Rest(T)]
          BY <2>1, <4>1
        <4>3. QED
          BY <3>2, <4>2 DEF Body
      <3>3. QED
        BY <3>1, <3>2
    <2>3. Obeys(h, n + 1)
      BY <2>2
    <2>4. QED
      BY <2>3
  <1>5. N = Nat
    <2>1. N \in SUBSET Nat
      OBVIOUS
    <2> HIDE DEF N
    <2>2. QED
      BY <1>3, <1>4, <2>1, NatInd
  <1>6. PICK g : Obeys(g, Cardinality(S))
    BY <1>2, <1>5
  <1> DEFINE h == Body(f, S, g)
  <1>7. \A T \in SUBSET S : g[T] = h[T]
    BY <1>1, <1>6
  <1>8. h = Body(f, S, h)
    <2>1. \A T \in SUBSET S : T # {} => g[Rest(T)] = h[Rest(T)]
      BY <1>7, RestIsSmaller
    <2>2. QED
      BY <2>1 DEF Body
  <1>9. QED
    <2> HIDE DEF h
    <2>1. \E k : k = Body(f, S, k)
      BY <1>8
    <2>2. QED
      BY <2>1 DEF Partial

(* The recursion does not depend on the set it started from.               *)
LEMMA PartialAgrees ==
  ASSUME NEW f, NEW S, IsFiniteSet(S), NEW T \in SUBSET S
  PROVE  \A U \in SUBSET T : Partial(f, T)[U] = Partial(f, S)[U]
  <1> DEFINE N == {n \in Nat : \A U \in SUBSET T :
                     Cardinality(U) <= n => Partial(f, T)[U] = Partial(f, S)[U]}
  <1>1. IsFiniteSet(T) /\ \A U \in SUBSET T : IsFiniteSet(U) /\ U \in SUBSET S
    BY FS_Subset
  <1>2. Partial(f, T) = Body(f, T, Partial(f, T))
    BY <1>1, PartialExists
  <1>3. Partial(f, S) = Body(f, S, Partial(f, S))
    BY PartialExists
  <1>4. Partial(f, T)[{}] = 0 /\ Partial(f, S)[{}] = 0
    BY <1>2, <1>3 DEF Body
  <1>5. \A U \in SUBSET T : U # {} =>
          /\ Partial(f, T)[U] = f[First(U)] + Partial(f, T)[Rest(U)]
          /\ Partial(f, S)[U] = f[First(U)] + Partial(f, S)[Rest(U)]
    BY <1>1, <1>2, <1>3 DEF Body
  <1>6. 0 \in N
    <2>1. \A U \in SUBSET T : Cardinality(U) <= 0 => U = {}
      BY <1>1, FS_EmptySet, FS_CardinalityType
    <2>2. QED
      BY <1>4, <2>1
  <1>7. ASSUME NEW n \in N
        PROVE  n + 1 \in N
    <2>1. ASSUME NEW U \in SUBSET T, Cardinality(U) <= n + 1
          PROVE  Partial(f, T)[U] = Partial(f, S)[U]
      <3>1. CASE U = {}
        BY <1>4, <3>1
      <3>2. CASE U # {}
        <4>1. Rest(U) \in SUBSET T /\ Cardinality(Rest(U)) <= n
          BY <1>1, <2>1, <3>2, RestIsSmaller
        <4>2. Partial(f, T)[Rest(U)] = Partial(f, S)[Rest(U)]
          BY <4>1
        <4>3. QED
          BY <1>5, <3>2, <4>2
      <3>3. QED
        BY <3>1, <3>2
    <2>2. QED
      BY <2>1
  <1>8. N = Nat
    <2>1. N \in SUBSET Nat
      OBVIOUS
    <2> HIDE DEF N
    <2>2. QED
      BY <1>6, <1>7, <2>1, NatInd
  <1>9. \A U \in SUBSET T : Cardinality(U) \in Nat
    BY <1>1, FS_CardinalityType
  <1>10. QED
    BY <1>8, <1>9

-----------------------------------------------------------------------------
(* The sum over no indices is nothing.                                     *)
LEMMA SumOfNone ==
  ASSUME NEW f
  PROVE  SumFunctionOnSet(f, {}) = 0
  <1>1. Partial(f, {}) = Body(f, {}, Partial(f, {}))
    BY PartialExists, FS_EmptySet
  <1>2. Partial(f, {})[{}] = 0
    BY <1>1 DEF Body
  <1>3. QED
    BY <1>2, SumIsPartial

(* The sum begins with the term the definition chooses.                    *)
LEMMA SumOfFirst ==
  ASSUME NEW f, NEW S, IsFiniteSet(S), S # {}
  PROVE  SumFunctionOnSet(f, S) = f[First(S)] + SumFunctionOnSet(f, Rest(S))
  <1>1. Rest(S) \in SUBSET S
    BY RestIsSmaller
  <1>2. Partial(f, S)[S] = f[First(S)] + Partial(f, S)[Rest(S)]
    <2>1. Partial(f, S) = Body(f, S, Partial(f, S))
      BY PartialExists
    <2>2. QED
      BY <2>1 DEF Body
  <1>3. Partial(f, Rest(S))[Rest(S)] = Partial(f, S)[Rest(S)]
    BY <1>1, PartialAgrees
  <1>4. QED
    BY <1>2, <1>3, SumIsPartial

(* Sums of integers are integers, and any term can be taken out of them.   *)
LEMMA SumTakesAny ==
  ASSUME NEW S, IsFiniteSet(S), NEW f, \A x \in S : f[x] \in Int
  PROVE  \A T \in SUBSET S :
           /\ SumFunctionOnSet(f, T) \in Int
           /\ \A x \in T : SumFunctionOnSet(f, T)
                             = f[x] + SumFunctionOnSet(f, T \ {x})
  <1> DEFINE Sum(T) == SumFunctionOnSet(f, T)
             P(T) == /\ Sum(T) \in Int
                     /\ \A x \in T : Sum(T) = f[x] + Sum(T \ {x})
             N == {n \in Nat : \A T \in SUBSET S : Cardinality(T) <= n => P(T)}
  <1>1. \A T \in SUBSET S : IsFiniteSet(T) /\ Cardinality(T) \in Nat
    BY FS_Subset, FS_CardinalityType
  <1>2. P({})
    BY SumOfNone
  <1>3. 0 \in N
    <2>1. \A T \in SUBSET S : Cardinality(T) <= 0 => T = {}
      BY <1>1, FS_EmptySet
    <2> HIDE DEF P
    <2>2. QED
      BY <1>2, <2>1
  <1>4. ASSUME NEW n \in N
        PROVE  n + 1 \in N
    <2>1. ASSUME NEW T \in SUBSET S, Cardinality(T) <= n + 1, T # {}
          PROVE  P(T)
      <3> DEFINE y == First(T)
      <3>1. y \in T /\ Rest(T) = T \ {y}
        BY <2>1, RestIsSmaller DEF Rest
      <3>2. Sum(T) = f[y] + Sum(T \ {y})
        <4>1. IsFiniteSet(T)
          BY <1>1
        <4>2. SumFunctionOnSet(f, T) = f[First(T)] + SumFunctionOnSet(f, Rest(T))
          BY <2>1, <4>1, SumOfFirst, Zenon
        <4>3. QED
          BY <3>1, <4>2
      <3>3. \A x \in T : Cardinality(T \ {x}) <= n
        BY <1>1, <2>1, FS_RemoveElement
      <3>4. \A x \in T : P(T \ {x})
        BY <3>3
      <3>5. f[y] \in Int /\ Sum(T \ {y}) \in Int
        BY <3>1, <3>4
      <3>6. ASSUME NEW x \in T, x # y
            PROVE  Sum(T) = f[x] + Sum(T \ {x})
        <4> DEFINE U == (T \ {x}) \ {y}
        <4>1. U = (T \ {y}) \ {x}
          OBVIOUS
        <4>2. Sum(T \ {y}) = f[x] + Sum(U)
          BY <3>1, <3>4, <3>6, <4>1
        <4>3. Sum(T \ {x}) = f[y] + Sum(U)
          BY <3>1, <3>4, <3>6
        <4>4. f[x] \in Int /\ Sum(U) \in Int
          <5>1. Cardinality(U) <= n /\ U \in SUBSET S
            <6>1. IsFiniteSet(T \ {x}) /\ Cardinality(T \ {x}) \in Nat
              BY <1>1
            <6>2. Cardinality(U) <= Cardinality(T \ {x}) /\ Cardinality(U) \in Nat
              BY <6>1, FS_Subset, FS_CardinalityType
            <6>3. QED
              BY <1>1, <3>3, <6>1, <6>2
          <5>2. QED
            BY <5>1
        <4> HIDE DEF Sum, U, y
        <4>5. QED
          BY <3>2, <3>5, <4>2, <4>3, <4>4
      <3>7. Sum(T) \in Int
        <4> HIDE DEF Sum, y
        <4>1. QED
          BY <3>2, <3>5
      <3>8. QED
        BY <3>1, <3>2, <3>6, <3>7
    <2> HIDE DEF P
    <2>2. QED
      BY <1>1, <1>2, <2>1
  <1>5. N = Nat
    <2>1. N \in SUBSET Nat
      OBVIOUS
    <2> HIDE DEF N
    <2>2. QED
      BY <1>3, <1>4, <2>1, NatInd
  <1> HIDE DEF P
  <1>6. \A T \in SUBSET S : P(T)
    BY <1>1, <1>5
  <1>7. QED
    BY <1>6 DEF P

-----------------------------------------------------------------------------
(* What the accounts use: the sum of one term, the bound a sum of amounts  *)
(* is of each of them, and how sums of different terms compare.            *)
LEMMA SumOfOne ==
  ASSUME NEW f, NEW x, f[x] \in Int
  PROVE  SumFunctionOnSet(f, {x}) = f[x]
  <1>1. IsFiniteSet({x})
    BY FS_Singleton
  <1>2. SumFunctionOnSet(f, {x}) = f[x] + SumFunctionOnSet(f, {x} \ {x})
    BY <1>1, SumTakesAny
  <1>3. {x} \ {x} = {}
    OBVIOUS
  <1>4. SumFunctionOnSet(f, {x} \ {x}) = 0
    BY <1>3, SumOfNone, Zenon
  <1>5. QED
    BY <1>2, <1>4

(* Functions equal on a set have the same sum.                             *)
LEMMA SumOfEqual ==
  ASSUME NEW S, IsFiniteSet(S), NEW f, NEW g,
         \A x \in S : f[x] \in Int /\ g[x] = f[x]
  PROVE  SumFunctionOnSet(g, S) = SumFunctionOnSet(f, S)
  <1> DEFINE F == {T \in SUBSET S :
                     SumFunctionOnSet(g, T) = SumFunctionOnSet(f, T)}
  <1>1. {} \in F
    BY SumOfNone
  <1>2. ASSUME NEW T \in SUBSET S, NEW x \in S, T \in F, x \notin T
        PROVE  T \cup {x} \in F
    <2> DEFINE U == T \cup {x}
    <2>1. U \in SUBSET S /\ x \in U /\ U \ {x} = T
      BY <1>2
    <2>2. SumFunctionOnSet(f, U) = f[x] + SumFunctionOnSet(f, U \ {x})
      BY <2>1, SumTakesAny
    <2>3. SumFunctionOnSet(g, U) = g[x] + SumFunctionOnSet(g, U \ {x})
      BY <2>1, SumTakesAny
    <2>4. SumFunctionOnSet(g, T) = SumFunctionOnSet(f, T)
      BY <1>2
    <2>5. QED
      BY <2>1, <2>2, <2>3, <2>4
  <1>3. \A T \in SUBSET S : T \in F
    <2> HIDE DEF F
    <2>1. QED
      BY <1>1, <1>2, SetInd, Zenon
  <1>4. QED
    BY <1>3

(* Amounts add up to an amount, no smaller than each of them.              *)
LEMMA SumOfAmounts ==
  ASSUME NEW S, IsFiniteSet(S), NEW f, \A x \in S : f[x] \in Nat
  PROVE  /\ SumFunctionOnSet(f, S) \in Nat
         /\ \A x \in S : f[x] <= SumFunctionOnSet(f, S)
  <1> DEFINE F == {T \in SUBSET S : SumFunctionOnSet(f, T) \in Nat}
  <1>1. {} \in F
    BY SumOfNone
  <1>2. ASSUME NEW T \in SUBSET S, NEW x \in S, T \in F, x \notin T
        PROVE  T \cup {x} \in F
    <2> DEFINE U == T \cup {x}
    <2>1. U \in SUBSET S /\ x \in U /\ U \ {x} = T
      BY <1>2
    <2>2. SumFunctionOnSet(f, U) = f[x] + SumFunctionOnSet(f, U \ {x})
      BY <2>1, SumTakesAny
    <2>3. SumFunctionOnSet(f, T) \in Nat
      BY <1>2
    <2>4. QED
      BY <2>1, <2>2, <2>3
  <1>3. \A T \in SUBSET S : T \in F
    <2> HIDE DEF F
    <2>1. QED
      BY <1>1, <1>2, SetInd, Zenon
  <1>4. ASSUME NEW x \in S
        PROVE  f[x] <= SumFunctionOnSet(f, S)
    <2>1. SumFunctionOnSet(f, S) = f[x] + SumFunctionOnSet(f, S \ {x})
      BY SumTakesAny
    <2>2. SumFunctionOnSet(f, S \ {x}) \in Nat
      BY <1>3
    <2>3. QED
      BY <2>1, <2>2
  <1>5. QED
    BY <1>3, <1>4

(* Of two functions that differ in one term at most, the sums differ by    *)
(* what the terms do.                                                      *)
LEMMA SumAfterChange ==
  ASSUME NEW S, IsFiniteSet(S), NEW f, NEW g, NEW x \in S,
         \A y \in S : f[y] \in Int /\ g[y] \in Int /\ (y # x => g[y] = f[y])
  PROVE  /\ SumFunctionOnSet(f, S) \in Int
         /\ SumFunctionOnSet(g, S) = SumFunctionOnSet(f, S) + g[x] - f[x]
  <1> DEFINE T == S \ {x}
  <1>1. T \in SUBSET S /\ IsFiniteSet(T)
    BY FS_Subset
  <1>2. SumFunctionOnSet(f, S) = f[x] + SumFunctionOnSet(f, T)
    BY SumTakesAny
  <1>3. SumFunctionOnSet(g, S) = g[x] + SumFunctionOnSet(g, T)
    BY SumTakesAny
  <1>4. SumFunctionOnSet(g, T) = SumFunctionOnSet(f, T)
    <2>1. \A y \in T : f[y] \in Int /\ g[y] = f[y]
      OBVIOUS
    <2> HIDE DEF T
    <2>2. QED
      BY <1>1, <2>1, SumOfEqual
  <1>5. SumFunctionOnSet(f, T) \in Int
    BY <1>1, SumTakesAny
  <1>6. f[x] \in Int /\ g[x] \in Int
    OBVIOUS
  <1> HIDE DEF T
  <1>7. QED
    BY <1>2, <1>3, <1>4, <1>5, <1>6

(* Indices without a term may be left out of a sum.                        *)
LEMMA SumOfPart ==
  ASSUME NEW S, IsFiniteSet(S), NEW T \in SUBSET S, NEW f,
         \A x \in S : f[x] \in Int, \A x \in S \ T : f[x] = 0
  PROVE  SumFunctionOnSet(f, S) = SumFunctionOnSet(f, T)
  <1> DEFINE F == {U \in SUBSET (S \ T) :
                     SumFunctionOnSet(f, T \cup U) = SumFunctionOnSet(f, T)}
  <1>1. IsFiniteSet(S \ T)
    BY FS_Subset
  <1>2. {} \in F
    BY Zenon
  <1>3. ASSUME NEW U \in SUBSET (S \ T), NEW x \in S \ T, U \in F, x \notin U
        PROVE  U \cup {x} \in F
    <2> DEFINE V == T \cup (U \cup {x})
    <2>1. V \in SUBSET S /\ x \in V /\ V \ {x} = T \cup U
      BY <1>3
    <2>2. SumFunctionOnSet(f, V) = f[x] + SumFunctionOnSet(f, V \ {x})
      BY <2>1, SumTakesAny
    <2>3. f[x] = 0 /\ SumFunctionOnSet(f, T) \in Int
      BY SumTakesAny
    <2>4. SumFunctionOnSet(f, T \cup U) = SumFunctionOnSet(f, T)
      BY <1>3
    <2>5. SumFunctionOnSet(f, V) = SumFunctionOnSet(f, T)
      <3> DEFINE s == SumFunctionOnSet(f, T)
                 v == SumFunctionOnSet(f, V)
      <3>1. v = f[x] + s
        <4> HIDE DEF V
        <4>1. QED
          BY <2>1, <2>2, <2>4, Zenon
      <3>2. f[x] = 0 /\ s \in Int
        BY <2>3, Zenon
      <3> HIDE DEF s, v
      <3>3. v = s
        BY <3>1, <3>2
      <3>4. QED
        BY <3>3 DEF s, v
    <2>6. U \cup {x} \in SUBSET (S \ T)
      OBVIOUS
    <2>7. QED
      BY <2>5, <2>6
  <1>4. \A U \in SUBSET (S \ T) : U \in F
    <2> DEFINE R == S \ T
    <2>1. IsFiniteSet(R)
      BY <1>1
    <2>2. \A U \in SUBSET R, x \in R : U \in F /\ x \notin U => U \cup {x} \in F
      BY <1>3
    <2> HIDE DEF F, R
    <2>3. \A U \in SUBSET R : U \in F
      BY <1>2, <2>1, <2>2, SetInd, Zenon
    <2>4. QED
      BY <2>3 DEF R
  <1>5. S \ T \in F /\ T \cup (S \ T) = S
    BY <1>4
  <1>6. QED
    BY <1>5

(* A sum over two disjoint sets is the sum of their sums.                  *)
LEMMA SumOfUnion ==
  ASSUME NEW S, IsFiniteSet(S), NEW A \in SUBSET S, NEW B \in SUBSET S,
         A \cap B = {}, NEW f, \A x \in S : f[x] \in Int
  PROVE  SumFunctionOnSet(f, A \cup B)
           = SumFunctionOnSet(f, A) + SumFunctionOnSet(f, B)
  <1> DEFINE s(T) == SumFunctionOnSet(f, T)
             F == {U \in SUBSET B : s(A \cup U) = s(A) + s(U)}
  <1>1. IsFiniteSet(B)
    BY FS_Subset
  <1>2. \A T \in SUBSET S : /\ s(T) \in Int
                            /\ \A x \in T : s(T) = f[x] + s(T \ {x})
    BY SumTakesAny
  <1>3. s({}) = 0
    BY SumOfNone
  <1> HIDE DEF s
  <1>4. {} \in F
    <2>1. s(A \cup {}) = s(A)
      BY Zenon
    <2>2. s(A) \in Int
      BY <1>2
    <2>3. QED
      BY <1>3, <2>1, <2>2
  <1>5. ASSUME NEW U \in SUBSET B, NEW x \in B, U \in F, x \notin U
        PROVE  U \cup {x} \in F
    <2> DEFINE V == U \cup {x}
               W == A \cup V
    <2>1. W \in SUBSET S /\ x \in W /\ W \ {x} = A \cup U
      BY <1>5
    <2>2. V \in SUBSET S /\ x \in V /\ V \ {x} = U
      BY <1>5
    <2>3. f[x] \in Int /\ s(A) \in Int /\ s(U) \in Int
      BY <1>2, <2>2
    <2> HIDE DEF V, W
    <2>4. s(W) = f[x] + s(A \cup U)
      BY <1>2, <2>1, Zenon
    <2>5. s(V) = f[x] + s(U)
      BY <1>2, <2>2, Zenon
    <2>6. s(A \cup U) = s(A) + s(U)
      BY <1>5
    <2>7. s(W) = s(A) + s(V)
      BY <2>3, <2>4, <2>5, <2>6
    <2>8. V \in SUBSET B
      BY DEF V
    <2>9. QED
      BY <2>7, <2>8 DEF V, W
  <1>6. \A U \in SUBSET B : U \in F
    <2>1. \A U \in SUBSET B, x \in B : U \in F /\ x \notin U => U \cup {x} \in F
      BY <1>5
    <2> HIDE DEF F
    <2>2. QED
      BY <1>1, <1>4, <2>1, SetInd, Zenon
  <1>7. B \in F
    BY <1>6
  <1>8. QED
    BY <1>7 DEF s

(* The sum of sums, term by term.                                          *)
LEMMA SumOfBoth ==
  ASSUME NEW S, IsFiniteSet(S), NEW f, NEW g, NEW h,
         \A x \in S : f[x] \in Int /\ g[x] \in Int /\ h[x] = f[x] + g[x]
  PROVE  SumFunctionOnSet(h, S) = SumFunctionOnSet(f, S) + SumFunctionOnSet(g, S)
  <1> DEFINE F == {T \in SUBSET S : SumFunctionOnSet(h, T)
                     = SumFunctionOnSet(f, T) + SumFunctionOnSet(g, T)}
  <1>1. \A x \in S : h[x] \in Int
    OBVIOUS
  <1>2. {} \in F
    BY SumOfNone
  <1>3. ASSUME NEW T \in SUBSET S, NEW x \in S, T \in F, x \notin T
        PROVE  T \cup {x} \in F
    <2> DEFINE V == T \cup {x}
    <2>1. V \in SUBSET S /\ x \in V /\ V \ {x} = T
      BY <1>3
    <2> HIDE DEF V
    <2>2. SumFunctionOnSet(f, V) = f[x] + SumFunctionOnSet(f, T)
      BY <2>1, SumTakesAny
    <2>3. SumFunctionOnSet(g, V) = g[x] + SumFunctionOnSet(g, T)
      BY <2>1, SumTakesAny
    <2>4. SumFunctionOnSet(h, V) = h[x] + SumFunctionOnSet(h, T)
      BY <1>1, <2>1, SumTakesAny
    <2>5. SumFunctionOnSet(f, T) \in Int /\ SumFunctionOnSet(g, T) \in Int
      BY SumTakesAny
    <2>6. SumFunctionOnSet(h, T) = SumFunctionOnSet(f, T) + SumFunctionOnSet(g, T)
      BY <1>3
    <2>7. f[x] \in Int /\ g[x] \in Int /\ h[x] = f[x] + g[x]
      OBVIOUS
    <2>8. SumFunctionOnSet(h, V) = SumFunctionOnSet(f, V) + SumFunctionOnSet(g, V)
      BY <2>2, <2>3, <2>4, <2>5, <2>6, <2>7
    <2>9. QED
      BY <2>1, <2>8 DEF V
  <1>4. \A T \in SUBSET S : T \in F
    <2>1. \A T \in SUBSET S, x \in S : T \in F /\ x \notin T => T \cup {x} \in F
      BY <1>3
    <2> HIDE DEF F
    <2>2. QED
      BY <1>2, <2>1, SetInd, Zenon
  <1>5. QED
    BY <1>4

(* A sum may be taken group by group: h names the group of a term, part    *)
(* the terms of a group, g their sum.                                      *)
LEMMA SumByGroups ==
  ASSUME NEW S, IsFiniteSet(S), NEW K, IsFiniteSet(K), NEW f, NEW g, NEW h,
         NEW part,
         \A x \in S : f[x] \in Int /\ h[x] \in K,
         \A k \in K : /\ part[k] \in SUBSET S
                      /\ \A x \in S : x \in part[k] <=> h[x] = k
                      /\ g[k] = SumFunctionOnSet(f, part[k])
  PROVE  SumFunctionOnSet(g, K) = SumFunctionOnSet(f, S)
  <1> DEFINE In(T) == {x \in S : h[x] \in T}
             F == {T \in SUBSET K : SumFunctionOnSet(g, T) = SumFunctionOnSet(f, In(T))}
  <1>1. \A k \in K : g[k] \in Int
    <2>1. \A k \in K : part[k] \in SUBSET S
      OBVIOUS
    <2>2. \A T \in SUBSET S : SumFunctionOnSet(f, T) \in Int
      BY SumTakesAny
    <2>3. QED
      BY <2>1, <2>2
  <1>2. {} \in F
    <2>1. In({}) = {}
      OBVIOUS
    <2>2. SumFunctionOnSet(g, {}) = 0 /\ SumFunctionOnSet(f, {}) = 0
      BY SumOfNone
    <2>3. QED
      BY <2>1, <2>2
  <1>3. ASSUME NEW T \in SUBSET K, NEW k \in K, T \in F, k \notin T
        PROVE  T \cup {k} \in F
    <2> DEFINE V == T \cup {k}
               A == part[k]
               B == In(T)
    <2>1. V \in SUBSET K /\ k \in V /\ V \ {k} = T
      BY <1>3
    <2>2. A \in SUBSET S /\ B \in SUBSET S /\ A \cap B = {} /\ In(V) = A \cup B
      BY <1>3
    <2>3. g[k] = SumFunctionOnSet(f, A)
      OBVIOUS
    <2>4. SumFunctionOnSet(g, T) = SumFunctionOnSet(f, B)
      BY <1>3
    <2> HIDE DEF V, A, B
    <2>5. SumFunctionOnSet(g, V) = g[k] + SumFunctionOnSet(g, T)
      BY <1>1, <2>1, SumTakesAny
    <2>6. SumFunctionOnSet(f, A \cup B)
            = SumFunctionOnSet(f, A) + SumFunctionOnSet(f, B)
      BY <2>2, SumOfUnion
    <2> HIDE DEF In
    <2>7. SumFunctionOnSet(g, V) = SumFunctionOnSet(f, In(V))
      BY <2>2, <2>3, <2>4, <2>5, <2>6
    <2>8. QED
      BY <2>1, <2>7 DEF V
  <1>4. \A T \in SUBSET K : T \in F
    <2>1. \A T \in SUBSET K, k \in K : T \in F /\ k \notin T => T \cup {k} \in F
      BY <1>3
    <2> HIDE DEF F
    <2>2. QED
      BY <1>2, <2>1, SetInd, Zenon
  <1>5. K \in F /\ In(K) = S
    BY <1>4
  <1>6. QED
    BY <1>5

(* The sum of equal terms is their product.                                *)
LEMMA SumOfSame ==
  ASSUME NEW S, IsFiniteSet(S), NEW f, NEW q \in Nat, \A x \in S : f[x] = q
  PROVE  SumFunctionOnSet(f, S) = Cardinality(S) * q
  <1> DEFINE F == {T \in SUBSET S : SumFunctionOnSet(f, T) = Cardinality(T) * q}
  <1>1. {} \in F
    BY SumOfNone, FS_EmptySet
  <1>2. ASSUME NEW T \in SUBSET S, NEW x \in S, T \in F, x \notin T
        PROVE  T \cup {x} \in F
    <2>1. IsFiniteSet(T)
      BY FS_Subset
    <2>2. Cardinality(T) \in Nat /\ Cardinality(T \cup {x}) = Cardinality(T) + 1
      BY <1>2, <2>1, FS_AddElement, FS_CardinalityType
    <2>3. SumFunctionOnSet(f, T \cup {x})
            = f[x] + SumFunctionOnSet(f, (T \cup {x}) \ {x})
      <3>1. T \cup {x} \in SUBSET S /\ \A y \in S : f[y] \in Int
        OBVIOUS
      <3>2. QED
        BY <3>1, SumTakesAny
    <2>4. (T \cup {x}) \ {x} = T
      BY <1>2
    <2>5. SumFunctionOnSet(f, T) = Cardinality(T) * q
      BY <1>2
    <2> DEFINE n == Cardinality(T)
    <2>6. n \in Nat /\ (n + 1) * q = q + n * q
      <3>1. n \in Nat
        BY <2>2
      <3> HIDE DEF n
      <3>2. QED
        BY <3>1
    <2>7. f[x] = q
      OBVIOUS
    <2> DEFINE U == T \cup {x}
    <2>8. SumFunctionOnSet(f, U) = Cardinality(U) * q
      BY <2>2, <2>3, <2>4, <2>5, <2>6, <2>7
    <2>9. U \in SUBSET S
      OBVIOUS
    <2> HIDE DEF U
    <2>10. U \in F
      BY <2>8, <2>9
    <2>11. QED
      BY <2>10 DEF U
  <1> HIDE DEF F
  <1>3. \A T \in SUBSET S : T \in F
    BY <1>1, <1>2, SetInd, Zenon
  <1>4. QED
    BY <1>3 DEF F
-----------------------------------------------------------------------------
(* Numbers by their rank.                                                  *)

Ranked(ids) ==
  [k \in 1 .. Cardinality(ids) |-> CHOOSE i \in ids : Cardinality({j \in ids : j <= i}) = k]

(* Of things told apart by a number each: how many have at most that of x. *)
Place(S, f, x) == Cardinality({y \in S : f[y] <= f[x]})

(* Things told apart by a number each have a place of their own: there are *)
(* as many up to a thing as its place says, and every place is taken.      *)
LEMMA PlacesByNumber ==
  ASSUME NEW S, IsFiniteSet(S), NEW f \in [S -> Nat], \A x, y \in S : f[x] = f[y] => x = y
  PROVE  /\ \A x \in S : Place(S, f, x) \in 1 .. Cardinality(S)
         /\ \A x, y \in S : f[x] < f[y] => Place(S, f, x) < Place(S, f, y)
         /\ \A k \in 1 .. Cardinality(S) : \E x \in S : Place(S, f, x) = k
  <1> DEFINE n == Cardinality(S)
             UpTo(x) == {y \in S : f[y] <= f[x]}
             place == [x \in S |-> Cardinality(UpTo(x))]
  <1>1. n \in Nat
    BY FS_CardinalityType
  <1>2. ASSUME NEW x \in S
        PROVE  IsFiniteSet(UpTo(x)) /\ place[x] \in 1 .. n
    <2>1. IsFiniteSet(UpTo(x)) /\ Cardinality(UpTo(x)) <= n
      BY FS_Subset
    <2>2. Cardinality(UpTo(x)) \in Nat
      BY <2>1, FS_CardinalityType
    <2>3. UpTo(x) # {}
      OBVIOUS
    <2>4. Cardinality(UpTo(x)) # 0
      <3> HIDE DEF UpTo
      <3>1. QED
        BY <2>1, <2>3, FS_EmptySet
    <2>5. place[x] = Cardinality(UpTo(x))
      OBVIOUS
    <2> HIDE DEF UpTo, place, n
    <2>6. QED
      BY <1>1, <2>1, <2>2, <2>4, <2>5
  <1>3. ASSUME NEW x \in S, NEW y \in S, f[x] < f[y]
        PROVE  place[x] < place[y]
    <2>1. UpTo(x) \subseteq UpTo(y) /\ y \in UpTo(y) /\ y \notin UpTo(x)
      <3>1. f[x] \in Nat /\ f[y] \in Nat /\ \A z \in S : f[z] \in Nat
        OBVIOUS
      <3>2. ~ (f[y] <= f[x]) /\ f[y] <= f[y] /\ \A z \in S : f[z] <= f[x] => f[z] <= f[y]
        BY <1>3, <3>1
      <3>3. QED
        BY <3>2
    <2>2. IsFiniteSet(UpTo(y))
      BY <1>2
    <2>3. place[x] = Cardinality(UpTo(x)) /\ place[y] = Cardinality(UpTo(y))
      OBVIOUS
    <2>4. place[x] \in Nat /\ place[y] \in Nat
      <3>1. place[x] \in 1 .. n /\ place[y] \in 1 .. n
        BY <1>2
      <3> HIDE DEF place, n
      <3>2. QED
        BY <3>1
    <2> HIDE DEF UpTo, place
    <2>5. Cardinality(UpTo(x)) <= Cardinality(UpTo(y))
          /\ Cardinality(UpTo(x)) # Cardinality(UpTo(y))
      BY <2>1, <2>2, FS_Subset
    <2>6. QED
      BY <2>3, <2>4, <2>5
  <1>4. \A x, y \in S : place[x] = place[y] => x = y
    <2>1. \A x \in S : f[x] \in Nat /\ place[x] \in Nat
      <3>1. \A x \in S : place[x] \in 1 .. n
        BY <1>2
      <3> HIDE DEF place, n
      <3>2. QED
        BY <3>1
    <2> HIDE DEF place
    <2>2. QED
      BY <1>3, <2>1
  <1>5. place \in Injection(S, 1 .. n)
    <2>1. place \in [S -> 1 .. n]
      BY <1>2
    <2> HIDE DEF place, n
    <2>2. QED
      BY <1>4, <2>1 DEF Injection, IsInjective
  <1>6. IsFiniteSet(1 .. n) /\ Cardinality(1 .. n) = n
    <2> HIDE DEF n
    <2>1. QED
      BY <1>1, FS_Interval
  <1>7. place \in Surjection(S, 1 .. n)
    <2>1. Cardinality(S) = Cardinality(1 .. n)
      BY <1>6
    <2> HIDE DEF place, n
    <2>2. QED
      BY <1>5, <1>6, <2>1, FS_Injection
  <1>8. \A k \in 1 .. n : \E x \in S : place[x] = k
    <2> HIDE DEF place, n
    <2>1. QED
      BY <1>7 DEF Surjection
  <1>9. \A x \in S : place[x] = Place(S, f, x)
    BY DEF Place
  <1> HIDE DEF place
  <1>10. QED
    BY <1>2, <1>3, <1>8, <1>9

(* A finite set of numbers by their rank is a sequence of its members, all *)
(* of them, each once and from the smallest to the largest.                *)
LEMMA NumbersByRank ==
  ASSUME NEW ids \in SUBSET Nat, IsFiniteSet(ids)
  PROVE  /\ Ranked(ids) \in Seq(ids)
         /\ \A i \in ids : \E k \in DOMAIN Ranked(ids) : Ranked(ids)[k] = i
         /\ \A j, k \in DOMAIN Ranked(ids) :
              Ranked(ids)[j] <= Ranked(ids)[k] => j <= k
  <1> DEFINE n == Cardinality(ids)
             place == [i \in ids |-> Cardinality({j \in ids : j <= i})]
             f == [i \in ids |-> i]
  <1>1. n \in Nat
    BY FS_CardinalityType
  <1>2. f \in [ids -> Nat] /\ \A i \in ids : f[i] = i
    OBVIOUS
  <1>3. \A i \in ids : {j \in ids : f[j] <= f[i]} = {j \in ids : j <= i}
    BY <1>2
  <1>4. \A i \in ids : place[i] = Place(ids, f, i)
    BY <1>3 DEF Place
  <1> HIDE DEF f, place
  <1>5. \A i, j \in ids : f[i] = f[j] => i = j
    BY <1>2
  <1>6. /\ \A i \in ids : place[i] \in 1 .. n
        /\ \A i, j \in ids : f[i] < f[j] => place[i] < place[j]
        /\ \A k \in 1 .. n : \E i \in ids : place[i] = k
    <2>1. /\ \A i \in ids : Place(ids, f, i) \in 1 .. Cardinality(ids)
          /\ \A i, j \in ids : f[i] < f[j] => Place(ids, f, i) < Place(ids, f, j)
          /\ \A k \in 1 .. Cardinality(ids) : \E i \in ids : Place(ids, f, i) = k
      BY <1>2, <1>5, PlacesByNumber
    <2>2. QED
      BY <1>4, <2>1
  <1>7. \A i, j \in ids : i < j => place[i] < place[j]
    BY <1>2, <1>6
  <1>8. DOMAIN Ranked(ids) = 1 .. n /\ Ranked(ids) \in [1 .. n -> ids]
        /\ \A k \in 1 .. n : place[Ranked(ids)[k]] = k
    <2> DEFINE at(k) == CHOOSE i \in ids : Cardinality({j \in ids : j <= i}) = k
    <2>1. \A i \in ids : place[i] = Cardinality({j \in ids : j <= i})
      BY DEF place
    <2>2. Ranked(ids) = [k \in 1 .. n |-> at(k)]
      BY DEF Ranked
    <2>3. \A k \in 1 .. n : at(k) \in ids /\ Cardinality({j \in ids : j <= at(k)}) = k
      BY <1>6, <2>1
    <2> HIDE DEF at, n
    <2>4. QED
      BY <2>1, <2>2, <2>3
  <1> DEFINE seq == Ranked(ids)
  <1> HIDE DEF n
  <1>9. DOMAIN seq = 1 .. n /\ \A k \in 1 .. n : seq[k] \in ids /\ place[seq[k]] = k
    BY <1>8
  <1>10. seq \in Seq(ids)
    <2>1. seq \in [1 .. n -> ids]
      BY <1>8
    <2> HIDE DEF seq
    <2>2. QED
      BY <1>1, <2>1
  <1>11. \A i, j \in ids : i \in Nat /\ place[i] \in Nat /\ (place[i] = place[j] => i = j)
    <2>1. \A i \in ids : i \in Nat /\ place[i] \in Nat
      BY <1>1, <1>6
    <2>2. QED
      BY <1>7, <2>1
  <1> HIDE DEF seq
  <1>12. \A i \in ids : \E k \in DOMAIN seq : seq[k] = i
    BY <1>6, <1>9, <1>11
  <1>13. \A j, k \in DOMAIN seq : seq[j] <= seq[k] => j <= k
    <2>1. SUFFICES ASSUME NEW j \in 1 .. n, NEW k \in 1 .. n, seq[j] <= seq[k]
                   PROVE  j <= k
      BY <1>9
    <2>2. seq[j] \in ids /\ seq[k] \in ids /\ place[seq[j]] = j /\ place[seq[k]] = k
      BY <1>9
    <2>3. CASE seq[j] < seq[k]
      <3>1. place[seq[j]] < place[seq[k]]
        BY <1>7, <2>2, <2>3
      <3>2. QED
        BY <2>1, <2>2, <3>1
    <2>4. CASE seq[j] = seq[k]
      BY <1>1, <2>2, <2>4
    <2>5. QED
      <3>1. seq[j] \in Nat /\ seq[k] \in Nat
        BY <1>11, <2>2
      <3>2. seq[j] < seq[k] \/ seq[j] = seq[k]
        BY <2>1, <3>1
      <3>3. QED
        BY <2>3, <2>4, <3>2
  <1>14. QED
    BY <1>10, <1>12, <1>13 DEF seq

(* Numbers with all those below them are the first ones, and as many as    *)
(* the largest of them says.                                               *)
LEMMA FirstNumbers ==
  ASSUME NEW n \in Nat, NEW D \in SUBSET (1 .. n), \A i \in D, k \in 1 .. n : k <= i => k \in D
  PROVE  Cardinality(D) \in 0 .. n /\ D = 1 .. Cardinality(D)
  <1>1. IsFiniteSet(D)
    <2>1. IsFiniteSet(1 .. n)
      BY FS_Interval
    <2>2. QED
      BY <2>1, FS_Subset
  <1>2. CASE D = {}
    BY <1>2, FS_EmptySet
  <1>3. CASE D # {}
    <2>1. PICK m \in D : \A i \in D : m >= i
      <3>1. D \in SUBSET Nat
        OBVIOUS
      <3>2. QED
        BY <1>1, <1>3, <3>1, HasLargest
    <2>2. m \in 1 .. n /\ D = 1 .. m
      <3>1. m \in 1 .. n /\ m \in Nat
        OBVIOUS
      <3>2. \A k \in 1 .. m : k \in 1 .. n /\ k <= m
        BY <3>1
      <3>3. \A k \in 1 .. m : k \in D
        BY <3>2
      <3>4. \A i \in D : i \in 1 .. n /\ m >= i
        BY <2>1
      <3>5. \A i \in D : i \in 1 .. m
        BY <3>1, <3>4
      <3>6. QED
        BY <3>1, <3>3, <3>5
    <2>3. Cardinality(1 .. m) = m
      BY <2>2, FS_Interval
    <2>4. QED
      BY <2>2, <2>3
  <1>4. QED
    BY <1>2, <1>3
=============================================================================
