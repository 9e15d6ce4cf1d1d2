------------------------- MODULE AcceptanceProofs -------------------------
(***************************************************************************)
(* Theorems about Acceptance, for any number of users, offers and accepts, *)
(* and all amounts and fees.                                               *)
(***************************************************************************)
EXTENDS Acceptance, SumProofs, TLAPS

-----------------------------------------------------------------------------
(* Requests: their items and amounts.                                      *)

(* The items of a request are numbered from 1.                             *)
LEMMA ItemTypes ==
  ASSUME NEW a \in Accepts
  PROVE  /\ Len(Items[a]) \in Nat /\ Len(Items[a]) >= 1
         /\ Indices(a) = 1 .. Len(Items[a])
         /\ IsFiniteSet(Indices(a))
         /\ \A i \in Indices(a) :
              /\ OfferOf(a, i) \in Offers /\ WriterOf(a, i) \in Users
              /\ Quantity(a, i) \in Nat /\ Quantity(a, i) > 0
  <1> DEFINE s == Items[a]
  <1>1. s \in Seq(Item) /\ s # <<>>
    BY AcceptanceAssumption
  <1>2. Len(s) \in Nat /\ Len(s) >= 1 /\ DOMAIN s = 1 .. Len(s)
    <2> HIDE DEF s
    <2>1. QED
      BY <1>1
  <1>3. \A i \in 1 .. Len(s) : s[i] \in Item
    <2> HIDE DEF s
    <2>1. QED
      BY <1>1
  <1>4. IsFiniteSet(1 .. Len(s))
    BY <1>2, FS_Interval
  <1>5. \A i \in Indices(a) : OfferOf(a, i) \in Offers
    BY <1>2, <1>3 DEF OfferOf, Indices, Item
  <1>6. \A o \in Offers : Writer[o] \in Users
    BY AcceptanceAssumption
  <1>7. \A i \in Indices(a) : Quantity(a, i) \in Nat /\ Quantity(a, i) > 0
    BY <1>2, <1>3 DEF Quantity, Indices, Item
  <1>8. QED
    BY <1>2, <1>4, <1>5, <1>6, <1>7 DEF Indices, WriterOf

(* A fee is a part of what it is taken of.                                 *)
LEMMA PartOfAll ==
  ASSUME NEW x \in Nat
  PROVE  (x * PremiumFeeBps) \div 10000 \in 0 .. x
  <1>1. PremiumFeeBps \in Nat /\ PremiumFeeBps <= 10000
    BY AcceptanceAssumption
  <1> DEFINE y == x * PremiumFeeBps
  <1>2. y \in Nat /\ y <= 10000 * x
    <2>1. x * PremiumFeeBps \in Nat
      BY <1>1
    <2>2. x * PremiumFeeBps <= x * 10000
      BY <1>1
    <2>3. QED
      BY <2>1, <2>2
  <1> HIDE DEF y
  <1>3. y \div 10000 \in 0 .. x
    BY <1>2
  <1>4. QED
    BY <1>3 DEF y

(* The platform's fee on an item is part of its premium.                   *)
LEMMA PremiumTypes ==
  ASSUME NEW a \in Accepts, NEW i \in Indices(a)
  PROVE  /\ PremiumOf(a, i) \in Nat /\ FeeOf(a, i) \in Nat
         /\ ToWriter(a, i) \in Nat
         /\ PremiumOf(a, i) = ToWriter(a, i) + FeeOf(a, i)
  <1>1. Quantity(a, i) \in Nat /\ PremiumBps[OfferOf(a, i)] \in Nat
    BY ItemTypes, AcceptanceAssumption
  <1>2. Quantity(a, i) * PremiumBps[OfferOf(a, i)] \in Nat
    BY <1>1
  <1>3. PremiumOf(a, i) \in Nat
    <2> DEFINE x == Quantity(a, i) * PremiumBps[OfferOf(a, i)]
    <2>1. x \in Nat
      BY <1>2
    <2> HIDE DEF x
    <2>2. x \div 10000 \in Nat
      BY <2>1
    <2>3. QED
      BY <2>2 DEF x, PremiumOf
  <1>4. FeeOf(a, i) \in 0 .. PremiumOf(a, i)
    BY <1>3, PartOfAll DEF FeeOf
  <1>5. QED
    BY <1>3, <1>4 DEF ToWriter

(* The sums over the items of a request are amounts.                       *)
LEMMA TotalTypes ==
  ASSUME NEW a \in Accepts
  PROVE  /\ Premium[a] \in Nat /\ Fee[a] \in Nat
         /\ Premium[a] = SumFunctionOnSet([i \in Indices(a) |-> PremiumOf(a, i)],
                                          Indices(a))
         /\ Fee[a] = SumFunctionOnSet([i \in Indices(a) |-> FeeOf(a, i)], Indices(a))
  <1> DEFINE S == Indices(a)
             p == [i \in S |-> PremiumOf(a, i)]
             f == [i \in S |-> FeeOf(a, i)]
  <1>1. Premium[a] = SumFunctionOnSet(p, S) /\ Fee[a] = SumFunctionOnSet(f, S)
    BY DEF Premium, Fee, SumOver
  <1>2. IsFiniteSet(S) /\ \A i \in S : p[i] \in Nat /\ f[i] \in Nat
    BY ItemTypes, PremiumTypes
  <1> HIDE DEF S, p, f
  <1>3. SumFunctionOnSet(p, S) \in Nat /\ SumFunctionOnSet(f, S) \in Nat
    BY <1>2, SumOfAmounts
  <1>4. QED
    BY <1>1, <1>3 DEF S, p, f

(* What a writer earns and pledges by a request; nothing, when he is not   *)
(* one of its writers.                                                     *)
LEMMA WriterTotals ==
  ASSUME NEW a \in Accepts, NEW u \in Users
  PROVE  /\ Earns[a][u] \in Nat /\ Pledges[a][u] \in Nat
         /\ Earns[a][u] = SumFunctionOnSet([i \in IndicesOf(a, u) |-> ToWriter(a, i)],
                                           IndicesOf(a, u))
         /\ (\A i \in Indices(a) : WriterOf(a, i) # u) =>
              Earns[a][u] = 0 /\ Pledges[a][u] = 0
  <1> DEFINE S == IndicesOf(a, u)
             e == [i \in S |-> ToWriter(a, i)]
             p == [i \in S |-> Quantity(a, i)]
  <1>1. Earns[a][u] = SumFunctionOnSet(e, S) /\ Pledges[a][u] = SumFunctionOnSet(p, S)
    BY DEF Earns, Pledges, SumOver
  <1>2. S \in SUBSET Indices(a) /\ IsFiniteSet(Indices(a))
    BY ItemTypes DEF IndicesOf
  <1>3. IsFiniteSet(S)
    BY <1>2, FS_Subset
  <1>4. \A i \in S : e[i] \in Nat /\ p[i] \in Nat
    BY <1>2, ItemTypes, PremiumTypes
  <1>5. (\A i \in Indices(a) : WriterOf(a, i) # u) => S = {}
    BY DEF IndicesOf
  <1> HIDE DEF S, e, p
  <1>6. SumFunctionOnSet(e, S) \in Nat /\ SumFunctionOnSet(p, S) \in Nat
    BY <1>3, <1>4, SumOfAmounts
  <1>7. SumFunctionOnSet(e, {}) = 0 /\ SumFunctionOnSet(p, {}) = 0
    BY SumOfNone
  <1>8. QED
    BY <1>1, <1>5, <1>6, <1>7 DEF S, e, p

(* A request takes of an offer what its items say, and nothing of others.  *)
LEMMA TakenTypes ==
  ASSUME NEW a \in Accepts, NEW o \in Offers
  PROVE  /\ Taken[a][o] \in Nat
         /\ Taken[a][o] > 0 <=> \E i \in Indices(a) : OfferOf(a, i) = o
  <1> DEFINE S == {i \in Indices(a) : OfferOf(a, i) = o}
             q == [i \in S |-> Quantity(a, i)]
  <1>1. Taken[a][o] = SumFunctionOnSet(q, S)
    BY DEF Taken, SumOver
  <1>2. S \in SUBSET Indices(a) /\ IsFiniteSet(Indices(a))
    BY ItemTypes
  <1>3. IsFiniteSet(S)
    BY <1>2, FS_Subset
  <1>4. \A i \in S : q[i] \in Nat /\ q[i] > 0
    BY <1>2, ItemTypes
  <1>5. S # {} <=> \E i \in Indices(a) : OfferOf(a, i) = o
    OBVIOUS
  <1> HIDE DEF S, q
  <1>6. SumFunctionOnSet(q, S) \in Nat
        /\ \A i \in S : q[i] <= SumFunctionOnSet(q, S)
    BY <1>3, <1>4, SumOfAmounts
  <1>7. SumFunctionOnSet(q, {}) = 0
    BY SumOfNone
  <1>8. CASE S = {}
    BY <1>1, <1>5, <1>7, <1>8
  <1>9. CASE S # {}
    <2>1. PICK i \in S : TRUE
      BY <1>9
    <2>2. SumFunctionOnSet(q, S) > 0
      BY <1>4, <1>6, <2>1
    <2>3. QED
      BY <1>1, <1>5, <1>6, <1>9, <2>2
  <1>10. QED
    BY <1>8, <1>9

-----------------------------------------------------------------------------
(* The transfers of a request.                                             *)
Writers(a) == {WriterOf(a, i) : i \in Indices(a)}

(* No party of a transfer is taken for another, or for no transfer.        *)
LEMMA Names ==
  /\ "platform" \notin Users /\ "idle" \notin Users /\ "price" \notin Users
  /\ \A a \in Accepts : Writers(a) \subseteq Users /\ Buyer[a] \in Users
  <1>1. Users \cap {"platform", "idle", "price"} = {}
    BY AcceptanceAssumption
  <1>2. \A a \in Accepts : Buyer[a] \in Users
    BY AcceptanceAssumption
  <1>3. \A a \in Accepts : Writers(a) \subseteq Users
    BY ItemTypes DEF Writers
  <1>4. QED
    BY <1>1, <1>2, <1>3

(* The writers of a request are listed once each.                          *)
LEMMA WritersListed ==
  ASSUME NEW a \in Accepts, NEW s, s = SetToSeq(Writers(a))
  PROVE  /\ Cardinality(Writers(a)) \in Nat /\ Cardinality(Writers(a)) >= 1
         /\ s \in [1 .. Cardinality(Writers(a)) -> Writers(a)]
         /\ \A k, l \in 1 .. Cardinality(Writers(a)) : s[k] = s[l] => k = l
         /\ \A u \in Writers(a) : \E k \in 1 .. Cardinality(Writers(a)) : s[k] = u
  <1> DEFINE W == Writers(a)
             n == Cardinality(W)
             h == [i \in Indices(a) |-> WriterOf(a, i)]
  <1>1. IsFiniteSet(Indices(a)) /\ 1 \in Indices(a)
    BY ItemTypes
  <1>2. h \in Surjection(Indices(a), W)
    BY DEF Surjection, Writers
  <1>3. IsFiniteSet(W)
    <2> HIDE DEF h, W
    <2>1. QED
      BY <1>1, <1>2, FS_Surjection
  <1>4. WriterOf(a, 1) \in W
    BY <1>1 DEF Writers
  <1> HIDE DEF h, W
  <1>5. n \in Nat /\ ExistsBijection(1 .. n, W)
    BY <1>3, FS_CardinalityType
  <1>6. n # 0
    BY <1>3, <1>4, FS_EmptySet
  <1>7. PICK f : f \in [1 .. n -> W] /\ IsInjective(f)
    <2>1. PICK g : g \in Bijection(1 .. n, W)
      BY <1>5 DEF ExistsBijection
    <2>2. g \in [1 .. n -> W] /\ IsInjective(g)
      BY <2>1 DEF Bijection, Injection
    <2>3. QED
      BY <2>2
  <1>8. s = CHOOSE g \in [1 .. n -> W] : IsInjective(g)
    BY DEF SetToSeq, W
  <1>9. s \in [1 .. n -> W] /\ IsInjective(s)
    BY <1>7, <1>8, Zenon
  <1>10. s \in Surjection(1 .. n, W)
    <2>1. s \in Injection(1 .. n, W)
      BY <1>9 DEF Injection
    <2>2. Cardinality(1 .. n) = n
      BY <1>5, FS_Interval
    <2>3. QED
      BY <1>3, <2>1, <2>2, FS_Injection
  <1>11. DOMAIN s = 1 .. n
    BY <1>9
  <1>12. \A k, l \in 1 .. n : s[k] = s[l] => k = l
    BY <1>9, <1>11 DEF IsInjective
  <1>13. \A u \in W : \E k \in 1 .. n : s[k] = u
    BY <1>10 DEF Surjection
  <1> HIDE DEF n
  <1>14. n >= 1
    BY <1>5, <1>6
  <1>15. QED
    BY <1>5, <1>9, <1>12, <1>13, <1>14 DEF n, W

(* Each writer is paid once and the platform last, if it has a fee.        *)
LEMMA PayeeFacts ==
  ASSUME NEW a \in Accepts, NEW n, n = Len(Payees[a])
  PROVE  /\ n \in Nat /\ n >= 1 /\ DOMAIN Payees[a] = 1 .. n
         /\ \A k \in 1 .. n :
              \/ Payees[a][k] \in Writers(a) /\ Payees[a][k] # Platform
              \/ Payees[a][k] = Platform /\ k = n /\ Fee[a] > 0
         /\ \A k, l \in 1 .. n : Payees[a][k] = Payees[a][l] => k = l
         /\ \A u \in Writers(a) : \E k \in 1 .. n : Payees[a][k] = u
         /\ Fee[a] > 0 => Payees[a][n] = Platform
  <1> DEFINE W == Writers(a)
             m == Cardinality(W)
             s == SetToSeq(W)
             p == Payees[a]
  <1>1. /\ m \in Nat /\ m >= 1
        /\ s \in [1 .. m -> W]
        /\ \A k, l \in 1 .. m : s[k] = s[l] => k = l
        /\ \A u \in W : \E k \in 1 .. m : s[k] = u
    BY WritersListed
  <1>2. Platform \notin W
    BY Names DEF Platform
  <1>3. p = s \o (IF Fee[a] > 0 THEN <<Platform>> ELSE <<>>)
    BY DEF Payees, Writers
  <1> HIDE DEF W, m, s, p
  <1>4. s \in Seq(W) /\ Len(s) = m
    BY <1>1
  <1>5. CASE Fee[a] > 0
    <2>1. p = s \o <<Platform>>
      BY <1>3, <1>5
    <2>2. Len(p) = m + 1 /\ DOMAIN p = 1 .. m + 1 /\ p[m + 1] = Platform
      BY <1>1, <1>4, <2>1
    <2>3. \A k \in 1 .. m : p[k] = s[k]
      BY <1>1, <1>4, <2>1
    <2>4. \A k \in 1 .. m + 1 : k \in 1 .. m \/ k = m + 1
      BY <1>1
    <2>5. \A k \in 1 .. m : s[k] \in W
      BY <1>1
    <2>6. n = m + 1 /\ n \in Nat /\ n >= 1
      BY <1>1, <2>2 DEF p
    <2>7. \A k, l \in 1 .. n : p[k] = p[l] => k = l
      BY <1>1, <1>2, <2>2, <2>3, <2>4, <2>5, <2>6
    <2>8. \A u \in W : \E k \in 1 .. n : p[k] = u
      <3>1. \A k \in 1 .. m : k \in 1 .. n
        BY <1>1, <2>6
      <3>2. QED
        BY <1>1, <2>3, <3>1
    <2>9. \A k \in 1 .. n : \/ p[k] \in W /\ p[k] # Platform
                            \/ p[k] = Platform /\ k = n /\ Fee[a] > 0
      BY <1>2, <1>5, <2>2, <2>3, <2>4, <2>5, <2>6
    <2>10. QED
      BY <2>2, <2>6, <2>7, <2>8, <2>9 DEF p, W
  <1>6. CASE ~(Fee[a] > 0)
    <2>1. p = s \o <<>>
      BY <1>3, <1>6
    <2>2. Len(p) = m /\ DOMAIN p = 1 .. m /\ n = m
      BY <1>1, <1>4, <2>1 DEF p
    <2>3. \A k \in 1 .. m : p[k] = s[k] /\ s[k] \in W
      BY <1>1, <1>4, <2>1
    <2>4. QED
      BY <1>1, <1>2, <1>6, <2>2, <2>3 DEF p, W
  <1>7. QED
    BY <1>5, <1>6

(* The transfers of a request are numbered.                                *)
LEMMA PayeeNumbers ==
  ASSUME NEW a \in Accepts, NEW k \in DOMAIN Payees[a]
  PROVE  k \in Nat /\ k >= 1
  <1> DEFINE n == Len(Payees[a])
  <1>1. n \in Nat /\ DOMAIN Payees[a] = 1 .. n
    BY PayeeFacts
  <1> HIDE DEF n
  <1>2. QED
    BY <1>1

(* Every writer of a request is among its payees.                          *)
LEMMA EveryWriterIsPaid ==
  ASSUME NEW a \in Accepts
  PROVE  \A u \in Writers(a) : \E k \in 1 .. Len(Payees[a]) : Payees[a][k] = u
  <1> DEFINE n == Len(Payees[a])
  <1>1. SUFFICES ASSUME NEW u \in Writers(a)
                 PROVE  \E k \in 1 .. n : Payees[a][k] = u
    OBVIOUS
  <1>2. n = Len(Payees[a])
    OBVIOUS
  <1> HIDE DEF n
  <1>3. QED
    BY <1>2, PayeeFacts

(* What is transferred to a payee is an amount.                            *)
LEMMA AmountTypes ==
  ASSUME NEW a \in Accepts, NEW k \in DOMAIN Payees[a]
  PROVE  Amount(a, k) \in Nat
  <1>1. CASE Payees[a][k] = Platform
    BY <1>1, TotalTypes DEF Amount
  <1>2. CASE Payees[a][k] # Platform
    <2> DEFINE n == Len(Payees[a])
    <2>1. Payees[a][k] \in Writers(a)
      <3>1. /\ DOMAIN Payees[a] = 1 .. n
            /\ \A l \in 1 .. n :
                 \/ Payees[a][l] \in Writers(a) /\ Payees[a][l] # Platform
                 \/ Payees[a][l] = Platform /\ l = n /\ Fee[a] > 0
        BY PayeeFacts
      <3>2. QED
        BY <1>2, <3>1
    <2>2. Payees[a][k] \in Users
      BY <2>1, Names
    <2>3. QED
      BY <1>2, <2>2, WriterTotals DEF Amount
  <1>3. QED
    BY <1>1, <1>2

(* The transfers to the writers bring each item's part to its writer.      *)
LEMMA WritersGetTheRest ==
  ASSUME NEW a \in Accepts
  PROVE  SumFunctionOnSet([k \in DOMAIN Payees[a] |-> Amount(a, k)],
                          {k \in DOMAIN Payees[a] : Payees[a][k] # Platform})
           = SumFunctionOnSet([i \in Indices(a) |-> ToWriter(a, i)], Indices(a))
  <1> DEFINE K == {k \in DOMAIN Payees[a] : Payees[a][k] # Platform}
             pay == [k \in DOMAIN Payees[a] |-> Amount(a, k)]
             S == Indices(a)
             n == Len(Payees[a])
             f == [i \in S |-> ToWriter(a, i)]
             h == [i \in S |-> CHOOSE k \in 1 .. n : Payees[a][k] = WriterOf(a, i)]
  <1>1. n \in Nat /\ DOMAIN Payees[a] = 1 .. n
    BY PayeeFacts
  <1>2. IsFiniteSet(S) /\ IsFiniteSet(K)
    <2>1. IsFiniteSet(1 .. n) /\ K \in SUBSET (1 .. n)
      BY <1>1, FS_Interval
    <2>2. QED
      BY <2>1, ItemTypes, FS_Subset
  <1>3. \A i \in S : WriterOf(a, i) \in Writers(a)
    BY DEF Writers
  <1>4. \A i \in S : h[i] \in 1 .. n /\ Payees[a][h[i]] = WriterOf(a, i)
    <2>1. \A i \in S : \E k \in 1 .. n : Payees[a][k] = WriterOf(a, i)
      <3>1. \A u \in Writers(a) : \E k \in 1 .. n : Payees[a][k] = u
        BY EveryWriterIsPaid
      <3> HIDE DEF S, n
      <3>2. QED
        BY <1>3, <3>1, Zenon
    <2>2. \A i \in S : h[i] = CHOOSE k \in 1 .. n : Payees[a][k] = WriterOf(a, i)
      OBVIOUS
    <2> HIDE DEF S, h, n
    <2>3. QED
      BY <2>1, <2>2, Zenon
  <1>5. \A i \in S : f[i] \in Int /\ h[i] \in K
    <2>1. \A i \in S : f[i] \in Int
      BY PremiumTypes
    <2>2. \A i \in S : WriterOf(a, i) # Platform
      BY <1>3, Names DEF Platform
    <2> HIDE DEF S, h, f
    <2>3. QED
      BY <1>1, <1>4, <2>1, <2>2
  <1>6. ASSUME NEW k \in K
        PROVE  pay[k] = SumFunctionOnSet(f, {i \in S : h[i] = k})
    <2> DEFINE u == Payees[a][k]
               T == IndicesOf(a, u)
               e == [i \in T |-> ToWriter(a, i)]
    <2>1. k \in 1 .. n /\ u # Platform /\ pay[k] = Amount(a, k)
      BY <1>1
    <2>2. u \in Users
      <3>1. u \in Writers(a)
        BY <2>1, PayeeFacts
      <3>2. QED
        BY <3>1, Names
    <2>3. pay[k] = SumFunctionOnSet(e, T)
      BY <2>1, <2>2, WriterTotals DEF Amount
    <2>4. {i \in S : h[i] = k} = T
      <3>1. T = {i \in S : WriterOf(a, i) = u}
        BY DEF IndicesOf
      <3>2. \A x, y \in 1 .. n : Payees[a][x] = Payees[a][y] => x = y
        BY PayeeFacts
      <3> HIDE DEF S, h, T, n
      <3>3. \A i \in S : h[i] = k <=> WriterOf(a, i) = u
        BY <1>4, <2>1, <3>2
      <3>4. QED
        BY <3>1, <3>3
    <2>5. SumFunctionOnSet(e, T) = SumFunctionOnSet(f, T)
      <3>1. T \in SUBSET S
        BY DEF IndicesOf
      <3>2. IsFiniteSet(T)
        BY <1>2, <3>1, FS_Subset
      <3>3. \A i \in T : f[i] \in Int /\ e[i] = f[i]
        BY <1>5, <3>1
      <3> HIDE DEF T, e, f
      <3>4. QED
        BY <3>2, <3>3, SumOfEqual
    <2> HIDE DEF T, e, f, h, S
    <2>6. QED
      BY <2>3, <2>4, <2>5
  <1> HIDE DEF S, f, h, K, pay
  <1>7. SumFunctionOnSet(pay, K) = SumFunctionOnSet(f, S)
    <2> DEFINE part == [k \in K |-> {i \in S : h[i] = k}]
    <2>1. \A k \in K : /\ part[k] \in SUBSET S
                       /\ \A i \in S : i \in part[k] <=> h[i] = k
      OBVIOUS
    <2>2. \A k \in K : pay[k] = SumFunctionOnSet(f, part[k])
      BY <1>6
    <2> HIDE DEF part
    <2>3. QED
      BY <1>2, <1>5, <2>1, <2>2, SumByGroups
  <1>8. QED
    BY <1>7 DEF S, f, K, pay

(* The transfers add up to the premium.                                    *)
LEMMA PaymentsAddUp ==
  ASSUME NEW a \in Accepts
  PROVE  SumFunctionOnSet([k \in DOMAIN Payees[a] |-> Amount(a, k)],
                          1 .. Len(Payees[a])) = Premium[a]
  <1> DEFINE n == Len(Payees[a])
             pay == [k \in DOMAIN Payees[a] |-> Amount(a, k)]
             S == Indices(a)
             K == {k \in DOMAIN Payees[a] : Payees[a][k] # Platform}
             f == [i \in S |-> ToWriter(a, i)]
             g == [i \in S |-> FeeOf(a, i)]
             p == [i \in S |-> PremiumOf(a, i)]
             N == 1 .. n
  <1>1. n \in Nat /\ n >= 1 /\ DOMAIN Payees[a] = N
    BY PayeeFacts
  <1>2. IsFiniteSet(N)
    BY <1>1, FS_Interval
  <1>3. SumFunctionOnSet(pay, K) = SumFunctionOnSet(f, S)
    BY WritersGetTheRest
  <1>4. Premium[a] = SumFunctionOnSet(p, S) /\ Fee[a] = SumFunctionOnSet(g, S)
        /\ Premium[a] \in Nat /\ Fee[a] \in Nat
    BY TotalTypes
  <1>5. SumFunctionOnSet(p, S) = SumFunctionOnSet(f, S) + SumFunctionOnSet(g, S)
    <2>1. IsFiniteSet(S)
      BY ItemTypes
    <2>2. \A i \in S : f[i] \in Int /\ g[i] \in Int /\ p[i] = f[i] + g[i]
      BY PremiumTypes
    <2> HIDE DEF S, f, g, p
    <2>3. QED
      BY <2>1, <2>2, SumOfBoth
  <1>6. SumFunctionOnSet(f, S) \in Int
    <2>1. IsFiniteSet(S) /\ \A i \in S : f[i] \in Nat
      BY ItemTypes, PremiumTypes
    <2> HIDE DEF S, f
    <2>2. QED
      BY <2>1, SumOfAmounts
  <1>7. \A k \in N : pay[k] = Amount(a, k) /\ pay[k] \in Int
    BY <1>1, AmountTypes
  <1>8. CASE Fee[a] > 0
    <2>1. K = N \ {n} /\ n \in N
      BY <1>1, <1>8, PayeeFacts
    <2>2. pay[n] = Fee[a]
      BY <1>7, <1>8, <2>1, PayeeFacts DEF Amount
    <2> HIDE DEF K, N, S, f, g, p, pay, n
    <2>3. SumFunctionOnSet(pay, N) = pay[n] + SumFunctionOnSet(pay, N \ {n})
      <3>1. \A k \in N : pay[k] \in Int
        BY <1>7
      <3>2. N \in SUBSET N
        OBVIOUS
      <3>3. QED
        BY <1>2, <2>1, <3>1, <3>2, SumTakesAny
    <2>4. SumFunctionOnSet(pay, N) = Fee[a] + SumFunctionOnSet(f, S)
      BY <1>3, <2>1, <2>2, <2>3
    <2>5. SumFunctionOnSet(pay, N) = Premium[a]
      BY <1>4, <1>5, <1>6, <2>4
    <2>6. QED
      BY <2>5 DEF N, n, pay
  <1>9. CASE ~(Fee[a] > 0)
    <2>1. K = N
      BY <1>1, <1>9, PayeeFacts
    <2> HIDE DEF K, N, S, f, g, p, pay, n
    <2>2. SumFunctionOnSet(pay, N) = Premium[a]
      BY <1>3, <1>4, <1>5, <1>6, <1>9, <2>1
    <2>3. QED
      BY <2>2 DEF N, n, pay
  <1>10. QED
    BY <1>8, <1>9

-----------------------------------------------------------------------------
(* The inductive invariant.                                                *)
Holds(a, o) == \E i \in Indices(a) : OfferOf(a, i) = o

(* An offer is held by one accept at a time, which remembers it as it was: *)
(* open, and with no more to sell than its writer once offered.            *)
HeldOnce ==
  \A a, b \in Pending : \A o \in Offers : Holds(a, o) /\ Holds(b, o) => a = b

OffersFit ==
  /\ \A o \in Offers : offer[o].remaining <= Total[o]
  /\ \A a \in Pending :
       /\ DOMAIN accept[a].was = Indices(a)
       /\ \A i \in Indices(a) :
            /\ accept[a].was[i].status \in Acceptable
            /\ accept[a].was[i].remaining <= Total[OfferOf(a, i)]

(* Only what was accepted is transferred, one transfer after the other,    *)
(* and a sale has made all of its transfers but the one that was waived.   *)
CallsOf(a) ==
  /\ \A k \in Nat : <<a, k>> \in net \cup executed =>
       k \in DOMAIN Payees[a] /\ accept[a].phase \notin {"None", "Refused"}
  /\ at[a] \notin {"idle", "price"} =>
       \E k \in DOMAIN Payees[a] :
         /\ at[a] = Payees[a][k]
         /\ \A j \in 1 .. k - 1 : <<a, j>> \in executed
         /\ reply[a] = "ok" => <<a, k>> \in executed
  /\ a \in Sold => \A k \in DOMAIN Payees[a] :
       <<a, k>> \in executed \/ (a \in waived /\ Payees[a][k] = Platform)

CallsFit == \A a \in Accepts : CallsOf(a)

(* What an accept requires to be locked, and what it still adds to or      *)
(* takes from a user's balances before they are what the ledger holds.     *)
Need(u) ==
  [a \in Accepts |-> IF a \in Pending \cup (Sold \ closed) THEN Pledges[a][u] ELSE 0]
Due(u) ==
  [a \in Accepts |-> IF a \in Pending THEN (Owes(a, u) + Came(a, u)) - Left(a, u)
                     ELSE 0]

Covers == \A u \in Users : locked[u] = SumFunctionOnSet(Need(u), Accepts)

Clear(u) == \A a \in Accepts : u \in Parties(a) => ~HalfDone(a)
BooksMatch ==
  \A u \in Users : Clear(u) =>
    funds[u] = available[u] + locked[u] + SumFunctionOnSet(Due(u), Accepts)

IInv ==
  /\ TypeOK /\ RecordsAgree /\ HeldOnce /\ OffersFit /\ CallsFit
  /\ Covers /\ BooksMatch

-----------------------------------------------------------------------------
(* Types.                                                                  *)

(* What is known of an accept whose payload runs.                          *)
LEMMA Running ==
  ASSUME RecordsAgree, NEW a \in Accepts, at[a] # "idle"
  PROVE  a \in Pending /\ a \notin Sold /\ accept[a].phase = "BuyerDebited"
  BY DEF RecordsAgree, Pending, Sold

(* A pending accept is not a completed one.                                *)
LEMMA PhaseSets ==
  ASSUME NEW a \in Accepts
  PROVE  /\ a \in Pending <=> accept[a].phase = "BuyerDebited"
         /\ a \in Sold <=> accept[a].phase = "Completed"
         /\ (a \in Pending)' <=> accept'[a].phase = "BuyerDebited"
         /\ (a \in Sold)' <=> accept'[a].phase = "Completed"
  BY DEF Pending, Sold

(* The debit of a request is an amount.                                    *)
LEMMA DebitTypes ==
  ASSUME NEW a \in Accepts, NEW fee \in Nat
  PROVE  Debit(a, fee) \in Nat
  <1>1. Len(Payees[a]) \in Nat /\ Premium[a] \in Nat
    BY PayeeFacts, TotalTypes
  <1>2. Len(Payees[a]) * fee \in Nat
    BY <1>1
  <1>3. QED
    BY <1>1, <1>2 DEF Debit

(* An entry changes: completed accepts stay so.                            *)
LEMMA SoldGrows ==
  ASSUME TypeOK, NEW a \in Accepts, a \notin Sold, NEW e,
         accept' = [accept EXCEPT ![a] = e]
  PROVE  Sold \subseteq Sold' /\ (e.phase = "Completed" => a \in Sold')
  BY DEF TypeOK, Sold

(* The buyer's request is accepted.                                        *)
LEMMA AcceptTypes ==
  ASSUME TypeOK, NEW a \in Accepts, NEW fee \in Fees, Accept(a, fee)
  PROVE  TypeOK'
  <1> USE DEF Accept
  <1>1. fee \in Nat /\ a \notin Sold
    <2>1. Fees \subseteq Nat
      BY ONLY AcceptanceAssumption
    <2>2. QED
      BY <2>1 DEF Prepared, Admitted, Sold
  <1>2. \A o \in Offers : Reserved(a, o) \in OfferStates
    <2>1. \A o \in Offers : Taken[a][o] \in Nat /\ offer[o].remaining \in Nat
      BY TakenTypes DEF TypeOK, OfferStates
    <2>2. QED
      BY <2>1 DEF Reserved, OfferStates
  <1>3. offer' \in [Offers -> OfferStates]
    BY <1>2 DEF TypeOK
  <1>4. accept' \in [Accepts -> AcceptStates]
    <2> DEFINE w == [i \in Indices(a) |-> offer[OfferOf(a, i)]]
    <2>1. w \in Seq(OfferStates)
      <3>1. Indices(a) = 1 .. Len(Items[a]) /\ Len(Items[a]) \in Nat
        BY ItemTypes
      <3>2. \A i \in Indices(a) : offer[OfferOf(a, i)] \in OfferStates
        BY ItemTypes DEF TypeOK
      <3>3. w \in [1 .. Len(Items[a]) -> OfferStates]
        BY <3>1, <3>2
      <3> HIDE DEF w
      <3>4. QED
        BY <3>1, <3>3
    <2> HIDE DEF w
    <2>2. [phase |-> "BuyerDebited", quoted |-> fee, was |-> w] \in AcceptStates
      BY <1>1, <2>1 DEF AcceptStates
    <2>3. QED
      BY <2>2 DEF TypeOK, w
  <1>5. \A u \in Users : /\ Pledges[a][u] \in Nat /\ Pledges[a][u] <= available[u]
                         /\ available[u] \in Nat /\ locked[u] \in Nat
    BY WriterTotals DEF TypeOK, AllLockable
  <1>6. locked' \in [Users -> Nat]
    BY <1>5
  <1>7. available' \in [Users -> Nat]
    <2>1. Pledges[a][Buyer[a]] = 0
      <3>1. \A i \in Indices(a) : WriterOf(a, i) # Buyer[a]
        BY DEF Prepared, Valid, WriterOf
      <3>2. QED
        BY <3>1, Names, WriterTotals
    <2>2. Debit(a, fee) \in Nat /\ Debit(a, fee) <= available[Buyer[a]]
      BY <1>1, DebitTypes DEF Prepared
    <2> DEFINE d == Debit(a, fee)
    <2>3. d \in Nat /\ d <= available[Buyer[a]]
      BY <2>2
    <2>4. available' = [u \in Users |->
            (available[u] - Pledges[a][u]) - (IF u = Buyer[a] THEN d ELSE 0)]
      OBVIOUS
    <2> HIDE DEF d
    <2>5. QED
      BY <1>5, <2>1, <2>3, <2>4
  <1>8. Sold \subseteq Sold'
    BY <1>1, SoldGrows
  <1>9. /\ wal' \in [Accepts -> Resumable \cup {"Absent", "Succeeded", "FailedPermanent"}]
        /\ at' \in [Accepts -> Users \cup {Platform, "idle", "price"}]
    BY DEF TypeOK, Resumable
  <1>10. QED
    BY <1>3, <1>4, <1>6, <1>7, <1>8, <1>9 DEF TypeOK, ledger

(* The options of an accept are created.                                   *)
LEMMA FinalizeTypes ==
  ASSUME TypeOK, NEW a \in Accepts, NEW collected \in BOOLEAN,
         a \notin Sold, Finalize(a, collected)
  PROVE  TypeOK'
  <1> USE DEF Finalize
  <1>1. offer' \in [Offers -> OfferStates]
    <2>1. \A o \in Offers : offer[o] \in OfferStates
      BY DEF TypeOK
    <2>2. \A o \in Offers : \A s \in {"Filled", "PartiallyFilled"} :
            [offer[o] EXCEPT !.status = s] \in OfferStates
      BY <2>1 DEF OfferStates, Acceptable
    <2>3. QED
      BY <2>1, <2>2
  <1>2. accept' \in [Accepts -> AcceptStates]
    <2>1. [NoAccept EXCEPT !.phase = "Completed"] \in AcceptStates
      <3>1. [NoAccept EXCEPT !.phase = "Completed"]
              = [phase |-> "Completed", quoted |-> 0, was |-> <<>>]
        BY DEF NoAccept
      <3>2. <<>> \in Seq(OfferStates)
        OBVIOUS
      <3>3. [phase |-> "Completed", quoted |-> 0, was |-> <<>>] \in AcceptStates
        BY <3>2 DEF AcceptStates
      <3>4. QED
        BY <3>1, <3>3, Zenon
    <2>2. QED
      BY <2>1 DEF TypeOK
  <1>3. Fee[a] \in Nat /\ accept[a].quoted \in Nat
    BY TotalTypes DEF TypeOK, AcceptStates
  <1>4. available' \in [Users -> Nat]
    <2> DEFINE c(u) == IF u = Buyer[a] /\ ~collected THEN Fee[a] + accept[a].quoted ELSE 0
    <2>1. \A u \in Users : c(u) \in Nat
      BY <1>3
    <2>2. \A u \in Users : available[u] \in Nat /\ Earns[a][u] \in Nat
      BY WriterTotals DEF TypeOK
    <2>3. available' = [u \in Users |-> available[u] + Earns[a][u] + c(u)]
      OBVIOUS
    <2> HIDE DEF c
    <2>4. QED
      BY <2>1, <2>2, <2>3
  <1>5. earned' \in Nat
    BY <1>3 DEF TypeOK
  <1>6. Sold \subseteq Sold' /\ a \in Sold'
    <2>1. [NoAccept EXCEPT !.phase = "Completed"].phase = "Completed"
      BY DEF NoAccept
    <2>2. QED
      BY <2>1, SoldGrows
  <1>7. waived' \subseteq Sold'
    BY <1>6 DEF TypeOK
  <1>8. /\ wal' \in [Accepts -> Resumable \cup {"Absent", "Succeeded", "FailedPermanent"}]
        /\ at' \in [Accepts -> Users \cup {Platform, "idle", "price"}]
        /\ reply' \in [Accepts -> {"none", "ok", "rejected"}]
    BY DEF TypeOK
  <1>9. QED
    BY <1>1, <1>2, <1>4, <1>5, <1>6, <1>7, <1>8 DEF TypeOK, ledger

(* What a failed accept puts back of an offer it holds.                    *)
LEMMA RestoredFacts ==
  ASSUME TypeOK, OffersFit, NEW a \in Pending, NEW o \in Offers, Taken[a][o] > 0
  PROVE  /\ Restored(a, o) \in OfferStates
         /\ Restored(a, o).status \in Acceptable
         /\ Restored(a, o).remaining <= Total[o]
         /\ \E i \in Indices(a) : OfferOf(a, i) = o /\ Restored(a, o) = accept[a].was[i]
  <1> DEFINE i == CHOOSE j \in Indices(a) : OfferOf(a, j) = o
  <1>1. a \in Accepts
    BY DEF Pending
  <1>2. i \in Indices(a) /\ OfferOf(a, i) = o
    <2>1. \E j \in Indices(a) : OfferOf(a, j) = o
      BY <1>1, TakenTypes
    <2>2. QED
      BY <2>1, Zenon
  <1>3. Restored(a, o) = accept[a].was[i]
    BY DEF Restored
  <1> HIDE DEF i
  <1>4. accept[a].was \in Seq(OfferStates) /\ DOMAIN accept[a].was = Indices(a)
    BY <1>1 DEF TypeOK, AcceptStates, OffersFit
  <1>5. accept[a].was[i] \in OfferStates
    <2> DEFINE w == accept[a].was
    <2>1. w \in Seq(OfferStates) /\ i \in DOMAIN w
      BY <1>2, <1>4
    <2> HIDE DEF w
    <2>2. w[i] \in OfferStates
      BY <2>1
    <2>3. QED
      BY <2>2 DEF w
  <1>6. accept[a].was[i].status \in Acceptable /\ accept[a].was[i].remaining <= Total[o]
    BY <1>2 DEF OffersFit
  <1>7. QED
    BY <1>2, <1>3, <1>5, <1>6

(* An accept fails for good.                                               *)
LEMMA FailTypes ==
  ASSUME TypeOK, OffersFit, NEW a \in Pending, FailForGood(a)
  PROVE  TypeOK'
  <1> USE DEF FailForGood
  <1>1. a \in Accepts /\ a \notin Sold
    BY DEF Pending, Sold
  <1>2. offer' \in [Offers -> OfferStates]
    <2>1. \A o \in Offers : offer[o] \in OfferStates
      BY DEF TypeOK
    <2>2. \A o \in Offers : Taken[a][o] > 0 => Restored(a, o) \in OfferStates
      BY RestoredFacts
    <2>3. QED
      BY <2>1, <2>2
  <1>3. accept' \in [Accepts -> AcceptStates] /\ accept' = [accept EXCEPT ![a] =
          [accept[a] EXCEPT !.phase = "Failed"]]
    <2>1. accept[a] \in AcceptStates
      BY <1>1 DEF TypeOK
    <2>2. [accept[a] EXCEPT !.phase = "Failed"] \in AcceptStates
      BY <2>1 DEF AcceptStates
    <2>3. QED
      BY <2>2 DEF TypeOK
  <1>4. \A u \in Users : /\ Unlocks(a, u) \in Nat /\ Unlocks(a, u) <= locked[u]
                         /\ locked[u] \in Nat /\ available[u] \in Nat
    <2>1. \A u \in Users : Pledges[a][u] \in Nat
      BY <1>1, WriterTotals
    <2>2. \A u \in Users : locked[u] \in Nat /\ available[u] \in Nat
      BY DEF TypeOK
    <2>3. QED
      BY <2>1, <2>2 DEF Unlocks
  <1>5. locked' \in [Users -> Nat]
    BY <1>4
  <1>6. available' \in [Users -> Nat]
    <2> DEFINE d == Debit(a, accept[a].quoted)
    <2>1. d \in Nat
      BY <1>1, DebitTypes DEF TypeOK, AcceptStates
    <2>2. available' = [u \in Users |-> available[u] + Unlocks(a, u)
                          + (IF u = Buyer[a] THEN d ELSE 0)]
      OBVIOUS
    <2> HIDE DEF d
    <2>3. QED
      BY <1>4, <2>1, <2>2
  <1>7. Sold \subseteq Sold'
    BY <1>1, <1>3, SoldGrows
  <1>8. /\ wal' \in [Accepts -> Resumable \cup {"Absent", "Succeeded", "FailedPermanent"}]
        /\ at' \in [Accepts -> Users \cup {Platform, "idle", "price"}]
        /\ reply' \in [Accepts -> {"none", "ok", "rejected"}]
    BY DEF TypeOK
  <1>9. QED
    BY <1>2, <1>3, <1>5, <1>6, <1>7, <1>8 DEF TypeOK, ledger

(* The ledger executes no transfer its account cannot pay.                 *)
LEMMA LedgerTypes ==
  ASSUME TypeOK, CallsFit, NEW a \in Accepts, NEW k \in DOMAIN Payees[a],
         LedgerExecutes(a, k)
  PROVE  TypeOK'
  <1> DEFINE m == Amount(a, k)
             q == accept[a].quoted
             payee == Payees[a][k]
             verdict == Verdict(<<a, k>> \in executed, age[a], q, ledgerFee,
                                funds[Buyer[a]], m)
  <1>1. m \in Nat /\ q \in Nat /\ k \in Nat
    <2>1. k \in 1 .. Len(Payees[a]) /\ Len(Payees[a]) \in Nat
      BY PayeeFacts
    <2>2. accept[a] \in AcceptStates
      BY DEF TypeOK
    <2>3. QED
      BY <2>1, <2>2, AmountTypes DEF AcceptStates
  <1>2. Buyer[a] \in Users /\ \A u \in Users : funds[u] \in Nat
    BY Names DEF TypeOK
  <1>3. net' = net \ {<<a, k>>}
    BY DEF LedgerExecutes
  <1>4. ASSUME /\ verdict = "applied"
               /\ executed' = executed \cup {<<a, k>>}
               /\ funds' = [u \in Users |->
                    (funds[u] + (IF u = payee THEN m ELSE 0))
                      - (IF u = Buyer[a] THEN m + q ELSE 0)]
        PROVE  executed' \subseteq Accepts \X Nat /\ funds' \in [Users -> Nat]
    <2>1. m + q <= funds[Buyer[a]]
      BY <1>1, <1>2, <1>4 DEF Verdict
    <2>2. funds' = [u \in Users |->
                  (funds[u] + (IF u = payee THEN m ELSE 0))
                    - (IF u = Buyer[a] THEN m + q ELSE 0)]
      BY <1>4
    <2>3. executed' \subseteq Accepts \X Nat
      BY <1>1, <1>4 DEF TypeOK
    <2> HIDE DEF m, q, payee, verdict
    <2>4. funds' \in [Users -> Nat]
      BY <1>1, <1>2, <2>1, <2>2
    <2>5. QED
      BY <2>3, <2>4
  <1>5. executed' \subseteq Accepts \X Nat /\ funds' \in [Users -> Nat]
    <2>1. CASE UNCHANGED <<executed, funds>>
      BY <2>1 DEF TypeOK
    <2>2. CASE ~ UNCHANGED <<executed, funds>>
      <3>1. /\ verdict = "applied"
            /\ executed' = executed \cup {<<a, k>>}
            /\ funds' = [u \in Users |->
                 (funds[u] + (IF u = payee THEN m ELSE 0))
                   - (IF u = Buyer[a] THEN m + q ELSE 0)]
        BY <2>2 DEF LedgerExecutes
      <3>2. QED
        BY <1>4, <3>1
    <2>3. QED
      BY <2>1, <2>2
  <1>6. reply' \in [Accepts -> {"none", "ok", "rejected"}]
    BY DEF LedgerExecutes, TypeOK
  <1>7. UNCHANGED <<records, age, at, ledgerFee, books>>
    BY DEF LedgerExecutes
  <1>8. QED
    BY <1>3, <1>5, <1>6, <1>7 DEF TypeOK, records, books, Sold

-----------------------------------------------------------------------------
(* The actions come to a few kinds of steps.                               *)
WalStates == Resumable \cup {"Absent", "Succeeded", "FailedPermanent"}
Callees == Users \cup {Platform, "idle", "price"}

(* An offer that no accept holds gets another status.                      *)
Marks(o) ==
  /\ offer' \in [Offers -> OfferStates] /\ lapsed' \subseteq Offers
  /\ \A p \in Offers :
       /\ offer'[p].remaining = offer[p].remaining
       /\ offer'[p].status # offer[p].status =>
            p = o /\ "Processing" \notin {offer[p].status, offer'[p].status}
  /\ UNCHANGED <<accept, waived, closed, wal, age, at, reply, ledger, books>>

(* A request is refused for want of collateral.                            *)
Refuses(a) ==
  /\ accept[a].phase = "None"
  /\ accept' = [accept EXCEPT ![a].phase = "Refused"]
  /\ UNCHANGED <<offer, lapsed, waived, closed, wal, age, at, reply, ledger, books>>

(* A transfer is sent when those before it have been made.                 *)
Goes(a, k) ==
  /\ a \in Pending /\ k \in DOMAIN Payees[a]
  /\ \A j \in 1 .. k - 1 : <<a, j>> \in executed
  /\ Send(a, k)

(* An accept is completed: all transfers have been made, or all but the    *)
(* platform's.                                                             *)
Sells(a, collected) ==
  /\ a \in Pending
  /\ \A j \in 1 .. Len(Payees[a]) - 1 : <<a, j>> \in executed
  /\ collected => <<a, Len(Payees[a])>> \in executed
  /\ ~collected => Payees[a][Len(Payees[a])] = Platform
  /\ Finalize(a, collected)

Fails(a) == a \in Pending /\ FailForGood(a)

(* Only the row of an accept and the attempt that runs it change.          *)
Rests(a) ==
  /\ wal' = [wal EXCEPT ![a] = wal'[a]] /\ wal'[a] \in WalStates
  /\ a \in Pending <=> wal'[a] \in Resumable
  /\ age' = [age EXCEPT ![a] = age'[a]] /\ age'[a] \in Ages
  /\ at' = [at EXCEPT ![a] = at'[a]]
  /\ reply' = [reply EXCEPT ![a] = reply'[a]] /\ reply'[a] \in {"none", reply[a]}
  /\ \/ at'[a] = "idle"
     \/ at'[a] = "price" /\ a \in Pending
     \/ at'[a] = at[a] /\ reply'[a] = reply[a]
  /\ UNCHANGED <<offer, lapsed, accept, waived, closed, ledger, books>>

(* An offer is created, cancelled or lapses.                               *)
LEMMA OfferStepMarks ==
  ASSUME TypeOK, NEW o \in Offers, OfferStep(o)
  PROVE  Marks(o)
  <1>1. offer \in [Offers -> OfferStates] /\ lapsed \subseteq Offers
        /\ \A s \in {"Open", "Cancelled"} : [offer[o] EXCEPT !.status = s] \in OfferStates
    BY DEF TypeOK, OfferStates, Acceptable
  <1>2. CASE Create(o)
    BY <1>1, <1>2 DEF Create, Marks, OfferStates
  <1>3. CASE Cancel(o)
    BY <1>1, <1>3 DEF Cancel, Marks, OfferStates, Acceptable
  <1>4. CASE Lapse(o)
    BY <1>1, <1>4 DEF Lapse, Marks
  <1>5. QED
    BY <1>2, <1>3, <1>4 DEF OfferStep

(* A request for more than a writer can cover marks his offer.             *)
LEMMA RefuseShortMarks ==
  ASSUME TypeOK, NEW a \in Accepts, RefuseShort(a)
  PROVE  \E o \in Offers : Marks(o)
  <1>1. PICK i \in Indices(a) :
          /\ \A k \in 1 .. i : Valid(a, k)
          /\ offer' = [offer EXCEPT ![OfferOf(a, i)].status = "Cancelled"]
    BY DEF RefuseShort
  <1> DEFINE o == OfferOf(a, i)
  <1>2. o \in Offers /\ i \in 1 .. i
    BY ItemTypes
  <1>3. offer[o].status \in Acceptable
    BY <1>1, <1>2 DEF Valid
  <1> HIDE DEF o
  <1>4. offer' = [offer EXCEPT ![o].status = "Cancelled"]
    BY <1>1 DEF o
  <1>5. offer \in [Offers -> OfferStates] /\ lapsed \subseteq Offers
        /\ [offer[o] EXCEPT !.status = "Cancelled"] \in OfferStates
    BY <1>2 DEF TypeOK, OfferStates, Acceptable
  <1>6. UNCHANGED <<lapsed, accept, waived, closed, wal, age, at, reply, ledger, books>>
    BY DEF RefuseShort
  <1>7. Marks(o)
    BY <1>2, <1>3, <1>4, <1>5, <1>6 DEF Marks, OfferStates, Acceptable
  <1>8. QED
    BY <1>2, <1>7

(* An awaited transfer follows those that have been made.                  *)
LEMMA Awaiting ==
  ASSUME CallsFit, NEW a \in Accepts, at[a] \notin {"idle", "price"}
  PROVE  \E k \in 1 .. Len(Payees[a]) :
           /\ at[a] = Payees[a][k] /\ k \in DOMAIN Payees[a]
           /\ \A j \in 1 .. k - 1 : <<a, j>> \in executed
           /\ reply[a] = "ok" => <<a, k>> \in executed
           /\ at[a] = Platform => k = Len(Payees[a])
           /\ \A l \in DOMAIN Payees[a] : Payees[a][l] = at[a] => l = k
  <1> DEFINE n == Len(Payees[a])
  <1>1. /\ n \in Nat /\ DOMAIN Payees[a] = 1 .. n
        /\ \A k \in 1 .. n :
             \/ Payees[a][k] \in Writers(a) /\ Payees[a][k] # Platform
             \/ Payees[a][k] = Platform /\ k = n /\ Fee[a] > 0
        /\ \A k, l \in 1 .. n : Payees[a][k] = Payees[a][l] => k = l
    BY PayeeFacts
  <1>2. PICK k \in DOMAIN Payees[a] :
          /\ at[a] = Payees[a][k]
          /\ \A j \in 1 .. k - 1 : <<a, j>> \in executed
          /\ reply[a] = "ok" => <<a, k>> \in executed
    BY DEF CallsFit, CallsOf
  <1> HIDE DEF n
  <1>3. at[a] = Platform => k = n
    BY <1>1, <1>2
  <1>4. \A l \in DOMAIN Payees[a] : Payees[a][l] = at[a] => l = k
    BY <1>1, <1>2
  <1>5. QED
    BY <1>1, <1>2, <1>3, <1>4 DEF n

(* Whoever is to be paid, the attempt awaits a transfer.                   *)
LEMMA AwaitsTransfer ==
  ASSUME NEW a \in Accepts, NEW k \in DOMAIN Payees[a], at[a] = Payees[a][k]
  PROVE  at[a] \notin {"idle", "price"}
  <1> DEFINE n == Len(Payees[a])
  <1>0. /\ DOMAIN Payees[a] = 1 .. n
        /\ \A l \in 1 .. n :
             \/ Payees[a][l] \in Writers(a) /\ Payees[a][l] # Platform
             \/ Payees[a][l] = Platform /\ l = n /\ Fee[a] > 0
    BY PayeeFacts
  <1>1. at[a] \in Writers(a) \/ at[a] = Platform
    BY <1>0
  <1>2. QED
    BY <1>1, Names DEF Platform

(* An answer lets the payload go on, sell or fail.                         *)
LEMMA AnsweredKinds ==
  ASSUME RecordsAgree, CallsFit, NEW a \in Accepts, Answered(a)
  PROVE  \/ \E k \in DOMAIN Payees[a] : Goes(a, k)
         \/ \E c \in BOOLEAN : Sells(a, c)
         \/ Fails(a)
  <1> DEFINE n == Len(Payees[a])
  <1>1. PICK k \in DOMAIN Payees[a] :
          /\ at[a] = Payees[a][k]
          /\ \/ reply[a] = "ok" /\ k < n /\ Send(a, k + 1)
             \/ reply[a] = "ok" /\ k = n /\ Finalize(a, TRUE)
             \/ reply[a] = "rejected" /\ at[a] # Platform /\ FailForGood(a)
             \/ reply[a] = "rejected" /\ at[a] = Platform /\ Finalize(a, FALSE)
    BY DEF Answered
  <1>2. at[a] \notin {"idle", "price"}
    BY <1>1, AwaitsTransfer
  <1>3. a \in Pending
    BY <1>2, Running
  <1>4. /\ \A j \in 1 .. k - 1 : <<a, j>> \in executed
        /\ reply[a] = "ok" => <<a, k>> \in executed
        /\ at[a] = Platform => k = n
    <2>1. PICK l \in 1 .. n :
           /\ at[a] = Payees[a][l] /\ l \in DOMAIN Payees[a]
           /\ \A j \in 1 .. l - 1 : <<a, j>> \in executed
           /\ reply[a] = "ok" => <<a, l>> \in executed
           /\ at[a] = Platform => l = n
           /\ \A m \in DOMAIN Payees[a] : Payees[a][m] = at[a] => m = l
      BY <1>2, Awaiting
    <2>2. k = l
      BY <1>1, <2>1
    <2>3. QED
      BY <2>1, <2>2
  <1>5. n \in Nat /\ n >= 1 /\ DOMAIN Payees[a] = 1 .. n
    BY PayeeFacts
  <1>6. CASE reply[a] = "ok" /\ k < n /\ Send(a, k + 1)
    <2>1. k + 1 \in DOMAIN Payees[a] /\ k \in Nat
      BY <1>5, <1>6
    <2>2. \A j \in 1 .. (k + 1) - 1 : j = k \/ j \in 1 .. k - 1
      BY <2>1
    <2>3. \A j \in 1 .. (k + 1) - 1 : <<a, j>> \in executed
      BY <1>4, <1>6, <2>2
    <2>4. Goes(a, k + 1)
      BY <1>3, <1>6, <2>1, <2>3 DEF Goes
    <2>5. QED
      BY <2>1, <2>4
  <1>7. CASE reply[a] = "ok" /\ k = n /\ Finalize(a, TRUE)
    <2>1. Sells(a, TRUE)
      BY <1>3, <1>4, <1>7 DEF Sells
    <2>2. QED
      BY <2>1
  <1>8. CASE reply[a] = "rejected" /\ at[a] # Platform /\ FailForGood(a)
    BY <1>3, <1>8 DEF Fails
  <1>9. CASE reply[a] = "rejected" /\ at[a] = Platform /\ Finalize(a, FALSE)
    <2>1. Sells(a, FALSE)
      BY <1>1, <1>3, <1>4, <1>9 DEF Sells
    <2>2. QED
      BY <2>1
  <1>10. QED
    BY <1>1, <1>6, <1>7, <1>8, <1>9

(* Without an answer the attempt ends, or waives the platform's fee.       *)
LEMMA UnansweredKinds ==
  ASSUME TypeOK, RecordsAgree, CallsFit, NEW a \in Accepts, Unanswered(a)
  PROVE  (\E c \in BOOLEAN : Sells(a, c)) \/ Rests(a)
  <1>1. CASE at[a] \notin {"idle", Platform} /\ Requeue(a)
    <2>1. a \in Pending
      BY <1>1, Running
    <2>2. Rests(a)
      BY <1>1, <2>1 DEF Requeue, Rests, TypeOK, WalStates, Resumable, ledger, books
    <2>3. QED
      BY <2>2
  <1>2. CASE at[a] = Platform /\ Finalize(a, FALSE)
    <2>1. at[a] \notin {"idle", "price"}
      BY <1>2 DEF Platform
    <2>2. a \in Pending
      BY <2>1, Running
    <2>3. PICK k \in 1 .. Len(Payees[a]) :
            /\ at[a] = Payees[a][k]
            /\ \A j \in 1 .. k - 1 : <<a, j>> \in executed
            /\ at[a] = Platform => k = Len(Payees[a])
      BY <2>1, Awaiting
    <2>4. Sells(a, FALSE)
      BY <1>2, <2>2, <2>3 DEF Sells
    <2>5. QED
      BY <2>4
  <1>3. QED
    BY <1>1, <1>2 DEF Unanswered

(* An attempt is begun or interrupted; the timers do their work.           *)
LEMMA RowKinds ==
  ASSUME TypeOK, RecordsAgree, NEW a \in Accepts, RowStep(a) \/ Interrupt(a)
  PROVE  Rests(a)
  <1>1. a \in Pending <=> wal[a] \in Resumable
    BY DEF RecordsAgree
  <1>2. CASE Attempt(a)
    BY <1>1, <1>2 DEF Attempt, Rests, TypeOK, WalStates, Resumable
  <1>3. CASE Interrupt(a)
    BY <1>1, <1>3 DEF Interrupt, Rests, TypeOK, WalStates, records
  <1>4. CASE PromoteStale(a)
    BY <1>1, <1>4 DEF PromoteStale, Rests, TypeOK, WalStates, Resumable
  <1>5. CASE GiveUp(a)
    BY <1>1, <1>5 DEF GiveUp, Rests, TypeOK, WalStates, Resumable
  <1>6. CASE Grow(a)
    BY <1>1, <1>6 DEF Grow, Rests, TypeOK, WalStates, records, Ages, Young, Expired
  <1>7. QED
    BY <1>2, <1>3, <1>4, <1>5, <1>6 DEF RowStep, Retry, Recover

(* Every step of an accept is of one of the kinds.                         *)
LEMMA SaleKinds ==
  ASSUME TypeOK, RecordsAgree, CallsFit, NEW a \in Accepts, SaleStep(a)
  PROVE  \/ \E o \in Offers : Marks(o)
         \/ \E fee \in Fees : Accept(a, fee)
         \/ Refuses(a)
         \/ \E k \in DOMAIN Payees[a] : Goes(a, k)
         \/ \E c \in BOOLEAN : Sells(a, c)
         \/ Fails(a) \/ Rests(a)
         \/ \E k \in DOMAIN Payees[a] : LedgerExecutes(a, k)
         \/ SettleWorthless(a)
  <1>1. CASE RefuseShort(a)
    BY <1>1, RefuseShortMarks
  <1>2. ASSUME NEW fee \in Fees, RefuseTogether(a, fee)
        PROVE  Refuses(a)
    BY <1>2 DEF RefuseTogether, Prepared, Admitted, Refuses
  <1>3. CASE Priced(a)
    <2>1. at[a] # "idle" /\ Send(a, 1)
      BY <1>3 DEF Priced
    <2>2. a \in Pending
      BY <2>1, Running
    <2> DEFINE n == Len(Payees[a])
    <2>3. 1 \in DOMAIN Payees[a]
      <3>1. n \in Nat /\ n >= 1 /\ DOMAIN Payees[a] = 1 .. n
        BY PayeeFacts
      <3> HIDE DEF n
      <3>2. QED
        BY <3>1
    <2>4. \A j \in 1 .. 1 - 1 : FALSE
      OBVIOUS
    <2>5. Goes(a, 1)
      BY <2>1, <2>2, <2>3, <2>4 DEF Goes
    <2>6. QED
      BY <2>3, <2>5
  <1>4. CASE Unpriced(a)
    BY <1>4, Running DEF Unpriced, Fails
  <1>5. CASE Answered(a)
    BY <1>5, AnsweredKinds
  <1>6. CASE Unanswered(a)
    BY <1>6, UnansweredKinds
  <1>7. CASE Interrupt(a) \/ RowStep(a)
    BY <1>7, RowKinds
  <1>8. QED
    BY <1>1, <1>2, <1>3, <1>4, <1>5, <1>6, <1>7 DEF SaleStep, AcceptStep

-----------------------------------------------------------------------------
(* The offers and those who hold them.                                     *)
ProcessingHeld ==
  \A o \in Offers :
    offer[o].status = "Processing" <=> \E a \in Pending : Holds(a, o)

OffersInv == ProcessingHeld /\ HeldOnce /\ OffersFit

RowsFit ==
  \A a \in Accepts : /\ a \in Pending <=> wal[a] \in Resumable
                     /\ at[a] # "idle" => a \in Pending

(* To take a part of an offer is to hold it.                               *)
LEMMA HoldsWhatItTakes ==
  ASSUME NEW a \in Accepts, NEW o \in Offers
  PROVE  Taken[a][o] \in Nat /\ (Taken[a][o] > 0 <=> Holds(a, o))
  BY TakenTypes DEF Holds

(* RecordsAgree, in two parts.                                             *)
LEMMA RecordsParts == RecordsAgree <=> RowsFit /\ ProcessingHeld
  <1>1. \A a \in Pending : a \in Accepts
    BY DEF Pending
  <1>2. \A o \in Offers :
          (\E a \in Pending : Taken[a][o] > 0) <=> \E a \in Pending : Holds(a, o)
    BY <1>1, HoldsWhatItTakes
  <1>3. QED
    BY <1>2 DEF RecordsAgree, RowsFit, ProcessingHeld

(* The same after a step.                                                  *)
LEMMA RecordsPartsNext == RecordsAgree' <=> RowsFit' /\ ProcessingHeld'
  BY RecordsParts, PTL

(* One entry of the journal changes.                                       *)
LEMMA PendingAfter ==
  ASSUME TypeOK, NEW a \in Accepts, NEW e, accept' = [accept EXCEPT ![a] = e]
  PROVE  /\ accept'[a] = e
         /\ \A b \in Accepts \ {a} : accept'[b] = accept[b]
         /\ e.phase = "BuyerDebited" => Pending' = Pending \cup {a}
         /\ e.phase # "BuyerDebited" => Pending' = Pending \ {a}
  <1>1. /\ accept'[a] = e
        /\ \A b \in Accepts \ {a} : accept'[b] = accept[b]
    BY DEF TypeOK
  <1>2. QED
    BY <1>1 DEF Pending

(* Neither journal nor offers change.                                      *)
LEMMA OffersSame ==
  ASSUME OffersInv, UNCHANGED <<accept, offer>>
  PROVE  OffersInv'
  BY DEF OffersInv, ProcessingHeld, HeldOnce, OffersFit, Pending, Holds, Indices, OfferOf

(* An accept begins to hold offers that nobody held.                       *)
LEMMA AcceptOffers ==
  ASSUME TypeOK, OffersInv, NEW a \in Accepts, NEW fee \in Fees, Accept(a, fee)
  PROVE  OffersInv'
  <1> DEFINE e == [phase |-> "BuyerDebited", quoted |-> fee,
                   was |-> [i \in Indices(a) |-> offer[OfferOf(a, i)]]]
  <1>1. /\ accept'[a] = e
        /\ \A b \in Accepts \ {a} : accept'[b] = accept[b]
        /\ Pending' = Pending \cup {a} /\ a \notin Pending
    <2>1. accept' = [accept EXCEPT ![a] = e] /\ e.phase = "BuyerDebited"
      BY DEF Accept
    <2>2. a \notin Pending
      BY DEF Accept, Prepared, Admitted, Pending
    <2> HIDE DEF e
    <2>3. QED
      BY <2>1, <2>2, PendingAfter
  <1>2. \A i \in Indices(a) : offer[OfferOf(a, i)].status \in Acceptable
    BY DEF Accept, Prepared, Valid
  <1>3. \A o \in Offers : Holds(a, o) => offer[o].status \in Acceptable
    BY <1>2 DEF Holds
  <1>4. \A o \in Offers : Holds(a, o) => ~ \E b \in Pending : Holds(b, o)
    BY <1>3 DEF OffersInv, ProcessingHeld, Acceptable
  <1>5. HeldOnce'
    <2>1. \A b, c \in Pending \cup {a} : \A o \in Offers :
            Holds(b, o) /\ Holds(c, o) => b = c
      BY <1>4 DEF OffersInv, HeldOnce
    <2>2. QED
      BY <1>1, <2>1 DEF HeldOnce, Holds, Indices, OfferOf
  <1>6. \A o \in Offers : /\ Holds(a, o) => /\ offer'[o].status = "Processing"
                                            /\ offer'[o].remaining <= offer[o].remaining
                          /\ ~Holds(a, o) => offer'[o] = offer[o]
    <2>1. \A o \in Offers :
            /\ Taken[a][o] \in Nat /\ (Taken[a][o] > 0 <=> Holds(a, o))
            /\ offer[o].remaining \in Nat
      BY HoldsWhatItTakes DEF TypeOK, OfferStates
    <2>2. \A o \in Offers : offer'[o] = IF Taken[a][o] > 0 THEN Reserved(a, o) ELSE offer[o]
      BY DEF Accept
    <2>3. \A o \in Offers : /\ Reserved(a, o).status = "Processing"
                            /\ Reserved(a, o).remaining <= offer[o].remaining
      <3>1. ASSUME NEW o \in Offers
            PROVE  /\ Reserved(a, o).status = "Processing"
                   /\ Reserved(a, o).remaining =
                        IF offer[o].remaining < Taken[a][o] THEN 0
                        ELSE offer[o].remaining - Taken[a][o]
        BY DEF Reserved
      <3>2. QED
        BY <2>1, <3>1
    <2>4. QED
      BY <2>1, <2>2, <2>3
  <1>7. ProcessingHeld'
    <2>1. \A o \in Offers :
            offer'[o].status = "Processing" <=> \E b \in Pending \cup {a} : Holds(b, o)
      BY <1>6 DEF OffersInv, ProcessingHeld
    <2>2. QED
      BY <1>1, <2>1 DEF ProcessingHeld, Holds, Indices, OfferOf
  <1>8. OffersFit'
    <2>1. \A o \in Offers : offer[o].remaining \in Nat /\ offer[o].remaining <= Total[o]
                            /\ Total[o] \in Nat /\ offer'[o].remaining <= offer[o].remaining
      <3>1. \A o \in Offers : offer[o].remaining \in Nat
        BY DEF TypeOK, OfferStates
      <3>2. \A o \in Offers : offer[o].remaining <= Total[o]
        BY DEF OffersInv, OffersFit
      <3>3. \A o \in Offers : Total[o] \in Nat
        BY AcceptanceAssumption
      <3>4. QED
        BY <1>6, <3>1, <3>2, <3>3
    <2>2. \A o \in Offers : offer'[o].remaining \in Nat
      BY AcceptTypes DEF TypeOK, OfferStates
    <2>3. \A o \in Offers : offer'[o].remaining <= Total[o]
      BY <2>1, <2>2
    <2>4. /\ DOMAIN accept'[a].was = Indices(a)
          /\ \A i \in Indices(a) : /\ accept'[a].was[i].status \in Acceptable
                                   /\ accept'[a].was[i].remaining <= Total[OfferOf(a, i)]
      <3>1. accept'[a].was = [i \in Indices(a) |-> offer[OfferOf(a, i)]]
        BY <1>1
      <3>2. \A i \in Indices(a) : OfferOf(a, i) \in Offers
        BY ItemTypes
      <3>3. QED
        BY <1>2, <2>1, <3>1, <3>2
    <2>5. \A b \in Pending : accept'[b] = accept[b]
      BY <1>1 DEF Pending
    <2> HIDE DEF e
    <2>6. QED
      BY <1>1, <2>3, <2>4, <2>5
         DEF OffersInv, OffersFit, Indices, OfferOf, Acceptable
  <1>9. QED
    BY <1>5, <1>7, <1>8 DEF OffersInv

(* An accept lets go of its offers.                                        *)
LEMMA LetGo ==
  ASSUME TypeOK, TypeOK', OffersInv, NEW a \in Pending,
         NEW e, accept' = [accept EXCEPT ![a] = e], e.phase # "BuyerDebited",
         \A o \in Offers :
           /\ Holds(a, o) => /\ offer'[o].status # "Processing"
                             /\ offer'[o].remaining <= Total[o]
           /\ ~Holds(a, o) => offer'[o] = offer[o]
  PROVE  OffersInv'
  <1>1. a \in Accepts
    BY DEF Pending
  <1>2. /\ \A b \in Accepts \ {a} : accept'[b] = accept[b]
        /\ Pending' = Pending \ {a}
    BY <1>1, PendingAfter
  <1>3. HeldOnce'
    BY <1>2 DEF OffersInv, HeldOnce, Holds, Indices, OfferOf
  <1>4. ProcessingHeld'
    <2>1. \A o \in Offers :
            offer'[o].status = "Processing" <=> \E b \in Pending \ {a} : Holds(b, o)
      BY DEF OffersInv, ProcessingHeld, HeldOnce
    <2>2. QED
      BY <1>2, <2>1 DEF ProcessingHeld, Holds, Indices, OfferOf
  <1>5. OffersFit'
    <2>1. \A o \in Offers : offer'[o].remaining <= Total[o]
      BY DEF OffersInv, OffersFit
    <2>2. \A b \in Pending \ {a} : accept'[b] = accept[b]
      BY <1>2 DEF Pending
    <2>3. QED
      BY <1>2, <2>1, <2>2 DEF OffersInv, OffersFit, Indices, OfferOf, Acceptable
  <1>6. QED
    BY <1>3, <1>4, <1>5 DEF OffersInv

(* The offers of a completed accept are filled, or open for the rest.      *)
LEMMA SellsOffers ==
  ASSUME TypeOK, OffersInv, NEW a \in Accepts, NEW c \in BOOLEAN, Sells(a, c)
  PROVE  OffersInv'
  <1>1. a \in Pending /\ a \notin Sold /\ Finalize(a, c)
    BY DEF Sells, Pending, Sold
  <1>2. TypeOK'
    BY <1>1, FinalizeTypes
  <1> DEFINE e == [NoAccept EXCEPT !.phase = "Completed"]
  <1>3. accept' = [accept EXCEPT ![a] = e] /\ e.phase # "BuyerDebited"
    BY <1>1 DEF Finalize, NoAccept
  <1>4. \A o \in Offers :
          /\ Holds(a, o) => /\ offer'[o].status # "Processing"
                            /\ offer'[o].remaining <= Total[o]
          /\ ~Holds(a, o) => offer'[o] = offer[o]
    <2>1. \A o \in Offers :
            /\ Taken[a][o] \in Nat /\ (Taken[a][o] > 0 <=> Holds(a, o))
            /\ offer[o] \in OfferStates /\ offer[o].remaining <= Total[o]
      BY HoldsWhatItTakes DEF TypeOK, OffersInv, OffersFit
    <2>2. \A o \in Offers : offer'[o] =
            IF Taken[a][o] = 0 THEN offer[o]
            ELSE [offer[o] EXCEPT !.status =
                    IF offer[o].remaining = 0 THEN "Filled" ELSE "PartiallyFilled"]
      BY <1>1 DEF Finalize
    <2>3. \A o \in Offers : \A s \in {"Filled", "PartiallyFilled"} :
            /\ [offer[o] EXCEPT !.status = s].status = s
            /\ [offer[o] EXCEPT !.status = s].remaining = offer[o].remaining
      BY <2>1 DEF OfferStates
    <2>4. ASSUME NEW o \in Offers, ~Holds(a, o)
          PROVE  offer'[o] = offer[o]
      <3>1. Taken[a][o] = 0
        BY <2>1, <2>4
      <3>2. QED
        BY <2>2, <3>1
    <2>5. ASSUME NEW o \in Offers, Holds(a, o)
          PROVE  /\ offer'[o].status # "Processing"
                 /\ offer'[o].remaining <= Total[o]
      <3>1. Taken[a][o] # 0
        BY <2>1, <2>5
      <3>2. \E s \in {"Filled", "PartiallyFilled"} :
              offer'[o] = [offer[o] EXCEPT !.status = s]
        <4>1. CASE offer[o].remaining = 0
          BY <2>2, <3>1, <4>1
        <4>2. CASE offer[o].remaining # 0
          BY <2>2, <3>1, <4>2
        <4>3. QED
          BY <4>1, <4>2
      <3>3. PICK s \in {"Filled", "PartiallyFilled"} :
              offer'[o] = [offer[o] EXCEPT !.status = s]
        BY <3>2
      <3>4. offer'[o].status = s /\ offer'[o].remaining = offer[o].remaining
        <4>1. /\ [offer[o] EXCEPT !.status = s].status = s
              /\ [offer[o] EXCEPT !.status = s].remaining = offer[o].remaining
          BY <2>3
        <4>2. QED
          BY <3>3, <4>1
      <3>5. QED
        BY <2>1, <3>4
    <2>6. QED
      BY <2>4, <2>5
  <1> HIDE DEF e
  <1>5. QED
    BY <1>1, <1>2, <1>3, <1>4, LetGo

(* The offers of a failed accept are as they were.                         *)
LEMMA FailsOffers ==
  ASSUME TypeOK, OffersInv, NEW a \in Accepts, Fails(a)
  PROVE  OffersInv'
  <1>1. a \in Pending /\ FailForGood(a)
    BY DEF Fails
  <1>2. TypeOK'
    BY <1>1, FailTypes DEF OffersInv
  <1> DEFINE e == [accept[a] EXCEPT !.phase = "Failed"]
  <1>3. accept' = [accept EXCEPT ![a] = e] /\ e.phase # "BuyerDebited"
    BY <1>1 DEF FailForGood, TypeOK, AcceptStates
  <1>4. \A o \in Offers :
          /\ Holds(a, o) => /\ offer'[o].status # "Processing"
                            /\ offer'[o].remaining <= Total[o]
          /\ ~Holds(a, o) => offer'[o] = offer[o]
    <2>1. \A o \in Offers : Taken[a][o] > 0 <=> Holds(a, o)
      BY HoldsWhatItTakes
    <2>2. \A o \in Offers : Taken[a][o] > 0 =>
            Restored(a, o).status \in Acceptable /\ Restored(a, o).remaining <= Total[o]
      BY <1>1, RestoredFacts DEF OffersInv
    <2>3. \A o \in Offers : offer'[o] =
            IF Taken[a][o] > 0 THEN Restored(a, o) ELSE offer[o]
      BY <1>1 DEF FailForGood
    <2>4. QED
      BY <2>1, <2>2, <2>3 DEF Acceptable
  <1> HIDE DEF e
  <1>5. QED
    BY <1>1, <1>2, <1>3, <1>4, LetGo

(* An offer that nobody holds is marked, or a request refused.             *)
LEMMA MarksOffers ==
  ASSUME OffersInv, NEW o \in Offers, Marks(o)
  PROVE  OffersInv'
  <1>1. \A p \in Offers : /\ offer'[p].remaining = offer[p].remaining
                          /\ offer'[p].status = "Processing"
                               <=> offer[p].status = "Processing"
    BY DEF Marks
  <1>2. accept' = accept
    BY DEF Marks
  <1>3. QED
    BY <1>1, <1>2 DEF OffersInv, ProcessingHeld, HeldOnce, OffersFit, Pending, Holds,
                      Indices, OfferOf

(* A refused request holds nothing.                                       *)
LEMMA RefusesOffers ==
  ASSUME TypeOK, OffersInv, NEW a \in Accepts, Refuses(a)
  PROVE  OffersInv'
  <1> DEFINE e == [accept[a] EXCEPT !.phase = "Refused"]
  <1>1. accept' = [accept EXCEPT ![a] = e] /\ e.phase # "BuyerDebited" /\ offer' = offer
    BY DEF Refuses, TypeOK, AcceptStates
  <1>2. a \notin Pending
    BY DEF Refuses, Pending
  <1> HIDE DEF e
  <1>3. /\ \A b \in Accepts \ {a} : accept'[b] = accept[b]
        /\ Pending' = Pending
    <2>1. /\ \A b \in Accepts \ {a} : accept'[b] = accept[b]
          /\ Pending' = Pending \ {a}
      BY <1>1, PendingAfter
    <2>2. QED
      BY <1>2, <2>1
  <1>4. \A b \in Pending : accept'[b] = accept[b]
    BY <1>2, <1>3 DEF Pending
  <1>5. QED
    BY <1>1, <1>3, <1>4 DEF OffersInv, ProcessingHeld, HeldOnce, OffersFit, Holds,
                            Indices, OfferOf

(* What a step of the system comes to.                                     *)
KindOf(a) ==
  \/ \E fee \in Fees : Accept(a, fee)
  \/ Refuses(a)
  \/ \E k \in DOMAIN Payees[a] : Goes(a, k) \/ LedgerExecutes(a, k)
  \/ \E c \in BOOLEAN : Sells(a, c)
  \/ Fails(a) \/ Rests(a) \/ SettleWorthless(a)

Kind ==
  \/ UNCHANGED vars \/ FeeChange
  \/ \E u \in Users : Withdraw(u)
  \/ \E o \in Offers : Marks(o)
  \/ \E a \in Accepts : KindOf(a)

(* There are no other steps.                                               *)
LEMMA StepKinds ==
  ASSUME TypeOK, RecordsAgree, CallsFit, [Next]_vars
  PROVE  Kind
  <1>1. ASSUME NEW a \in Accepts, SaleStep(a)
        PROVE  Kind
    BY <1>1, SaleKinds DEF Kind, KindOf
  <1>2. ASSUME NEW o \in Offers, OfferStep(o)
        PROVE  Kind
    BY <1>2, OfferStepMarks DEF Kind
  <1>3. QED
    BY <1>1, <1>2 DEF Next, Kind

(* Offers are held by one accept at a time, whatever happens.              *)
LEMMA OffersStep ==
  ASSUME TypeOK, OffersInv, Kind
  PROVE  OffersInv'
  <1>1. ASSUME NEW a \in Accepts, KindOf(a)
        PROVE  OffersInv'
    <2>1. ASSUME NEW fee \in Fees, Accept(a, fee)
          PROVE  OffersInv'
      BY <2>1, AcceptOffers
    <2>2. CASE Refuses(a)
      BY <2>2, RefusesOffers
    <2>3. ASSUME NEW k \in DOMAIN Payees[a], Goes(a, k) \/ LedgerExecutes(a, k)
          PROVE  OffersInv'
      BY <2>3, OffersSame DEF Goes, Send, LedgerExecutes, records
    <2>4. ASSUME NEW c \in BOOLEAN, Sells(a, c)
          PROVE  OffersInv'
      BY <2>4, SellsOffers
    <2>5. CASE Fails(a)
      BY <2>5, FailsOffers
    <2>6. CASE Rests(a) \/ SettleWorthless(a)
      BY <2>6, OffersSame DEF Rests, SettleWorthless
    <2>7. QED
      BY <1>1, <2>1, <2>2, <2>3, <2>4, <2>5, <2>6 DEF KindOf
  <1>2. CASE UNCHANGED vars \/ FeeChange \/ \E u \in Users : Withdraw(u)
    BY <1>2, OffersSame DEF vars, FeeChange, Withdraw, records
  <1>3. CASE \E o \in Offers : Marks(o)
    BY <1>3, MarksOffers
  <1>4. QED
    BY <1>1, <1>2, <1>3 DEF Kind

(* A request is refused: types.                                           *)
LEMMA RefusesTypes ==
  ASSUME TypeOK, NEW a \in Accepts, Refuses(a)
  PROVE  TypeOK'
  <1> DEFINE e == [accept[a] EXCEPT !.phase = "Refused"]
  <1>1. e \in AcceptStates /\ accept' = [accept EXCEPT ![a] = e] /\ a \notin Sold
    BY DEF Refuses, TypeOK, AcceptStates, Sold
  <1> HIDE DEF e
  <1>2. accept' \in [Accepts -> AcceptStates] /\ Sold \subseteq Sold'
    BY <1>1, SoldGrows DEF TypeOK
  <1>3. QED
    BY <1>2 DEF Refuses, TypeOK, ledger, books

(* An attempt awaits an answer.                                            *)
LEMMA GoesTypes ==
  ASSUME TypeOK, NEW a \in Accepts, NEW k \in DOMAIN Payees[a], Goes(a, k)
  PROVE  TypeOK'
  <1>1. k \in Nat /\ Payees[a][k] \in Callees
    <2> DEFINE n == Len(Payees[a])
    <2>1. /\ n \in Nat /\ DOMAIN Payees[a] = 1 .. n
          /\ \A l \in 1 .. n :
               \/ Payees[a][l] \in Writers(a) /\ Payees[a][l] # Platform
               \/ Payees[a][l] = Platform /\ l = n /\ Fee[a] > 0
      BY PayeeFacts
    <2>2. Writers(a) \subseteq Users
      BY Names
    <2> HIDE DEF n
    <2>3. QED
      BY <2>1, <2>2 DEF Callees
  <1>2. /\ at' = [at EXCEPT ![a] = Payees[a][k]]
        /\ reply' = [reply EXCEPT ![a] = "none"]
        /\ net' = net \cup {<<a, k>>}
        /\ UNCHANGED <<records, age, executed, ledgerFee, funds, books>>
    BY DEF Goes, Send
  <1>3. at' \in [Accepts -> Callees] /\ reply' \in [Accepts -> {"none", "ok", "rejected"}]
    BY <1>1, <1>2 DEF TypeOK, Callees
  <1>4. net' \subseteq Accepts \X Nat
    BY <1>1, <1>2 DEF TypeOK
  <1>5. QED
    BY <1>2, <1>3, <1>4 DEF TypeOK, Callees, records, books, Sold

(* A row changes: types.                                                   *)
LEMMA RestsTypes ==
  ASSUME TypeOK, NEW a \in Accepts, Rests(a)
  PROVE  TypeOK'
  <1>1. wal' \in [Accepts -> WalStates] /\ age' \in [Accepts -> Ages]
    BY DEF Rests, TypeOK, WalStates
  <1>2. at'[a] \in Callees /\ reply'[a] \in {"none", "ok", "rejected"}
    BY DEF Rests, TypeOK, Callees
  <1>3. /\ at' \in [Accepts -> Callees]
        /\ reply' \in [Accepts -> {"none", "ok", "rejected"}]
    <2>1. at' = [at EXCEPT ![a] = at'[a]] /\ reply' = [reply EXCEPT ![a] = reply'[a]]
      BY DEF Rests
    <2>2. at \in [Accepts -> Callees] /\ reply \in [Accepts -> {"none", "ok", "rejected"}]
      BY DEF TypeOK, Callees
    <2>3. QED
      BY <1>2, <2>1, <2>2
  <1>4. UNCHANGED <<offer, lapsed, accept, waived, closed, ledger, books>>
    BY DEF Rests
  <1>5. QED
    BY <1>1, <1>3, <1>4 DEF TypeOK, WalStates, Callees, ledger, books, Sold

(* What an accept needs is part of what is locked.                         *)
LEMMA NeedFacts ==
  ASSUME TypeOK, Covers, NEW u \in Users
  PROVE  /\ \A a \in Accepts :
              /\ Pledges[a][u] \in Nat /\ Need(u)[a] \in Nat
              /\ Need(u)[a] = IF a \in Pending \cup (Sold \ closed)
                              THEN Pledges[a][u] ELSE 0
              /\ Need(u)[a] <= locked[u]
         /\ locked[u] = SumFunctionOnSet(Need(u), Accepts)
         /\ locked[u] \in Nat
  <1>1. IsFiniteSet(Accepts)
    BY AcceptanceAssumption
  <1>2. \A a \in Accepts : Pledges[a][u] \in Nat
    BY WriterTotals
  <1>3. \A a \in Accepts :
          Need(u)[a] = IF a \in Pending \cup (Sold \ closed) THEN Pledges[a][u] ELSE 0
    BY DEF Need
  <1>4. locked[u] = SumFunctionOnSet(Need(u), Accepts) /\ locked[u] \in Nat
    BY DEF Covers, TypeOK
  <1> DEFINE f == Need(u)
  <1>5. \A a \in Accepts : f[a] \in Nat
    BY <1>2, <1>3
  <1> HIDE DEF f
  <1>6. \A a \in Accepts : f[a] <= SumFunctionOnSet(f, Accepts)
    BY <1>1, <1>5, SumOfAmounts
  <1>7. QED
    BY <1>2, <1>3, <1>4, <1>5, <1>6 DEF f

(* The options of a sale are settled: types.                               *)
LEMMA SettlesTypes ==
  ASSUME TypeOK, Covers, NEW a \in Accepts, SettleWorthless(a)
  PROVE  TypeOK'
  <1>1. /\ a \in Sold /\ a \notin closed
        /\ closed' = closed \cup {a}
        /\ locked' = [u \in Users |-> locked[u] - Pledges[a][u]]
        /\ available' = [u \in Users |-> available[u] + Pledges[a][u]]
        /\ UNCHANGED <<offer, lapsed, accept, waived, wal, age, at, reply, ledger, earned>>
    BY DEF SettleWorthless
  <1>2. \A u \in Users : /\ Pledges[a][u] \in Nat /\ Pledges[a][u] <= locked[u]
                         /\ locked[u] \in Nat /\ available[u] \in Nat
    <2>1. \A u \in Users : available[u] \in Nat
      BY DEF TypeOK
    <2>2. \A u \in Users : /\ Pledges[a][u] \in Nat /\ Pledges[a][u] <= locked[u]
                           /\ locked[u] \in Nat
      BY <1>1, NeedFacts
    <2>3. QED
      BY <2>1, <2>2
  <1>3. locked' \in [Users -> Nat] /\ available' \in [Users -> Nat]
    BY <1>1, <1>2
  <1>4. QED
    BY <1>1, <1>3 DEF TypeOK, ledger, Sold

(* A user withdraws what he has available: types.                          *)
LEMMA WithdrawTypes ==
  ASSUME TypeOK, NEW u \in Users, Withdraw(u)
  PROVE  TypeOK'
  <1>1. available' \in [Users -> Nat] /\ funds' \in [Users -> Nat]
    BY DEF Withdraw, TypeOK
  <1>2. QED
    BY <1>1 DEF Withdraw, TypeOK, records, Sold

(* Every step keeps the types.                                             *)
LEMMA TypeStep ==
  ASSUME TypeOK, OffersInv, CallsFit, Covers, Kind
  PROVE  TypeOK'
  <1>1. ASSUME NEW a \in Accepts, KindOf(a)
        PROVE  TypeOK'
    <2>1. ASSUME NEW fee \in Fees, Accept(a, fee)
          PROVE  TypeOK'
      BY <2>1, AcceptTypes
    <2>2. CASE Refuses(a)
      BY <2>2, RefusesTypes
    <2>3. ASSUME NEW k \in DOMAIN Payees[a], Goes(a, k) \/ LedgerExecutes(a, k)
          PROVE  TypeOK'
      BY <2>3, GoesTypes, LedgerTypes
    <2>4. ASSUME NEW c \in BOOLEAN, Sells(a, c)
          PROVE  TypeOK'
      <3>1. a \notin Sold /\ Finalize(a, c)
        BY <2>4 DEF Sells, Pending, Sold
      <3>2. QED
        BY <3>1, FinalizeTypes
    <2>5. CASE Fails(a)
      BY <2>5, FailTypes DEF Fails, OffersInv
    <2>6. CASE Rests(a)
      BY <2>6, RestsTypes
    <2>7. CASE SettleWorthless(a)
      BY <2>7, SettlesTypes
    <2>8. QED
      BY <1>1, <2>1, <2>2, <2>3, <2>4, <2>5, <2>6, <2>7 DEF KindOf
  <1>2. CASE UNCHANGED vars
    BY <1>2 DEF vars, records, ledger, books, TypeOK, Sold
  <1>3. CASE FeeChange
    BY <1>3 DEF FeeChange, records, books, TypeOK, Sold
  <1>4. ASSUME NEW u \in Users, Withdraw(u)
        PROVE  TypeOK'
    BY <1>4, WithdrawTypes
  <1>5. ASSUME NEW o \in Offers, Marks(o)
        PROVE  TypeOK'
    BY <1>5 DEF Marks, TypeOK, ledger, books, Sold
  <1>6. QED
    BY <1>1, <1>2, <1>3, <1>4, <1>5 DEF Kind

(* A row is resumable exactly while its accept is unfinished.              *)
LEMMA RowsStep ==
  ASSUME TypeOK, RowsFit, Kind
  PROVE  RowsFit'
  <1>1. ASSUME NEW a \in Accepts, KindOf(a)
        PROVE  RowsFit'
    <2>0. /\ wal \in [Accepts -> WalStates] /\ at \in [Accepts -> Callees]
          /\ accept \in [Accepts -> AcceptStates]
      BY DEF TypeOK, WalStates, Callees
    <2>1. ASSUME NEW fee \in Fees, Accept(a, fee)
          PROVE  RowsFit'
      <3> DEFINE e == [phase |-> "BuyerDebited", quoted |-> fee,
                       was |-> [i \in Indices(a) |-> offer[OfferOf(a, i)]]]
      <3>1. accept' = [accept EXCEPT ![a] = e] /\ e.phase = "BuyerDebited"
        BY <2>1 DEF Accept
      <3> HIDE DEF e
      <3>2. Pending' = Pending \cup {a}
        BY <3>1, PendingAfter
      <3>3. wal' = [wal EXCEPT ![a] = "InFlight"] /\ at' = [at EXCEPT ![a] = "price"]
        BY <2>1 DEF Accept
      <3>4. QED
        BY <2>0, <3>2, <3>3 DEF RowsFit, Resumable
    <2>2. CASE Refuses(a)
      <3> DEFINE e == [accept[a] EXCEPT !.phase = "Refused"]
      <3>1. /\ accept' = [accept EXCEPT ![a] = e] /\ e.phase = "Refused"
            /\ a \notin Pending
        BY <2>0, <2>2 DEF Refuses, AcceptStates, Pending
      <3> HIDE DEF e
      <3>2. Pending' = Pending \ {a}
        BY <3>1, PendingAfter
      <3>3. wal' = wal /\ at' = at
        BY <2>2 DEF Refuses
      <3>4. QED
        BY <3>1, <3>2, <3>3 DEF RowsFit
    <2>3. ASSUME NEW k \in DOMAIN Payees[a], Goes(a, k)
          PROVE  RowsFit'
      <3>1. /\ a \in Pending /\ at' = [at EXCEPT ![a] = Payees[a][k]]
            /\ wal' = wal /\ accept' = accept
        BY <2>3 DEF Goes, Send, records
      <3>2. QED
        BY <2>0, <3>1 DEF RowsFit, Pending
    <2>4. ASSUME NEW c \in BOOLEAN, Sells(a, c)
          PROVE  RowsFit'
      <3> DEFINE e == [NoAccept EXCEPT !.phase = "Completed"]
      <3>1. accept' = [accept EXCEPT ![a] = e] /\ e.phase # "BuyerDebited"
        BY <2>4 DEF Sells, Finalize, NoAccept
      <3> HIDE DEF e
      <3>2. Pending' = Pending \ {a}
        BY <3>1, PendingAfter
      <3>3. wal' = [wal EXCEPT ![a] = "Succeeded"] /\ at' = [at EXCEPT ![a] = "idle"]
        BY <2>4 DEF Sells, Finalize
      <3>4. QED
        BY <2>0, <3>2, <3>3 DEF RowsFit, Resumable
    <2>5. CASE Fails(a)
      <3> DEFINE e == [accept[a] EXCEPT !.phase = "Failed"]
      <3>1. accept' = [accept EXCEPT ![a] = e] /\ e.phase = "Failed"
        BY <2>0, <2>5 DEF Fails, FailForGood, AcceptStates
      <3> HIDE DEF e
      <3>2. Pending' = Pending \ {a}
        BY <3>1, PendingAfter
      <3>3. wal' = [wal EXCEPT ![a] = "FailedPermanent"] /\ at' = [at EXCEPT ![a] = "idle"]
        BY <2>5 DEF Fails, FailForGood
      <3>4. QED
        BY <2>0, <3>2, <3>3 DEF RowsFit, Resumable
    <2>6. CASE Rests(a)
      <3>1. /\ wal' = [wal EXCEPT ![a] = wal'[a]] /\ at' = [at EXCEPT ![a] = at'[a]]
            /\ a \in Pending <=> wal'[a] \in Resumable
            /\ \/ at'[a] = "idle"
               \/ at'[a] = "price" /\ a \in Pending
               \/ at'[a] = at[a]
            /\ accept' = accept
        BY <2>6 DEF Rests
      <3>2. \A b \in Accepts \ {a} : wal'[b] = wal[b] /\ at'[b] = at[b]
        BY <2>0, <3>1
      <3>3. Pending' = Pending
        BY <3>1 DEF Pending
      <3>4. \A b \in Accepts : /\ b \in Pending <=> wal'[b] \in Resumable
                               /\ at'[b] # "idle" => b \in Pending
        BY <3>1, <3>2 DEF RowsFit
      <3>5. QED
        BY <3>3, <3>4 DEF RowsFit, Resumable
    <2>7. CASE SettleWorthless(a) \/ \E k \in DOMAIN Payees[a] : LedgerExecutes(a, k)
      BY <2>7 DEF SettleWorthless, LedgerExecutes, records, RowsFit, Pending
    <2>8. QED
      BY <1>1, <2>1, <2>2, <2>3, <2>4, <2>5, <2>6, <2>7 DEF KindOf
  <1>2. CASE UNCHANGED <<accept, wal, at>>
    BY <1>2 DEF RowsFit, Pending
  <1>3. QED
    BY <1>1, <1>2 DEF Kind, vars, records, FeeChange, Withdraw, Marks

-----------------------------------------------------------------------------
(* Transfers are made in their order, and all of them before a sale.       *)
LEMMA CallsKept ==
  ASSUME NEW b \in Accepts, CallsOf(b), accept'[b].phase = accept[b].phase,
         b \in waived => b \in waived', executed \subseteq executed',
         \A k \in Nat : <<b, k>> \in net' \cup executed' => <<b, k>> \in net \cup executed,
         at'[b] \in {at[b], "idle", "price"}, reply'[b] \in {reply[b], "none"}
  PROVE  CallsOf(b)'
  <1>1. \A k \in Nat : <<b, k>> \in net' \cup executed' =>
          k \in DOMAIN Payees[b] /\ accept'[b].phase \notin {"None", "Refused"}
    BY DEF CallsOf
  <1>2. ASSUME at'[b] \notin {"idle", "price"}
        PROVE  \E k \in DOMAIN Payees[b] :
                 /\ at'[b] = Payees[b][k]
                 /\ \A j \in 1 .. k - 1 : <<b, j>> \in executed'
                 /\ reply'[b] = "ok" => <<b, k>> \in executed'
    <2>1. at'[b] = at[b]
      BY <1>2
    <2>2. PICK k \in DOMAIN Payees[b] :
            /\ at[b] = Payees[b][k]
            /\ \A j \in 1 .. k - 1 : <<b, j>> \in executed
            /\ reply[b] = "ok" => <<b, k>> \in executed
      BY <1>2, <2>1 DEF CallsOf
    <2>3. QED
      BY <2>1, <2>2
  <1>3. (b \in Sold)' <=> b \in Sold
    BY PhaseSets
  <1>4. (b \in Sold)' => \A k \in DOMAIN Payees[b] :
          <<b, k>> \in executed' \/ (b \in waived' /\ Payees[b][k] = Platform)
    BY <1>3 DEF CallsOf
  <1>5. QED
    BY <1>1, <1>2, <1>4 DEF CallsOf

(* What concerns one accept leaves the transfers of the others alone.      *)
LEMMA CallsOfOthers ==
  ASSUME TypeOK, CallsFit, NEW a \in Accepts, CallsOf(a)',
         \A b \in Accepts \ {a} : /\ accept'[b] = accept[b]
                                  /\ at'[b] = at[b] /\ reply'[b] = reply[b],
         waived \subseteq waived', executed \subseteq executed',
         net' \cup executed' \subseteq net \cup executed \cup {<<a, k>> : k \in Nat}
  PROVE  CallsFit'
  <1>1. ASSUME NEW b \in Accepts, b # a
        PROVE  CallsOf(b)'
    <2>1. CallsOf(b)
      BY DEF CallsFit
    <2>2. \A k \in Nat : <<b, k>> \in net' \cup executed' => <<b, k>> \in net \cup executed
      BY <1>1
    <2>3. QED
      BY <1>1, <2>1, <2>2, CallsKept
  <1>2. QED
    BY <1>1 DEF CallsFit

(* A request is accepted, or refused: none of its transfers has been sent. *)
LEMMA FirstCalls ==
  ASSUME TypeOK, RowsFit, CallsFit, NEW a \in Accepts, accept[a].phase = "None",
         Refuses(a) \/ \E fee \in Fees : Accept(a, fee)
  PROVE  CallsFit'
  <1>0. /\ at \in [Accepts -> Callees] /\ accept \in [Accepts -> AcceptStates]
    BY DEF TypeOK, Callees
  <1>1. UNCHANGED <<net, executed, reply, waived>>
    BY DEF Refuses, Accept, ledger
  <1>2. PICK e : accept' = [accept EXCEPT ![a] = e] /\ e.phase # "Completed"
    <2>1. ASSUME NEW fee \in Fees, Accept(a, fee)
          PROVE  \E e : accept' = [accept EXCEPT ![a] = e] /\ e.phase # "Completed"
      <3> DEFINE e == [phase |-> "BuyerDebited", quoted |-> fee,
                       was |-> [i \in Indices(a) |-> offer[OfferOf(a, i)]]]
      <3>1. accept' = [accept EXCEPT ![a] = e] /\ e.phase # "Completed"
        BY <2>1 DEF Accept
      <3> HIDE DEF e
      <3>2. QED
        BY <3>1
    <2>2. CASE Refuses(a)
      <3> DEFINE e == [accept[a] EXCEPT !.phase = "Refused"]
      <3>1. accept' = [accept EXCEPT ![a] = e] /\ e.phase # "Completed"
        BY <1>0, <2>2 DEF Refuses, AcceptStates
      <3> HIDE DEF e
      <3>2. QED
        BY <3>1
    <2>3. QED
      BY <2>1, <2>2
  <1>3. /\ accept'[a] = e /\ \A b \in Accepts \ {a} : accept'[b] = accept[b]
    BY <1>2, PendingAfter
  <1>4. at[a] = "idle"
    BY DEF RowsFit, Pending
  <1>5. at'[a] \in {"idle", "price"} /\ \A b \in Accepts \ {a} : at'[b] = at[b]
    BY <1>0, <1>4 DEF Refuses, Accept
  <1>6. \A k \in Nat : <<a, k>> \notin net \cup executed
    BY DEF CallsFit, CallsOf
  <1>7. ~(a \in Sold)'
    BY <1>2, <1>3, PhaseSets
  <1>8. CallsOf(a)'
    BY <1>1, <1>5, <1>6, <1>7 DEF CallsOf
  <1>9. QED
    BY <1>1, <1>3, <1>5, <1>8, CallsOfOthers

(* A transfer is sent.                                                     *)
LEMMA GoesCalls ==
  ASSUME TypeOK, CallsFit, NEW a \in Accepts, NEW k \in DOMAIN Payees[a], Goes(a, k)
  PROVE  CallsFit'
  <1>0. at \in [Accepts -> Callees] /\ reply \in [Accepts -> {"none", "ok", "rejected"}]
    BY DEF TypeOK, Callees
  <1>1. /\ a \in Pending /\ \A j \in 1 .. k - 1 : <<a, j>> \in executed
        /\ at' = [at EXCEPT ![a] = Payees[a][k]]
        /\ reply' = [reply EXCEPT ![a] = "none"]
        /\ net' = net \cup {<<a, k>>}
        /\ UNCHANGED <<accept, waived, executed>>
    BY DEF Goes, Send, records
  <1>2. accept[a].phase = "BuyerDebited" /\ a \notin Sold
    BY <1>1 DEF Pending, Sold
  <1>3. k \in Nat
    BY PayeeNumbers
  <1>4. at'[a] = Payees[a][k] /\ reply'[a] = "none"
    BY <1>0, <1>1
  <1>5. /\ \A b \in Accepts \ {a} : at'[b] = at[b] /\ reply'[b] = reply[b]
        /\ net' \cup executed' \subseteq net \cup executed \cup {<<a, l>> : l \in Nat}
    BY <1>0, <1>1, <1>3
  <1>6. \A l \in Nat : <<a, l>> \in net' \cup executed' => l \in DOMAIN Payees[a]
    <2>1. \A l \in Nat : <<a, l>> \in net \cup executed => l \in DOMAIN Payees[a]
      BY DEF CallsFit, CallsOf
    <2>2. QED
      BY <1>1, <2>1
  <1>7. CallsOf(a)'
    <2>1. ~(a \in Sold)'
      BY <1>1, <1>2, PhaseSets
    <2>2. QED
      BY <1>1, <1>2, <1>4, <1>6, <2>1 DEF CallsOf
  <1>8. QED
    BY <1>1, <1>5, <1>7, CallsOfOthers

(* An accept ends: sold, its transfers have been made; failed, it stays.   *)
LEMMA EndCalls ==
  ASSUME TypeOK, CallsFit, NEW a \in Accepts, Fails(a) \/ \E c \in BOOLEAN : Sells(a, c)
  PROVE  CallsFit'
  <1>0. /\ at \in [Accepts -> Callees] /\ reply \in [Accepts -> {"none", "ok", "rejected"}]
        /\ accept \in [Accepts -> AcceptStates]
    BY DEF TypeOK, Callees
  <1>1. a \in Pending /\ accept[a].phase = "BuyerDebited"
    BY DEF Fails, Sells, Pending
  <1>2. /\ at' = [at EXCEPT ![a] = "idle"] /\ reply' = [reply EXCEPT ![a] = "none"]
        /\ UNCHANGED <<net, executed>> /\ waived \subseteq waived'
    BY DEF Fails, Sells, FailForGood, Finalize, ledger
  <1>3. PICK e : /\ accept' = [accept EXCEPT ![a] = e]
                 /\ e.phase \notin {"None", "Refused"}
                 /\ e.phase = "Completed" => \E c \in BOOLEAN : Sells(a, c)
    <2>1. CASE Fails(a)
      <3> DEFINE e == [accept[a] EXCEPT !.phase = "Failed"]
      <3>1. accept' = [accept EXCEPT ![a] = e] /\ e.phase = "Failed"
        BY <1>0, <2>1 DEF Fails, FailForGood, AcceptStates
      <3> HIDE DEF e
      <3>2. QED
        BY <3>1
    <2>2. ASSUME NEW c \in BOOLEAN, Sells(a, c)
          PROVE  \E e : /\ accept' = [accept EXCEPT ![a] = e] /\ e.phase = "Completed"
      <3> DEFINE e == [NoAccept EXCEPT !.phase = "Completed"]
      <3>1. accept' = [accept EXCEPT ![a] = e] /\ e.phase = "Completed"
        BY <2>2 DEF Sells, Finalize, NoAccept
      <3> HIDE DEF e
      <3>2. QED
        BY <3>1
    <2>3. QED
      BY <2>1, <2>2
  <1>4. accept'[a] = e /\ \A b \in Accepts \ {a} : accept'[b] = accept[b]
    BY <1>3, PendingAfter
  <1>5. /\ at'[a] = "idle"
        /\ \A b \in Accepts \ {a} : at'[b] = at[b] /\ reply'[b] = reply[b]
    BY <1>0, <1>2
  <1>6. ASSUME (a \in Sold)', NEW k \in DOMAIN Payees[a]
        PROVE  <<a, k>> \in executed' \/ (a \in waived' /\ Payees[a][k] = Platform)
    <2> DEFINE n == Len(Payees[a])
    <2>1. PICK c \in BOOLEAN : Sells(a, c)
      BY <1>3, <1>4, <1>6, PhaseSets
    <2>2. n \in Nat /\ n >= 1 /\ DOMAIN Payees[a] = 1 .. n
      BY PayeeFacts
    <2>3. /\ \A j \in 1 .. n - 1 : <<a, j>> \in executed
          /\ c => <<a, n>> \in executed
          /\ ~c => Payees[a][n] = Platform /\ a \in waived'
      BY <2>1 DEF Sells, Finalize
    <2> HIDE DEF n
    <2>4. k \in 1 .. n - 1 \/ k = n
      BY <2>2
    <2>5. QED
      BY <1>2, <2>3, <2>4
  <1>7. CallsOf(a)'
    <2>1. \A k \in Nat : <<a, k>> \in net \cup executed => k \in DOMAIN Payees[a]
      BY DEF CallsFit, CallsOf
    <2>2. QED
      BY <1>2, <1>3, <1>4, <1>5, <1>6, <2>1 DEF CallsOf
  <1>8. QED
    BY <1>2, <1>4, <1>5, <1>7, CallsOfOthers

(* The ledger executes a transfer: success is reported of executed ones.   *)
LEMMA LedgerCalls ==
  ASSUME TypeOK, CallsFit, NEW a \in Accepts, NEW k \in DOMAIN Payees[a],
         LedgerExecutes(a, k)
  PROVE  CallsFit'
  <1> DEFINE payee == Payees[a][k]
             verdict == Verdict(<<a, k>> \in executed, age[a], accept[a].quoted,
                                ledgerFee, funds[Buyer[a]], Amount(a, k))
             answer == IF verdict = "rejected" THEN "rejected" ELSE "ok"
  <1>0. reply \in [Accepts -> {"none", "ok", "rejected"}]
    BY DEF TypeOK
  <1>1. /\ <<a, k>> \in net /\ net' = net \ {<<a, k>>}
        /\ reply' = IF at[a] # payee THEN reply ELSE [reply EXCEPT ![a] = answer]
        /\ UNCHANGED <<accept, waived, at>>
    BY DEF LedgerExecutes, records
  <1>2. executed' = IF verdict = "applied" THEN executed \cup {<<a, k>>} ELSE executed
    BY DEF LedgerExecutes
  <1>3. answer = "ok" => <<a, k>> \in executed'
    BY <1>2 DEF Verdict
  <1>4. k \in Nat
    BY PayeeNumbers
  <1> HIDE DEF payee, verdict, answer
  <1>5. executed \subseteq executed' /\ net' \cup executed' \subseteq net \cup executed
    BY <1>1, <1>2
  <1>6. \A b \in Accepts : \A l \in Nat :
          <<b, l>> \in net' \cup executed' => <<b, l>> \in net \cup executed
    BY <1>5
  <1>7. \A b \in Accepts : CallsOf(b)
    BY DEF CallsFit
  <1>8. CASE at[a] # payee
    <2>1. reply' = reply
      BY <1>1, <1>8
    <2>2. \A b \in Accepts : CallsOf(b)'
      BY <1>1, <1>5, <1>6, <1>7, <2>1, CallsKept
    <2>3. QED
      BY <2>2 DEF CallsFit
  <1>9. CASE at[a] = payee
    <2>1. reply'[a] = answer /\ \A b \in Accepts \ {a} : reply'[b] = reply[b]
      BY <1>0, <1>1, <1>9
    <2>2. at[a] \notin {"idle", "price"}
      BY <1>9, AwaitsTransfer DEF payee
    <2>3. PICK l \in 1 .. Len(Payees[a]) :
           /\ at[a] = Payees[a][l] /\ l \in DOMAIN Payees[a]
           /\ \A j \in 1 .. l - 1 : <<a, j>> \in executed
           /\ reply[a] = "ok" => <<a, l>> \in executed
           /\ at[a] = Platform => l = Len(Payees[a])
           /\ \A m \in DOMAIN Payees[a] : Payees[a][m] = at[a] => m = l
      BY <2>2, Awaiting
    <2>4. k = l
      BY <1>9, <2>3 DEF payee
    <2>5. /\ at'[a] = Payees[a][k]
          /\ \A j \in 1 .. k - 1 : <<a, j>> \in executed'
          /\ reply'[a] = "ok" => <<a, k>> \in executed'
      BY <1>1, <1>3, <1>5, <2>1, <2>3, <2>4
    <2>6. \A m \in Nat : <<a, m>> \in net' \cup executed' =>
            m \in DOMAIN Payees[a] /\ accept'[a].phase \notin {"None", "Refused"}
      BY <1>1, <1>6, <1>7 DEF CallsOf
    <2>7. (a \in Sold)' => \A m \in DOMAIN Payees[a] :
            <<a, m>> \in executed' \/ (a \in waived' /\ Payees[a][m] = Platform)
      BY <1>1, <1>5, <1>7, PhaseSets DEF CallsOf
    <2>8. CallsOf(a)'
      BY <2>5, <2>6, <2>7 DEF CallsOf
    <2>9. QED
      <3>1. net' \cup executed' \subseteq net \cup executed \cup {<<a, m>> : m \in Nat}
        BY <1>5
      <3>2. waived \subseteq waived' /\ executed \subseteq executed'
        BY <1>1, <1>5
      <3>3. \A b \in Accepts \ {a} : /\ accept'[b] = accept[b]
                                     /\ at'[b] = at[b] /\ reply'[b] = reply[b]
        BY <1>1, <2>1
      <3>4. QED
        BY <2>8, <3>1, <3>2, <3>3, CallsOfOthers
  <1>10. QED
    BY <1>8, <1>9

(* What the ledger has executed is what accepts have sent.                 *)
LEMMA CallsStep ==
  ASSUME TypeOK, RowsFit, CallsFit, Kind
  PROVE  CallsFit'
  <1>1. ASSUME NEW a \in Accepts, KindOf(a)
        PROVE  CallsFit'
    <2>1. CASE Refuses(a) \/ \E fee \in Fees : Accept(a, fee)
      <3>1. accept[a].phase = "None"
        BY <2>1 DEF Refuses, Accept, Prepared, Admitted
      <3>2. QED
        BY <2>1, <3>1, FirstCalls
    <2>2. CASE \E k \in DOMAIN Payees[a] : Goes(a, k) \/ LedgerExecutes(a, k)
      BY <2>2, GoesCalls, LedgerCalls
    <2>3. CASE Fails(a) \/ \E c \in BOOLEAN : Sells(a, c)
      BY <2>3, EndCalls
    <2>4. CASE Rests(a)
      <3>1. /\ UNCHANGED <<accept, waived, net, executed>>
            /\ at' = [at EXCEPT ![a] = at'[a]] /\ reply' = [reply EXCEPT ![a] = reply'[a]]
            /\ at'[a] \in {at[a], "idle", "price"} /\ reply'[a] \in {reply[a], "none"}
        BY <2>4 DEF Rests, ledger
      <3>2. \A b \in Accepts : at'[b] \in {at[b], "idle", "price"}
                               /\ reply'[b] \in {reply[b], "none"}
        BY <3>1 DEF TypeOK
      <3>3. QED
        BY <3>1, <3>2, CallsKept DEF CallsFit
    <2>5. CASE SettleWorthless(a)
      BY <2>5, CallsKept DEF SettleWorthless, ledger, CallsFit
    <2>6. QED
      BY <1>1, <2>1, <2>2, <2>3, <2>4, <2>5 DEF KindOf
  <1>2. CASE UNCHANGED <<accept, waived, at, reply, net, executed>>
    BY <1>2, CallsKept DEF CallsFit
  <1>3. QED
    BY <1>1, <1>2 DEF Kind, vars, records, ledger, FeeChange, Withdraw, Marks

-----------------------------------------------------------------------------
(* Collateral.                                                             *)
Bound == Pending \cup (Sold \ closed)

(* A sum over the accepts changes by what one of its terms changes.        *)
LEMMA SumChanges ==
  ASSUME NEW a \in Accepts, NEW f, NEW g,
         \A b \in Accepts : f[b] \in Int /\ g[b] \in Int /\ (b # a => g[b] = f[b])
  PROVE  /\ SumFunctionOnSet(f, Accepts) \in Int
         /\ SumFunctionOnSet(g, Accepts)
              = SumFunctionOnSet(f, Accepts) + (g[a] - f[a])
  <1>1. IsFiniteSet(Accepts)
    BY AcceptanceAssumption
  <1>2. /\ SumFunctionOnSet(f, Accepts) \in Int
        /\ SumFunctionOnSet(g, Accepts) = SumFunctionOnSet(f, Accepts) + g[a] - f[a]
    BY <1>1, SumAfterChange
  <1>3. QED
    BY <1>2

(* One accept changes, and what is locked changes by what it needs.        *)
LEMMA CoversAfter ==
  ASSUME TypeOK, Covers, NEW a \in Accepts,
         \A b \in Accepts \ {a} : (b \in Bound)' <=> b \in Bound,
         \A u \in Users :
           locked'[u] = (locked[u] - (IF a \in Bound THEN Pledges[a][u] ELSE 0))
                          + (IF (a \in Bound)' THEN Pledges[a][u] ELSE 0)
  PROVE  Covers'
  <1>1. SUFFICES ASSUME NEW u \in Users
                 PROVE  locked'[u] = SumFunctionOnSet(Need(u), Accepts)'
    BY DEF Covers
  <1> DEFINE f == [b \in Accepts |-> IF b \in Bound THEN Pledges[b][u] ELSE 0]
             g == [b \in Accepts |-> IF (b \in Bound)' THEN Pledges[b][u] ELSE 0]
  <1>2. Need(u) = f /\ SumFunctionOnSet(Need(u), Accepts)' = SumFunctionOnSet(g, Accepts)
    BY DEF Need, Bound
  <1>3. \A b \in Accepts : Pledges[b][u] \in Nat
    BY WriterTotals
  <1>4. \A b \in Accepts : f[b] \in Int /\ g[b] \in Int /\ (b # a => g[b] = f[b])
    BY <1>3
  <1>5. locked[u] = SumFunctionOnSet(f, Accepts)
    BY <1>2 DEF Covers
  <1>6. locked'[u] = (locked[u] - f[a]) + g[a] /\ locked[u] \in Nat
    BY DEF TypeOK
  <1>7. IsFiniteSet(Accepts)
    BY AcceptanceAssumption
  <1> HIDE DEF f, g
  <1>8. SumFunctionOnSet(g, Accepts) = SumFunctionOnSet(f, Accepts) + (g[a] - f[a])
    BY <1>4, SumChanges
  <1>9. f[a] \in Int /\ g[a] \in Int
    BY <1>4
  <1>10. QED
    BY <1>2, <1>5, <1>6, <1>8, <1>9

(* Nothing that needs collateral changes.                                  *)
LEMMA CoversSame ==
  ASSUME Covers, locked' = locked, Bound' = Bound
  PROVE  Covers'
  BY DEF Covers, Need, Bound

(* Collateral is locked for a pending accept.                              *)
LEMMA AcceptCovers ==
  ASSUME TypeOK, Covers, NEW a \in Accepts, NEW fee \in Fees, Accept(a, fee)
  PROVE  Covers'
  <1> DEFINE e == [phase |-> "BuyerDebited", quoted |-> fee,
                   was |-> [i \in Indices(a) |-> offer[OfferOf(a, i)]]]
  <1>1. /\ accept' = [accept EXCEPT ![a] = e] /\ e.phase = "BuyerDebited"
        /\ closed' = closed
        /\ locked' = [u \in Users |-> locked[u] + Pledges[a][u]]
    BY DEF Accept
  <1>2. accept[a].phase = "None"
    BY DEF Accept, Prepared, Admitted
  <1> HIDE DEF e
  <1>3. accept'[a] = e /\ \A b \in Accepts \ {a} : accept'[b] = accept[b]
    BY <1>1, PendingAfter
  <1>4. a \notin Bound /\ (a \in Bound)'
    BY <1>1, <1>2, <1>3 DEF Bound, Pending, Sold
  <1>5. \A b \in Accepts \ {a} : (b \in Bound)' <=> b \in Bound
    BY <1>1, <1>3 DEF Bound, Pending, Sold
  <1>6. \A u \in Users : locked'[u] = (locked[u] - 0) + Pledges[a][u]
    BY <1>1, WriterTotals DEF TypeOK
  <1>7. QED
    BY <1>4, <1>5, <1>6, CoversAfter

(* A completed accept needs its collateral until its options are settled.  *)
LEMMA SellsCovers ==
  ASSUME TypeOK, Covers, NEW a \in Accepts, NEW c \in BOOLEAN, Sells(a, c)
  PROVE  Covers'
  <1> DEFINE e == [NoAccept EXCEPT !.phase = "Completed"]
  <1>1. /\ accept' = [accept EXCEPT ![a] = e] /\ e.phase = "Completed"
        /\ closed' = closed /\ locked' = locked
    BY DEF Sells, Finalize, NoAccept
  <1>2. a \in Pending /\ a \notin Sold /\ a \notin closed
    BY DEF Sells, Pending, Sold, TypeOK
  <1> HIDE DEF e
  <1>3. accept'[a] = e /\ \A b \in Accepts \ {a} : accept'[b] = accept[b]
    BY <1>1, PendingAfter
  <1>4. Bound' = Bound
    BY <1>1, <1>2, <1>3 DEF Bound, Pending, Sold
  <1>5. QED
    BY <1>1, <1>4, CoversSame

(* A failed accept's collateral is unlocked.                               *)
LEMMA FailsCovers ==
  ASSUME TypeOK, Covers, NEW a \in Accepts, Fails(a)
  PROVE  Covers'
  <1> DEFINE e == [accept[a] EXCEPT !.phase = "Failed"]
  <1>1. /\ accept' = [accept EXCEPT ![a] = e] /\ e.phase = "Failed"
        /\ closed' = closed
        /\ locked' = [u \in Users |-> locked[u] - Unlocks(a, u)]
    BY DEF Fails, FailForGood, TypeOK, AcceptStates
  <1>2. a \in Pending
    BY DEF Fails
  <1> HIDE DEF e
  <1>3. accept'[a] = e /\ \A b \in Accepts \ {a} : accept'[b] = accept[b]
    BY <1>1, PendingAfter
  <1>4. a \in Bound /\ ~(a \in Bound)'
    BY <1>1, <1>2, <1>3 DEF Bound, Pending, Sold
  <1>5. \A b \in Accepts \ {a} : (b \in Bound)' <=> b \in Bound
    BY <1>1, <1>3 DEF Bound, Pending, Sold
  <1>6. \A u \in Users : Unlocks(a, u) = Pledges[a][u]
    BY <1>2, NeedFacts DEF Unlocks
  <1>7. \A u \in Users : locked'[u] = (locked[u] - Pledges[a][u]) + 0
    <2>1. \A u \in Users : locked[u] \in Nat /\ Pledges[a][u] \in Nat
      BY WriterTotals DEF TypeOK
    <2>2. QED
      BY <1>1, <1>6, <2>1
  <1>8. QED
    BY <1>4, <1>5, <1>7, CoversAfter

(* Settled options need no collateral.                                     *)
LEMMA SettlesCovers ==
  ASSUME TypeOK, Covers, NEW a \in Accepts, SettleWorthless(a)
  PROVE  Covers'
  <1>1. /\ a \in Sold /\ a \notin closed /\ closed' = closed \cup {a}
        /\ locked' = [u \in Users |-> locked[u] - Pledges[a][u]]
        /\ accept' = accept
    BY DEF SettleWorthless
  <1>2. a \notin Pending
    BY <1>1 DEF Pending, Sold
  <1>3. a \in Bound /\ ~(a \in Bound)'
    BY <1>1, <1>2 DEF Bound, Pending, Sold
  <1>4. \A b \in Accepts \ {a} : (b \in Bound)' <=> b \in Bound
    BY <1>1 DEF Bound, Pending, Sold
  <1>5. \A u \in Users : locked'[u] = (locked[u] - Pledges[a][u]) + 0
    <2>1. \A u \in Users : locked[u] \in Nat /\ Pledges[a][u] \in Nat
      BY WriterTotals DEF TypeOK
    <2>2. QED
      BY <1>1, <2>1
  <1>6. QED
    BY <1>3, <1>4, <1>5, CoversAfter

(* A request that is refused neither had nor has collateral.               *)
LEMMA RefusesBound ==
  ASSUME TypeOK, NEW a \in Accepts, Refuses(a)
  PROVE  Pending' = Pending /\ Bound' = Bound /\ Sold' = Sold
  <1> DEFINE e == [accept[a] EXCEPT !.phase = "Refused"]
  <1>1. /\ accept' = [accept EXCEPT ![a] = e] /\ e.phase = "Refused"
        /\ closed' = closed
    BY DEF Refuses, TypeOK, AcceptStates
  <1>2. accept[a].phase = "None"
    BY DEF Refuses
  <1> HIDE DEF e
  <1>3. accept'[a] = e /\ \A b \in Accepts \ {a} : accept'[b] = accept[b]
    BY <1>1, PendingAfter
  <1>4. QED
    BY <1>1, <1>2, <1>3 DEF Bound, Pending, Sold

(* What is locked is what the options need, whatever happens.              *)
LEMMA CoversStep ==
  ASSUME TypeOK, Covers, Kind
  PROVE  Covers'
  <1>1. ASSUME NEW a \in Accepts, KindOf(a)
        PROVE  Covers'
    <2>1. ASSUME NEW fee \in Fees, Accept(a, fee)
          PROVE  Covers'
      BY <2>1, AcceptCovers
    <2>2. CASE Refuses(a)
      <3>1. locked' = locked
        BY <2>2 DEF Refuses, books
      <3>2. QED
        BY <2>2, <3>1, RefusesBound, CoversSame
    <2>3. CASE \E k \in DOMAIN Payees[a] : Goes(a, k) \/ LedgerExecutes(a, k)
      BY <2>3, CoversSame DEF Goes, Send, LedgerExecutes, records, books, Bound, Pending, Sold
    <2>4. ASSUME NEW c \in BOOLEAN, Sells(a, c)
          PROVE  Covers'
      BY <2>4, SellsCovers
    <2>5. CASE Fails(a)
      BY <2>5, FailsCovers
    <2>6. CASE Rests(a)
      BY <2>6, CoversSame DEF Rests, books, Bound, Pending, Sold
    <2>7. CASE SettleWorthless(a)
      BY <2>7, SettlesCovers
    <2>8. QED
      BY <1>1, <2>1, <2>2, <2>3, <2>4, <2>5, <2>6, <2>7 DEF KindOf
  <1>2. CASE UNCHANGED <<accept, closed, locked>>
    BY <1>2, CoversSame DEF Bound, Pending, Sold
  <1>3. QED
    BY <1>1, <1>2 DEF Kind, vars, records, books, FeeChange, Withdraw, Marks

-----------------------------------------------------------------------------
(* The books.  Of an accept: the transfers that were made, and to a user;  *)
(* what each brings, and costs the buyer.                                  *)
Made(a) == {k \in DOMAIN Payees[a] : <<a, k>> \in executed}
PaidTo(a, u) == {k \in DOMAIN Payees[a] : <<a, k>> \in executed /\ Payees[a][k] = u}
Brings(a) == [k \in DOMAIN Payees[a] |-> Amount(a, k)]
Costs(a, q) == [k \in DOMAIN Payees[a] |-> Amount(a, k) + q]

(* The transfers bring amounts, and cost the transfer fee more.            *)
LEMMA TransferTypes ==
  ASSUME NEW a \in Accepts, NEW q \in Nat
  PROVE  /\ IsFiniteSet(DOMAIN Payees[a])
         /\ \A k \in DOMAIN Payees[a] :
              /\ Brings(a)[k] = Amount(a, k) /\ Brings(a)[k] \in Nat
              /\ Costs(a, q)[k] = Amount(a, k) + q /\ Costs(a, q)[k] \in Nat
  <1>1. \A k \in DOMAIN Payees[a] : Amount(a, k) \in Nat
    BY AmountTypes
  <1> DEFINE n == Len(Payees[a])
  <1>2. n \in Nat /\ DOMAIN Payees[a] = 1 .. n
    BY PayeeFacts
  <1>3. IsFiniteSet(1 .. n)
    BY <1>2, FS_Interval
  <1>4. QED
    BY <1>1, <1>2, <1>3 DEF Brings, Costs

(* All the transfers of a request cost what the buyer is debited.          *)
LEMMA CostsAddUp ==
  ASSUME NEW a \in Accepts, NEW q \in Nat
  PROVE  SumFunctionOnSet(Costs(a, q), DOMAIN Payees[a]) = Debit(a, q)
  <1> DEFINE n == Len(Payees[a])
             S == 1 .. n
             f == Brings(a)
             g == [k \in S |-> q]
             h == Costs(a, q)
  <1>1. n \in Nat /\ DOMAIN Payees[a] = S
    BY PayeeFacts
  <1>2. SumFunctionOnSet(f, S) = Premium[a]
    BY PaymentsAddUp DEF Brings
  <1>3. \A k \in S : f[k] \in Int /\ g[k] \in Int /\ h[k] = f[k] + g[k]
    BY <1>1, TransferTypes
  <1>4. IsFiniteSet(S) /\ Cardinality(S) = n
    BY <1>1, FS_Interval
  <1>5. \A k \in S : g[k] = q
    OBVIOUS
  <1> HIDE DEF S, f, g, h, n
  <1>6. SumFunctionOnSet(h, S) = SumFunctionOnSet(f, S) + SumFunctionOnSet(g, S)
    BY <1>3, <1>4, SumOfBoth
  <1>7. SumFunctionOnSet(g, S) = Cardinality(S) * q
    BY <1>4, <1>5, SumOfSame
  <1>8. SumFunctionOnSet(h, S) = Premium[a] + n * q
    BY <1>2, <1>4, <1>6, <1>7
  <1>9. QED
    BY <1>1, <1>8 DEF h, S, n, Debit

(* What an accept owes, brought and took is an amount.                     *)
LEMMA Shares ==
  ASSUME NEW a \in Accepts, NEW u \in Users, accept[a].quoted \in Nat
  PROVE  /\ Came(a, u) = SumFunctionOnSet(Brings(a), PaidTo(a, u))
         /\ Left(a, u) = IF u = Buyer[a]
                         THEN SumFunctionOnSet(Costs(a, accept[a].quoted), Made(a))
                         ELSE 0
         /\ Came(a, u) \in Nat /\ Left(a, u) \in Nat /\ Owes(a, u) \in Nat
  <1> DEFINE q == accept[a].quoted
             D == DOMAIN Payees[a]
             P == PaidTo(a, u)
             M == Made(a)
             f == Brings(a)
             h == Costs(a, q)
             fp == [k \in P |-> Amount(a, k)]
             hm == [k \in M |-> Amount(a, k) + q]
  <1>1. IsFiniteSet(D) /\ \A k \in D : /\ f[k] = Amount(a, k) /\ f[k] \in Nat
                                       /\ h[k] = Amount(a, k) + q /\ h[k] \in Nat
    BY TransferTypes
  <1>2. P \in SUBSET D /\ M \in SUBSET D
    BY DEF PaidTo, Made
  <1>3. IsFiniteSet(P) /\ IsFiniteSet(M)
    BY <1>1, <1>2, FS_Subset
  <1>4. \A k \in P : f[k] \in Int /\ fp[k] = f[k] /\ f[k] \in Nat
    BY <1>1, <1>2
  <1>5. \A k \in M : h[k] \in Int /\ hm[k] = h[k] /\ h[k] \in Nat
    BY <1>1, <1>2
  <1>6. /\ Came(a, u) = SumFunctionOnSet(fp, P)
        /\ Left(a, u) = IF u = Buyer[a] THEN SumFunctionOnSet(hm, M) ELSE 0
    BY DEF Came, Left, SumOver, PaidTo, Made
  <1>7. Owes(a, u) \in Nat
    BY DebitTypes DEF Owes
  <1> HIDE DEF D, P, M, f, h, fp, hm
  <1>8. SumFunctionOnSet(fp, P) = SumFunctionOnSet(f, P)
        /\ SumFunctionOnSet(f, P) \in Nat
    BY <1>3, <1>4, SumOfEqual, SumOfAmounts
  <1>9. SumFunctionOnSet(hm, M) = SumFunctionOnSet(h, M)
        /\ SumFunctionOnSet(h, M) \in Nat
    BY <1>3, <1>5, SumOfEqual, SumOfAmounts
  <1>10. QED
    BY <1>6, <1>7, <1>8, <1>9 DEF P, M, f, h

(* Nothing has been transferred.                                           *)
LEMMA SharesOfNone ==
  ASSUME NEW a \in Accepts, NEW u \in Users, accept[a].quoted \in Nat, Made(a) = {}
  PROVE  Came(a, u) = 0 /\ Left(a, u) = 0
  <1>1. PaidTo(a, u) = {}
    BY DEF PaidTo, Made
  <1> DEFINE f == Brings(a)
             h == Costs(a, accept[a].quoted)
  <1>2. /\ Came(a, u) = SumFunctionOnSet(f, {})
        /\ Left(a, u) = IF u = Buyer[a] THEN SumFunctionOnSet(h, {}) ELSE 0
    BY <1>1, Shares
  <1> HIDE DEF f, h
  <1>3. QED
    BY <1>2, SumOfNone

(* The same of every accept and user at once.                              *)
LEMMA SharesOfNoneAll ==
  \A a \in Accepts : \A u \in Users :
    accept[a].quoted \in Nat /\ Made(a) = {} => Came(a, u) = 0 /\ Left(a, u) = 0
  BY SharesOfNone

(* And of the state after a step.                                         *)
LEMMA SharesOfNoneNext ==
  (\A a \in Accepts : \A u \in Users :
    accept[a].quoted \in Nat /\ Made(a) = {} => Came(a, u) = 0 /\ Left(a, u) = 0)'
  BY SharesOfNoneAll, PTL

(* A user who is no party to an accept gets nothing from it.               *)
LEMMA SharesOfOthers ==
  ASSUME NEW a \in Accepts, NEW u \in Users, accept[a].quoted \in Nat, u \notin Parties(a)
  PROVE  /\ Came(a, u) = 0 /\ Left(a, u) = 0 /\ Owes(a, u) = 0
         /\ Earns[a][u] = 0 /\ Pledges[a][u] = 0 /\ u # Buyer[a] /\ u \notin Writers(a)
  <1>1. u # Buyer[a] /\ u \notin Writers(a)
    BY DEF Parties, Writers
  <1>2. PaidTo(a, u) = {}
    <2> DEFINE n == Len(Payees[a])
    <2>1. /\ DOMAIN Payees[a] = 1 .. n
          /\ \A l \in 1 .. n :
               \/ Payees[a][l] \in Writers(a) /\ Payees[a][l] # Platform
               \/ Payees[a][l] = Platform /\ l = n /\ Fee[a] > 0
      BY PayeeFacts
    <2>2. u # Platform
      BY Names DEF Platform
    <2> HIDE DEF n
    <2>3. QED
      BY <1>1, <2>1, <2>2 DEF PaidTo
  <1> DEFINE f == Brings(a)
  <1>3. Came(a, u) = SumFunctionOnSet(f, {}) /\ Left(a, u) = 0
    BY <1>1, <1>2, Shares
  <1>4. Earns[a][u] = 0 /\ Pledges[a][u] = 0
    BY <1>1, WriterTotals DEF Writers
  <1> HIDE DEF f
  <1>5. QED
    BY <1>1, <1>3, <1>4, SumOfNone DEF Owes

(* When all writers have been paid, each got what he earns.                *)
LEMMA WritersArePaid ==
  ASSUME NEW a \in Accepts, NEW u \in Users, accept[a].quoted \in Nat,
         \A k \in DOMAIN Payees[a] : Payees[a][k] # Platform => <<a, k>> \in executed
  PROVE  Came(a, u) = Earns[a][u]
  <1> DEFINE n == Len(Payees[a])
             f == Brings(a)
             P == PaidTo(a, u)
  <1>1. /\ n \in Nat /\ DOMAIN Payees[a] = 1 .. n
        /\ \A l \in 1 .. n :
             \/ Payees[a][l] \in Writers(a) /\ Payees[a][l] # Platform
             \/ Payees[a][l] = Platform /\ l = n /\ Fee[a] > 0
        /\ \A k, l \in 1 .. n : Payees[a][k] = Payees[a][l] => k = l
        /\ \A w \in Writers(a) : \E k \in 1 .. n : Payees[a][k] = w
    BY PayeeFacts
  <1>2. u # Platform
    BY Names DEF Platform
  <1>3. Came(a, u) = SumFunctionOnSet(f, P)
    BY Shares
  <1>4. CASE u \in Writers(a)
    <2>1. PICK k \in 1 .. n : Payees[a][k] = u
      BY <1>1, <1>4
    <2>2. P = {k}
      <3>1. <<a, k>> \in executed
        BY <1>1, <1>2, <2>1
      <3> HIDE DEF n
      <3>2. \A l \in DOMAIN Payees[a] : Payees[a][l] = u => l = k
        BY <1>1, <2>1
      <3>3. QED
        BY <1>1, <2>1, <3>1, <3>2 DEF PaidTo
    <2>3. f[k] = Amount(a, k) /\ f[k] \in Nat
      BY <1>1, TransferTypes
    <2>4. Amount(a, k) = Earns[a][u]
      BY <1>2, <2>1 DEF Amount
    <2> HIDE DEF f, P
    <2>5. SumFunctionOnSet(f, {k}) = f[k]
      BY <2>3, SumOfOne
    <2>6. QED
      BY <1>3, <2>2, <2>3, <2>4, <2>5
  <1>5. CASE u \notin Writers(a)
    <2>1. P = {}
      BY <1>1, <1>2, <1>5 DEF PaidTo
    <2>2. Earns[a][u] = 0
      BY <1>5, WriterTotals DEF Writers
    <2> HIDE DEF f, P
    <2>3. SumFunctionOnSet(f, {}) = 0
      BY SumOfNone
    <2>4. QED
      BY <1>3, <2>1, <2>2, <2>3
  <1>6. QED
    BY <1>4, <1>5

(* When all has been transferred, the debit is used up; when all but the   *)
(* platform's fee, that fee and the one of its transfer are left of it.    *)
LEMMA DebitIsUsed ==
  ASSUME NEW a \in Accepts, NEW q, q = accept[a].quoted, q \in Nat,
         NEW n, n = Len(Payees[a]),
         \A k \in 1 .. n - 1 : <<a, k>> \in executed
  PROVE  /\ <<a, n>> \in executed => Left(a, Buyer[a]) = Owes(a, Buyer[a])
         /\ <<a, n>> \notin executed /\ Payees[a][n] = Platform =>
              Owes(a, Buyer[a]) = Left(a, Buyer[a]) + (Fee[a] + q)
  <1> DEFINE h == Costs(a, q)
             M == Made(a)
             S == DOMAIN Payees[a]
             u == Buyer[a]
  <1>1. n \in Nat /\ n >= 1 /\ S = 1 .. n /\ u \in Users
    BY PayeeFacts, Names
  <1>2. IsFiniteSet(S) /\ \A k \in S : h[k] = Amount(a, k) + q /\ h[k] \in Nat
    BY TransferTypes
  <1>3. SumFunctionOnSet(h, S) = Debit(a, q)
    BY CostsAddUp
  <1>4. Owes(a, u) = Debit(a, q) /\ Left(a, u) = SumFunctionOnSet(h, M)
        /\ Left(a, u) \in Nat
    BY <1>1, Shares DEF Owes
  <1>5. n \in S /\ \A k \in S : k = n \/ k \in 1 .. n - 1
    BY <1>1
  <1>6. CASE <<a, n>> \in executed
    <2>1. M = S
      BY <1>5, <1>6 DEF Made
    <2>2. QED
      BY <1>3, <1>4, <1>6, <2>1
  <1>7. CASE <<a, n>> \notin executed /\ Payees[a][n] = Platform
    <2>1. M = S \ {n}
      <3>1. \A k \in S \ {n} : <<a, k>> \in executed
        BY <1>5
      <3>2. QED
        BY <1>7, <3>1 DEF Made
    <2>2. h[n] = Fee[a] + q
      BY <1>2, <1>5, <1>7 DEF Amount
    <2> HIDE DEF h, M, S, u
    <2>3. SumFunctionOnSet(h, S) = h[n] + SumFunctionOnSet(h, S \ {n})
      <3>1. IsFiniteSet(S) /\ \A x \in S : h[x] \in Int
        BY <1>2
      <3>2. \A T \in SUBSET S :
              /\ SumFunctionOnSet(h, T) \in Int
              /\ \A x \in T : SumFunctionOnSet(h, T)
                                = h[x] + SumFunctionOnSet(h, T \ {x})
        BY <3>1, SumTakesAny
      <3>3. QED
        BY <1>5, <3>2
    <2>4. Fee[a] \in Nat
      BY TotalTypes
    <2>5. Owes(a, u) = Left(a, u) + (Fee[a] + q)
      BY <1>3, <1>4, <2>1, <2>2, <2>3, <2>4
    <2>6. QED
      BY <1>7, <2>5 DEF u
  <1>8. QED
    BY <1>6, <1>7

(* The same of every accept and user at once.                              *)
LEMMA SharesAll ==
  \A a \in Accepts : \A u \in Users : accept[a].quoted \in Nat =>
    /\ Came(a, u) = SumFunctionOnSet(Brings(a), PaidTo(a, u))
    /\ Left(a, u) = IF u = Buyer[a]
                    THEN SumFunctionOnSet(Costs(a, accept[a].quoted), Made(a))
                    ELSE 0
    /\ Came(a, u) \in Nat /\ Left(a, u) \in Nat /\ Owes(a, u) \in Nat
  BY Shares

(* And of the state after a step.                                         *)
LEMMA SharesNext ==
  (\A a \in Accepts : \A u \in Users : accept[a].quoted \in Nat =>
    /\ Came(a, u) = SumFunctionOnSet(Brings(a), PaidTo(a, u))
    /\ Left(a, u) = IF u = Buyer[a]
                    THEN SumFunctionOnSet(Costs(a, accept[a].quoted), Made(a))
                    ELSE 0
    /\ Came(a, u) \in Nat /\ Left(a, u) \in Nat /\ Owes(a, u) \in Nat)'
  BY SharesAll, PTL

(* One more transfer is made.                                              *)
LEMMA SharesGrow ==
  ASSUME NEW a \in Accepts, NEW u \in Users, NEW k \in DOMAIN Payees[a],
         NEW q, q = accept[a].quoted, q \in Nat, accept' = accept,
         <<a, k>> \notin executed, executed' = executed \cup {<<a, k>>}
  PROVE  /\ Owes(a, u)' = Owes(a, u)
         /\ Came(a, u)' = Came(a, u) + (IF u = Payees[a][k] THEN Amount(a, k) ELSE 0)
         /\ Left(a, u)' = Left(a, u) + (IF u = Buyer[a] THEN Amount(a, k) + q ELSE 0)
  <1> DEFINE f == Brings(a)
             h == Costs(a, q)
             D == DOMAIN Payees[a]
             P == PaidTo(a, u)
             P2 == PaidTo(a, u)'
             M == Made(a)
             M2 == Made(a)'
  <1>1. IsFiniteSet(D) /\ \A l \in D : /\ f[l] = Amount(a, l) /\ f[l] \in Int
                                       /\ h[l] = Amount(a, l) + q /\ h[l] \in Int
    BY TransferTypes
  <1>2. Owes(a, u)' = Owes(a, u)
    BY DEF Owes
  <1>3. /\ Came(a, u) = SumFunctionOnSet(f, P)
        /\ Left(a, u) = IF u = Buyer[a] THEN SumFunctionOnSet(h, M) ELSE 0
        /\ Came(a, u) \in Nat /\ Left(a, u) \in Nat
    BY Shares
  <1>4. /\ Came(a, u)' = SumFunctionOnSet(f, P2)
        /\ Left(a, u)' = IF u = Buyer[a] THEN SumFunctionOnSet(h, M2) ELSE 0
    <2>1. accept'[a].quoted \in Nat
      OBVIOUS
    <2>2. QED
      BY <2>1, SharesNext
  <1>5. /\ M2 = M \cup {k} /\ k \notin M /\ M2 \in SUBSET D
        /\ P2 \in SUBSET D
        /\ IF u = Payees[a][k] THEN P2 = P \cup {k} /\ k \notin P ELSE P2 = P
    BY DEF Made, PaidTo
  <1> HIDE DEF f, h, D, P, P2, M, M2
  <1>6. \A T \in SUBSET D : \A l \in T :
          /\ SumFunctionOnSet(f, T) = f[l] + SumFunctionOnSet(f, T \ {l})
          /\ SumFunctionOnSet(h, T) = h[l] + SumFunctionOnSet(h, T \ {l})
    <2>1. IsFiniteSet(D) /\ \A x \in D : f[x] \in Int
      BY <1>1
    <2>2. IsFiniteSet(D) /\ \A x \in D : h[x] \in Int
      BY <1>1
    <2>3. \A T \in SUBSET D :
            /\ SumFunctionOnSet(f, T) \in Int
            /\ \A x \in T : SumFunctionOnSet(f, T)
                              = f[x] + SumFunctionOnSet(f, T \ {x})
      BY <2>1, SumTakesAny
    <2>4. \A T \in SUBSET D :
            /\ SumFunctionOnSet(h, T) \in Int
            /\ \A x \in T : SumFunctionOnSet(h, T)
                              = h[x] + SumFunctionOnSet(h, T \ {x})
      BY <2>2, SumTakesAny
    <2>5. QED
      BY <2>3, <2>4
  <1>7. SumFunctionOnSet(h, M2) = h[k] + SumFunctionOnSet(h, M)
    <2>1. k \in M2 /\ M2 \ {k} = M
      BY <1>5
    <2>2. QED
      BY <1>5, <1>6, <2>1
  <1>8. u = Payees[a][k] => SumFunctionOnSet(f, P2) = f[k] + SumFunctionOnSet(f, P)
    <2>1. ASSUME u = Payees[a][k]
          PROVE  k \in P2 /\ P2 \ {k} = P
      BY <1>5, <2>1
    <2>2. QED
      BY <1>5, <1>6, <2>1
  <1>9. f[k] = Amount(a, k) /\ h[k] = Amount(a, k) + q /\ f[k] \in Int /\ h[k] \in Int
    BY <1>1 DEF D
  <1>10. QED
    BY <1>2, <1>3, <1>4, <1>5, <1>7, <1>8, <1>9

(* What is due of an accept.                                               *)
LEMMA DueFacts ==
  TypeOK => \A a \in Accepts : \A u \in Users :
    /\ Due(u)[a] = IF a \in Pending THEN (Owes(a, u) + Came(a, u)) - Left(a, u) ELSE 0
    /\ Due(u)[a] \in Int
    /\ Owes(a, u) \in Nat /\ Came(a, u) \in Nat /\ Left(a, u) \in Nat
    /\ funds[u] \in Nat /\ available[u] \in Nat /\ locked[u] \in Nat
  <1>1. SUFFICES ASSUME TypeOK, NEW a \in Accepts, NEW u \in Users
                 PROVE  /\ Due(u)[a] = IF a \in Pending
                                       THEN (Owes(a, u) + Came(a, u)) - Left(a, u) ELSE 0
                        /\ Due(u)[a] \in Int
                        /\ Owes(a, u) \in Nat /\ Came(a, u) \in Nat /\ Left(a, u) \in Nat
                        /\ funds[u] \in Nat /\ available[u] \in Nat /\ locked[u] \in Nat
    OBVIOUS
  <1>2. accept[a].quoted \in Nat /\ funds[u] \in Nat
        /\ available[u] \in Nat /\ locked[u] \in Nat
    BY <1>1 DEF TypeOK, AcceptStates
  <1>3. Owes(a, u) \in Nat /\ Came(a, u) \in Nat /\ Left(a, u) \in Nat
    BY <1>2, Shares
  <1>4. Due(u)[a] = IF a \in Pending
                    THEN (Owes(a, u) + Came(a, u)) - Left(a, u) ELSE 0
    BY DEF Due
  <1>5. QED
    BY <1>2, <1>3, <1>4

(* The same after a step.                                                  *)
LEMMA DueNext ==
  TypeOK' => (\A a \in Accepts : \A u \in Users :
    /\ Due(u)[a] = IF a \in Pending THEN (Owes(a, u) + Came(a, u)) - Left(a, u) ELSE 0
    /\ Due(u)[a] \in Int
    /\ Owes(a, u) \in Nat /\ Came(a, u) \in Nat /\ Left(a, u) \in Nat
    /\ funds[u] \in Nat /\ available[u] \in Nat /\ locked[u] \in Nat)'
  BY DueFacts, PTL

(* A step that only concerns one accept, and makes no half-done one good.  *)
Concerns(a) ==
  /\ executed \subseteq executed' /\ waived \subseteq waived'
  /\ accept[a].phase = "Failed" => accept'[a].phase = "Failed"
  /\ \A b \in Accepts \ {a} :
       /\ accept'[b] = accept[b]
       /\ \A k \in DOMAIN Payees[b] : <<b, k>> \in executed' <=> <<b, k>> \in executed

Balanced(a, u) ==
  funds'[u] + (available[u] + (locked[u] + Due(u)[a]))
    = funds[u] + (available'[u] + (locked'[u] + Due(u)'[a]))

(* What is due of an accept that a step does not concern stays so.         *)
LEMMA DueSame ==
  ASSUME TypeOK, TypeOK', NEW b \in Accepts, accept'[b] = accept[b],
         \A k \in DOMAIN Payees[b] : <<b, k>> \in executed' <=> <<b, k>> \in executed,
         NEW u \in Users
  PROVE  Due(u)'[b] = Due(u)[b]
  <1>1. /\ accept'[b] = accept[b]
        /\ \A k \in DOMAIN Payees[b] : <<b, k>> \in executed' <=> <<b, k>> \in executed
    OBVIOUS
  <1>2. (b \in Pending)' <=> b \in Pending
    BY <1>1, PhaseSets
  <1>3. PaidTo(b, u)' = PaidTo(b, u) /\ Made(b)' = Made(b)
    BY <1>1 DEF PaidTo, Made
  <1>4. accept[b].quoted \in Nat /\ accept'[b].quoted \in Nat
    BY <1>1 DEF TypeOK, AcceptStates
  <1>5. Owes(b, u)' = Owes(b, u)
    BY <1>1 DEF Owes
  <1> DEFINE f == Brings(b)
             h == Costs(b, accept[b].quoted)
  <1>6. /\ Came(b, u) = SumFunctionOnSet(f, PaidTo(b, u))
        /\ Left(b, u) = IF u = Buyer[b] THEN SumFunctionOnSet(h, Made(b)) ELSE 0
    BY <1>4, Shares
  <1>7. /\ Came(b, u)' = SumFunctionOnSet(f, PaidTo(b, u)')
        /\ Left(b, u)' = IF u = Buyer[b] THEN SumFunctionOnSet(h, Made(b)') ELSE 0
    BY <1>1, <1>4, SharesNext
  <1> HIDE DEF f, h
  <1>8. Came(b, u)' = Came(b, u) /\ Left(b, u)' = Left(b, u)
    BY <1>3, <1>6, <1>7
  <1>9. /\ Due(u)[b] = IF b \in Pending
                       THEN (Owes(b, u) + Came(b, u)) - Left(b, u) ELSE 0
        /\ Due(u)'[b] = IF (b \in Pending)'
                        THEN (Owes(b, u)' + Came(b, u)') - Left(b, u)' ELSE 0
    BY DueFacts, DueNext
  <1>10. QED
    BY <1>2, <1>5, <1>8, <1>9

(* What is due of the other accepts stays so.                              *)
LEMMA DueOfOthers ==
  ASSUME TypeOK, TypeOK', NEW a \in Accepts, Concerns(a),
         NEW b \in Accepts \ {a}, NEW u \in Users
  PROVE  Due(u)'[b] = Due(u)[b]
  BY DueSame DEF Concerns

(* An accept that was left half-done stays so.                             *)
LEMMA HalfDoneStays ==
  ASSUME NEW a \in Accepts, Concerns(a), NEW b \in Accepts, HalfDone(b)
  PROVE  HalfDone(b)'
  BY DEF Concerns, HalfDone

(* If the balances change as what is due of the accept does, the books     *)
(* go on to match.                                                         *)
LEMMA BooksAfter ==
  ASSUME TypeOK, TypeOK', BooksMatch, NEW a \in Accepts, Concerns(a),
         \A u \in Users : Clear(u)' => Balanced(a, u)
  PROVE  BooksMatch'
  <1>1. SUFFICES ASSUME NEW u \in Users, Clear(u)'
                 PROVE  funds'[u] = available'[u] + locked'[u]
                                      + SumFunctionOnSet(Due(u), Accepts)'
    BY DEF BooksMatch
  <1>2. Clear(u)
    BY <1>1, HalfDoneStays DEF Clear, Parties, Indices, WriterOf, OfferOf
  <1> DEFINE f == Due(u)
             g == Due(u)'
  <1>3. funds[u] = available[u] + locked[u] + SumFunctionOnSet(f, Accepts)
    BY <1>2 DEF BooksMatch
  <1>4. funds'[u] + (available[u] + (locked[u] + f[a]))
          = funds[u] + (available'[u] + (locked'[u] + g[a]))
    BY <1>1 DEF Balanced
  <1>5. \A b \in Accepts : f[b] \in Int /\ g[b] \in Int /\ (b # a => g[b] = f[b])
    <2>1. \A b \in Accepts : f[b] \in Int
      BY DueFacts
    <2>2. \A b \in Accepts : g[b] \in Int
      BY DueNext
    <2>3. \A b \in Accepts : b # a => g[b] = f[b]
      BY DueOfOthers
    <2> HIDE DEF f, g
    <2>4. QED
      BY <2>1, <2>2, <2>3
  <1>6. /\ funds[u] \in Nat /\ available[u] \in Nat /\ locked[u] \in Nat
        /\ funds'[u] \in Nat /\ available'[u] \in Nat /\ locked'[u] \in Nat
    BY DueFacts, DueNext
  <1>7. SumFunctionOnSet(Due(u), Accepts)' = SumFunctionOnSet(g, Accepts)
    OBVIOUS
  <1> HIDE DEF f, g
  <1>8. /\ SumFunctionOnSet(f, Accepts) \in Int
        /\ SumFunctionOnSet(g, Accepts) = SumFunctionOnSet(f, Accepts) + (g[a] - f[a])
    BY <1>5, SumChanges
  <1> DEFINE s == SumFunctionOnSet(f, Accepts)
             t == SumFunctionOnSet(g, Accepts)
  <1>9. f[a] \in Int /\ g[a] \in Int /\ s \in Int /\ t = s + (g[a] - f[a])
    BY <1>5, <1>8
  <1>10. funds[u] = available[u] + locked[u] + s
    BY <1>3
  <1> HIDE DEF s, t
  <1>11. funds'[u] = available'[u] + locked'[u] + t
    <2> DEFINE F == funds[u]        A == available[u]    L == locked[u]
               F2 == funds'[u]      A2 == available'[u]  L2 == locked'[u]
               d == f[a]            d2 == g[a]
    <2>1. /\ F \in Int /\ A \in Int /\ L \in Int /\ d \in Int /\ s \in Int
          /\ F2 \in Int /\ A2 \in Int /\ L2 \in Int /\ d2 \in Int
          /\ F = A + L + s /\ t = s + (d2 - d)
          /\ F2 + (A + (L + d)) = F + (A2 + (L2 + d2))
      BY <1>4, <1>6, <1>9, <1>10
    <2> HIDE DEF F, A, L, F2, A2, L2, d, d2
    <2>2. F2 = A2 + L2 + t
      BY <2>1
    <2>3. QED
      BY <2>2 DEF F2, A2, L2
  <1>12. QED
    BY <1>7, <1>11 DEF t

(* Money moves between balances, or leaves with what is available.         *)
LEMMA BooksSame ==
  ASSUME TypeOK, TypeOK', BooksMatch, UNCHANGED <<accept, executed, waived>>,
         \A u \in Users : funds'[u] + (available[u] + locked[u])
                            = funds[u] + (available'[u] + locked'[u])
  PROVE  BooksMatch'
  <1>1. SUFFICES ASSUME NEW u \in Users, Clear(u)'
                 PROVE  funds'[u] = available'[u] + locked'[u]
                                      + SumFunctionOnSet(Due(u), Accepts)'
    BY DEF BooksMatch
  <1>2. Clear(u)
    BY <1>1 DEF Clear, HalfDone, Parties, Indices, WriterOf, OfferOf
  <1> DEFINE f == Due(u)
             s == SumFunctionOnSet(f, Accepts)
  <1>3. SumFunctionOnSet(Due(u), Accepts)' = s
    <2> DEFINE g == Due(u)'
    <2>1. IsFiniteSet(Accepts) /\ \A x \in Accepts : f[x] \in Int /\ g[x] = f[x]
      BY DueFacts, DueSame, AcceptanceAssumption, SMTT(30)
    <2>2. SumFunctionOnSet(Due(u), Accepts)' = SumFunctionOnSet(g, Accepts)
      OBVIOUS
    <2> HIDE DEF f, g
    <2>3. SumFunctionOnSet(g, Accepts) = SumFunctionOnSet(f, Accepts)
      BY <2>1, SumOfEqual
    <2>4. QED
      BY <2>2, <2>3
  <1>4. s \in Int
    <2>1. IsFiniteSet(Accepts) /\ \A x \in Accepts : f[x] \in Int
      BY DueFacts, AcceptanceAssumption
    <2> HIDE DEF f
    <2>2. \A T \in SUBSET Accepts :
            /\ SumFunctionOnSet(f, T) \in Int
            /\ \A x \in T : SumFunctionOnSet(f, T) = f[x] + SumFunctionOnSet(f, T \ {x})
      BY <2>1, SumTakesAny
    <2>3. QED
      BY <2>2
  <1>5. funds[u] = available[u] + locked[u] + s
    BY <1>2 DEF BooksMatch
  <1> HIDE DEF s, f
  <1> DEFINE F == funds[u]        A == available[u]    L == locked[u]
             F2 == funds'[u]      A2 == available'[u]  L2 == locked'[u]
  <1>6. /\ F \in Int /\ A \in Int /\ L \in Int /\ s \in Int
        /\ F2 \in Int /\ A2 \in Int /\ L2 \in Int
        /\ F = A + L + s /\ F2 + (A + L) = F + (A2 + L2)
    BY <1>4, <1>5 DEF TypeOK
  <1> HIDE DEF F, A, L, F2, A2, L2
  <1>7. F2 = A2 + L2 + s
    BY <1>6
  <1>8. QED
    BY <1>3, <1>7 DEF F2, A2, L2

(* A request is accepted: its debit is due.                                *)
LEMMA AcceptBooks ==
  ASSUME TypeOK, TypeOK', CallsFit, BooksMatch, NEW a \in Accepts, NEW fee \in Fees,
         Accept(a, fee)
  PROVE  BooksMatch'
  <1> DEFINE e == [phase |-> "BuyerDebited", quoted |-> fee,
                   was |-> [i \in Indices(a) |-> offer[OfferOf(a, i)]]]
  <1>1. /\ accept' = [accept EXCEPT ![a] = e] /\ e.phase = "BuyerDebited" /\ e.quoted = fee
        /\ UNCHANGED <<waived, executed, funds>>
    BY DEF Accept, ledger
  <1>2. accept[a].phase = "None"
    BY DEF Accept, Prepared, Admitted
  <1> HIDE DEF e
  <1>3. accept'[a] = e /\ \A b \in Accepts \ {a} : accept'[b] = accept[b]
    BY <1>1, PendingAfter
  <1>4. Concerns(a)
    BY <1>1, <1>2, <1>3 DEF Concerns
  <1>5. a \notin Pending /\ (a \in Pending)'
    BY <1>1, <1>2, <1>3, PhaseSets
  <1>6. Made(a)' = {}
    <2>1. \A k \in DOMAIN Payees[a] : <<a, k>> \notin executed
      BY <1>2, PayeeNumbers DEF CallsFit, CallsOf
    <2>2. QED
      BY <1>1, <2>1 DEF Made
  <1>7. ASSUME NEW u \in Users
        PROVE  Balanced(a, u)
    <2> DEFINE d == IF u = Buyer[a] THEN Debit(a, fee) ELSE 0
               p == Pledges[a][u]
    <2>1. Owes(a, u)' = d
      BY <1>1, <1>3 DEF Owes
    <2>2. Came(a, u)' = 0 /\ Left(a, u)' = 0
      <3>1. accept'[a].quoted \in Nat
        BY DEF TypeOK, AcceptStates
      <3>2. QED
        BY <1>6, <3>1, SharesOfNoneNext
    <2>3. d \in Int /\ p \in Int
      <3>1. fee \in Nat
        BY AcceptanceAssumption
      <3>2. Debit(a, fee) \in Nat
        BY <3>1, DebitTypes
      <3>3. p \in Nat
        BY WriterTotals
      <3> HIDE DEF p
      <3>4. QED
        BY <3>2, <3>3
    <2>4. Due(u)[a] = 0 /\ Due(u)'[a] = d
      <3>1. Due(u)[a] = 0
        BY <1>5, DueFacts
      <3>2. Due(u)'[a] = (Owes(a, u)' + Came(a, u)') - Left(a, u)'
        BY <1>5, DueNext
      <3> HIDE DEF d
      <3>3. QED
        BY <2>1, <2>2, <2>3, <3>1, <3>2
    <2>5. available'[u] = (available[u] - p) - d /\ locked'[u] = locked[u] + p
          /\ funds'[u] = funds[u]
      BY <1>1 DEF Accept
    <2>6. available[u] \in Nat /\ locked[u] \in Nat /\ funds[u] \in Nat
      BY DueFacts
    <2> HIDE DEF d, p
    <2>7. QED
      BY <2>3, <2>4, <2>5, <2>6 DEF Balanced
  <1>8. QED
    BY <1>4, <1>7, BooksAfter

(* A request is refused: nothing is due.                                   *)
LEMMA RefusesBooks ==
  ASSUME TypeOK, TypeOK', BooksMatch, NEW a \in Accepts, Refuses(a)
  PROVE  BooksMatch'
  <1> DEFINE e == [accept[a] EXCEPT !.phase = "Refused"]
  <1>1. /\ accept' = [accept EXCEPT ![a] = e] /\ accept[a].phase = "None"
        /\ UNCHANGED <<waived, executed, funds, available, locked>>
    BY DEF Refuses, ledger, books
  <1> HIDE DEF e
  <1>2. \A b \in Accepts \ {a} : accept'[b] = accept[b]
    BY <1>1, PendingAfter
  <1>3. Concerns(a)
    BY <1>1, <1>2 DEF Concerns
  <1>4. a \notin Pending /\ ~(a \in Pending)'
    BY <1>1, RefusesBound, PhaseSets
  <1>5. \A u \in Users : Due(u)[a] = 0 /\ Due(u)'[a] = 0
    BY <1>4, DueFacts, DueNext
  <1>6. \A u \in Users : Balanced(a, u)
    BY <1>1, <1>5 DEF Balanced
  <1>7. QED
    BY <1>3, <1>6, BooksAfter

(* The ledger makes a transfer: what it moves is due, or the accept is     *)
(* left half-done.                                                         *)
LEMMA LedgerBooks ==
  ASSUME TypeOK, TypeOK', CallsFit, BooksMatch, NEW a \in Accepts,
         NEW k \in DOMAIN Payees[a], LedgerExecutes(a, k)
  PROVE  BooksMatch'
  <1> DEFINE payee == Payees[a][k]
             m == Amount(a, k)
             q == accept[a].quoted
             verdict == Verdict(<<a, k>> \in executed, age[a], q,
                                ledgerFee, funds[Buyer[a]], m)
  <1>1. /\ UNCHANGED <<accept, waived, available, locked>>
        /\ <<a, k>> \in net
    BY DEF LedgerExecutes, records, books
  <1>2. \/ /\ <<a, k>> \notin executed
           /\ executed' = executed \cup {<<a, k>>}
           /\ funds' = [u \in Users |-> (funds[u] + (IF u = payee THEN m ELSE 0))
                                          - (IF u = Buyer[a] THEN m + q ELSE 0)]
        \/ UNCHANGED <<executed, funds>>
    BY DEF LedgerExecutes, Verdict
  <1>3. CASE UNCHANGED <<executed, funds>>
    BY <1>1, <1>3, BooksSame
  <1>4. CASE /\ <<a, k>> \notin executed
             /\ executed' = executed \cup {<<a, k>>}
             /\ funds' = [u \in Users |-> (funds[u] + (IF u = payee THEN m ELSE 0))
                                            - (IF u = Buyer[a] THEN m + q ELSE 0)]
    <2>1. Concerns(a)
      BY <1>1, <1>4 DEF Concerns
    <2>2. k \in Nat /\ m \in Nat /\ q \in Nat
      BY PayeeNumbers, AmountTypes DEF TypeOK, AcceptStates
    <2>3. accept[a].phase \notin {"None", "Refused"}
      BY <1>1, <2>2 DEF CallsFit, CallsOf
    <2>4. accept[a].phase \in {"BuyerDebited", "Completed", "Failed"}
      BY <2>3 DEF TypeOK, AcceptStates
    <2>5. ASSUME NEW u \in Users, Clear(u)'
          PROVE  Balanced(a, u)
      <3>1. /\ funds[u] \in Nat /\ available[u] \in Nat /\ locked[u] \in Nat
            /\ Owes(a, u) \in Nat /\ Came(a, u) \in Nat /\ Left(a, u) \in Nat
        BY DueFacts
      <3> DEFINE c == IF u = payee THEN m ELSE 0
                 l == IF u = Buyer[a] THEN m + q ELSE 0
      <3>2. funds'[u] = (funds[u] + c) - l /\ c \in Int /\ l \in Int
        BY <1>4, <2>2
      <3>3. CASE accept[a].phase = "BuyerDebited"
        <4>1. a \in Pending /\ (a \in Pending)'
          BY <1>1, <3>3, PhaseSets
        <4>2. /\ Owes(a, u)' = Owes(a, u) /\ Came(a, u)' = Came(a, u) + c
              /\ Left(a, u)' = Left(a, u) + l
          BY <1>1, <1>4, <2>2, SharesGrow
        <4>3. /\ Due(u)[a] = (Owes(a, u) + Came(a, u)) - Left(a, u)
              /\ Due(u)'[a] = (Owes(a, u)' + Came(a, u)') - Left(a, u)'
          BY <4>1, DueFacts, DueNext
        <4> HIDE DEF c, l
        <4>4. Due(u)'[a] = (Due(u)[a] + c) - l /\ Due(u)[a] \in Int
          BY <3>1, <3>2, <4>2, <4>3
        <4>5. QED
          BY <1>1, <3>1, <3>2, <4>4 DEF Balanced
      <3>4. CASE accept[a].phase # "BuyerDebited"
        <4>1. Due(u)[a] = 0 /\ Due(u)'[a] = 0
          BY <1>1, <3>4, PhaseSets, DueFacts, DueNext
        <4>2. HalfDone(a)'
          <5>1. <<a, k>> \in executed'
            BY <1>4
          <5>2. accept'[a].phase = "Failed" \/ (a \in waived' /\ Payees[a][k] = Platform)
            <6>1. CASE accept[a].phase = "Failed"
              BY <1>1, <6>1
            <6>2. CASE accept[a].phase = "Completed"
              BY <1>1, <1>4, <6>2 DEF CallsFit, CallsOf, Sold
            <6>3. QED
              BY <2>4, <3>4, <6>1, <6>2
          <5>3. QED
            BY <5>1, <5>2 DEF HalfDone
        <4>3. u \notin Parties(a)
          BY <2>5, <4>2 DEF Clear, Parties, Indices, WriterOf, OfferOf
        <4>4. u # Buyer[a] /\ u \notin Writers(a)
          BY <4>3 DEF Parties, Writers
        <4>5. u # payee
          <5> DEFINE n == Len(Payees[a])
          <5>1. /\ DOMAIN Payees[a] = 1 .. n
                /\ \A j \in 1 .. n :
                     \/ Payees[a][j] \in Writers(a) /\ Payees[a][j] # Platform
                     \/ Payees[a][j] = Platform /\ j = n /\ Fee[a] > 0
            BY PayeeFacts
          <5>2. u # Platform
            BY Names DEF Platform
          <5> HIDE DEF n
          <5>3. QED
            BY <4>4, <5>1, <5>2
        <4>6. c = 0 /\ l = 0
          BY <4>4, <4>5
        <4> HIDE DEF c, l
        <4>7. QED
          BY <1>1, <3>1, <3>2, <4>1, <4>6 DEF Balanced
      <3>5. QED
        BY <3>3, <3>4
    <2>6. QED
      BY <2>1, <2>5, BooksAfter
  <1>5. QED
    BY <1>2, <1>3, <1>4

(* Options are created: the writers were paid what they earn, the buyer's  *)
(* debit is used up or the rest of it given back.                          *)
LEMMA SellsBooks ==
  ASSUME TypeOK, TypeOK', BooksMatch, NEW a \in Accepts, NEW c \in BOOLEAN, Sells(a, c)
  PROVE  BooksMatch'
  <1> DEFINE e == [NoAccept EXCEPT !.phase = "Completed"]
             q == accept[a].quoted
             n == Len(Payees[a])
             r(u) == IF u = Buyer[a] /\ ~c THEN Fee[a] + q ELSE 0
  <1>1. /\ accept' = [accept EXCEPT ![a] = e] /\ e.phase = "Completed"
        /\ waived' = IF c THEN waived ELSE waived \cup {a}
        /\ available' = [u \in Users |-> available[u] + Earns[a][u] + r(u)]
        /\ UNCHANGED <<executed, funds, locked>>
    BY DEF Sells, Finalize, NoAccept, ledger
  <1>2. /\ accept[a].phase = "BuyerDebited"
        /\ \A j \in 1 .. n - 1 : <<a, j>> \in executed
        /\ c => <<a, n>> \in executed
        /\ ~c => Payees[a][n] = Platform
    BY DEF Sells, Pending
  <1> HIDE DEF e
  <1>3. accept'[a] = e /\ \A b \in Accepts \ {a} : accept'[b] = accept[b]
    BY <1>1, PendingAfter
  <1>4. Concerns(a)
    BY <1>1, <1>2, <1>3 DEF Concerns
  <1>5. a \in Pending /\ ~(a \in Pending)'
    BY <1>1, <1>2, <1>3, PhaseSets
  <1>6. q \in Nat /\ Fee[a] \in Nat
    BY TotalTypes DEF TypeOK, AcceptStates
  <1>7. /\ n \in Nat /\ n >= 1 /\ DOMAIN Payees[a] = 1 .. n
        /\ \A k \in 1 .. n : k = n \/ k \in 1 .. n - 1
    <2>1. n \in Nat /\ n >= 1 /\ DOMAIN Payees[a] = 1 .. n
      BY PayeeFacts
    <2> HIDE DEF n
    <2>2. QED
      BY <2>1
  <1> HIDE DEF q, n
  <1>8. ASSUME NEW u \in Users
        PROVE  Came(a, u) = Earns[a][u]
    <2>1. \A k \in DOMAIN Payees[a] : Payees[a][k] # Platform => <<a, k>> \in executed
      BY <1>2, <1>7
    <2>2. QED
      BY <1>6, <2>1, WritersArePaid DEF q
  <1>9. ASSUME NEW u \in Users, Clear(u)'
        PROVE  Owes(a, u) = Left(a, u) + r(u)
    <2>1. CASE u # Buyer[a]
      <3>1. Owes(a, u) = 0 /\ r(u) = 0
        BY <2>1 DEF Owes
      <3>2. Left(a, u) = 0
        BY <1>6, <2>1, Shares DEF q
      <3>3. QED
        BY <3>1, <3>2
    <2>2. CASE u = Buyer[a]
      <3>1. Left(a, u) \in Nat /\ Owes(a, u) \in Nat
        BY DueFacts
      <3>2. /\ <<a, n>> \in executed => Left(a, u) = Owes(a, u)
            /\ <<a, n>> \notin executed /\ Payees[a][n] = Platform =>
                 Owes(a, u) = Left(a, u) + (Fee[a] + q)
        BY <1>2, <1>6, <2>2, DebitIsUsed DEF q, n
      <3>3. CASE c
        <4>1. r(u) = 0 /\ Left(a, u) = Owes(a, u)
          BY <1>2, <3>2, <3>3
        <4> HIDE DEF r
        <4>2. QED
          BY <3>1, <4>1
      <3>4. CASE ~c
        <4>1. <<a, n>> \notin executed
          <5>1. SUFFICES ASSUME <<a, n>> \in executed
                         PROVE  FALSE
            OBVIOUS
          <5>2. HalfDone(a)'
            BY <1>1, <1>2, <1>7, <3>4, <5>1 DEF HalfDone
          <5>3. ~HalfDone(a)'
            BY <1>9, <2>2 DEF Clear, Parties, Indices, WriterOf, OfferOf
          <5>4. QED
            BY <5>2, <5>3
        <4>2. r(u) = Fee[a] + q
          BY <2>2, <3>4
        <4> HIDE DEF r
        <4>3. QED
          BY <1>2, <3>2, <3>4, <4>1, <4>2
      <3>5. QED
        BY <3>3, <3>4
    <2>3. QED
      BY <2>1, <2>2
  <1>10. ASSUME NEW u \in Users, Clear(u)'
         PROVE  Balanced(a, u)
    <2>1. /\ funds[u] \in Nat /\ available[u] \in Nat /\ locked[u] \in Nat
          /\ Owes(a, u) \in Nat /\ Came(a, u) \in Nat /\ Left(a, u) \in Nat
      BY DueFacts
    <2>2. r(u) \in Int /\ available'[u] = (available[u] + Earns[a][u]) + r(u)
          /\ locked'[u] = locked[u] /\ funds'[u] = funds[u]
      BY <1>1, <1>6
    <2>3. /\ Due(u)[a] = (Owes(a, u) + Came(a, u)) - Left(a, u)
          /\ Due(u)'[a] = 0
      BY <1>5, DueFacts, DueNext
    <2>4. Came(a, u) = Earns[a][u] /\ Owes(a, u) = Left(a, u) + r(u)
      BY <1>8, <1>9, <1>10
    <2> HIDE DEF r
    <2>5. QED
      BY <2>1, <2>2, <2>3, <2>4 DEF Balanced
  <1>11. QED
    BY <1>4, <1>10, BooksAfter

(* An accept fails: where none of its transfers was made, its debit is all *)
(* that was due; where one was, it is left half-done.                      *)
LEMMA FailsBooks ==
  ASSUME TypeOK, TypeOK', CallsFit, BooksMatch, NEW a \in Accepts, Fails(a)
  PROVE  BooksMatch'
  <1> DEFINE e == [accept[a] EXCEPT !.phase = "Failed"]
             q == accept[a].quoted
             d(u) == IF u = Buyer[a] THEN Debit(a, q) ELSE 0
  <1>1. /\ accept' = [accept EXCEPT ![a] = e] /\ e.phase = "Failed"
        /\ locked' = [u \in Users |-> locked[u] - Unlocks(a, u)]
        /\ available' = [u \in Users |-> available[u] + Unlocks(a, u) + d(u)]
        /\ UNCHANGED <<executed, funds, waived>>
    BY DEF Fails, FailForGood, TypeOK, AcceptStates, ledger
  <1>2. accept[a].phase = "BuyerDebited"
    BY DEF Fails, Pending
  <1> HIDE DEF e
  <1>3. accept'[a] = e /\ \A b \in Accepts \ {a} : accept'[b] = accept[b]
    BY <1>1, PendingAfter
  <1>4. Concerns(a)
    BY <1>1, <1>2, <1>3 DEF Concerns
  <1>5. a \in Pending /\ ~(a \in Pending)'
    BY <1>1, <1>2, <1>3, PhaseSets
  <1>6. q \in Nat
    BY DEF TypeOK, AcceptStates
  <1>7. \A u \in Users : Owes(a, u) = d(u)
    BY DEF Owes
  <1>8. ASSUME NEW u \in Users, Clear(u)'
        PROVE  Came(a, u) = 0 /\ Left(a, u) = 0
    <2>1. CASE Made(a) = {}
      BY <1>6, <2>1, SharesOfNone
    <2>2. CASE Made(a) # {}
      <3>1. HalfDone(a)'
        BY <1>1, <1>3, <2>2 DEF HalfDone, Made
      <3>2. u \notin Parties(a)
        BY <1>8, <3>1 DEF Clear, Parties, Indices, WriterOf, OfferOf
      <3>3. QED
        BY <1>6, <3>2, SharesOfOthers
    <2>3. QED
      BY <2>1, <2>2
  <1>9. ASSUME NEW u \in Users, Clear(u)'
        PROVE  Balanced(a, u)
    <2> DEFINE k == Unlocks(a, u)
    <2>1. /\ funds[u] \in Nat /\ available[u] \in Nat /\ locked[u] \in Nat
          /\ Owes(a, u) \in Nat
      BY DueFacts
    <2>2. k \in Nat
      <3>1. Pledges[a][u] \in Nat
        BY WriterTotals
      <3>2. QED
        BY <3>1 DEF Unlocks
    <2>3. /\ available'[u] = (available[u] + k) + d(u)
          /\ locked'[u] = locked[u] - k /\ funds'[u] = funds[u]
      BY <1>1
    <2>4. /\ Due(u)[a] = (Owes(a, u) + Came(a, u)) - Left(a, u)
          /\ Due(u)'[a] = 0
      BY <1>5, DueFacts, DueNext
    <2>5. Came(a, u) = 0 /\ Left(a, u) = 0 /\ Owes(a, u) = d(u)
      BY <1>7, <1>8, <1>9
    <2> HIDE DEF d, k
    <2>6. Due(u)[a] = d(u) /\ d(u) \in Nat
      BY <2>1, <2>4, <2>5
    <2>7. QED
      BY <2>1, <2>2, <2>3, <2>4, <2>6 DEF Balanced
  <1>10. QED
    BY <1>4, <1>9, BooksAfter

(* The books match, whatever happens.                                      *)
LEMMA BooksStep ==
  ASSUME TypeOK, TypeOK', CallsFit, BooksMatch, Kind
  PROVE  BooksMatch'
  <1>0. \A u \in Users : /\ funds[u] \in Nat /\ available[u] \in Nat /\ locked[u] \in Nat
    BY DEF TypeOK
  <1>1. ASSUME NEW a \in Accepts, KindOf(a)
        PROVE  BooksMatch'
    <2>1. ASSUME NEW fee \in Fees, Accept(a, fee)
          PROVE  BooksMatch'
      BY <2>1, AcceptBooks
    <2>2. CASE Refuses(a)
      BY <2>2, RefusesBooks
    <2>3. ASSUME NEW k \in DOMAIN Payees[a], Goes(a, k)
          PROVE  BooksMatch'
      BY <2>3, BooksSame DEF Goes, Send, records, books
    <2>4. ASSUME NEW k \in DOMAIN Payees[a], LedgerExecutes(a, k)
          PROVE  BooksMatch'
      BY <2>4, LedgerBooks
    <2>5. ASSUME NEW c \in BOOLEAN, Sells(a, c)
          PROVE  BooksMatch'
      BY <2>5, SellsBooks
    <2>6. CASE Fails(a)
      BY <2>6, FailsBooks
    <2>7. CASE Rests(a)
      BY <2>7, BooksSame DEF Rests, ledger, books
    <2>8. CASE SettleWorthless(a)
      <3>1. /\ locked' = [u \in Users |-> locked[u] - Pledges[a][u]]
            /\ available' = [u \in Users |-> available[u] + Pledges[a][u]]
            /\ UNCHANGED <<accept, executed, waived, funds>>
        BY <2>8 DEF SettleWorthless, ledger
      <3>2. \A u \in Users : Pledges[a][u] \in Nat
        BY WriterTotals
      <3>3. \A u \in Users : funds'[u] + (available[u] + locked[u])
                               = funds[u] + (available'[u] + locked'[u])
        BY <1>0, <3>1, <3>2
      <3>4. QED
        BY <3>1, <3>3, BooksSame
    <2>9. QED
      BY <1>1, <2>1, <2>2, <2>3, <2>4, <2>5, <2>6, <2>7, <2>8 DEF KindOf
  <1>2. CASE UNCHANGED <<accept, executed, waived, funds, available, locked>>
    BY <1>2, BooksSame
  <1>3. ASSUME NEW v \in Users, Withdraw(v)
        PROVE  BooksMatch'
    <2>1. /\ available' = [available EXCEPT ![v] = 0]
          /\ funds' = [funds EXCEPT ![v] = funds[v] - available[v]]
          /\ UNCHANGED <<accept, executed, waived, locked>>
      BY <1>3 DEF Withdraw, records
    <2>2. available \in [Users -> Nat] /\ funds \in [Users -> Nat]
      BY DEF TypeOK
    <2>3. \A u \in Users : funds'[u] + (available[u] + locked[u])
                             = funds[u] + (available'[u] + locked'[u])
      BY <1>0, <2>1, <2>2
    <2>4. QED
      BY <2>1, <2>3, BooksSame
  <1>4. CASE UNCHANGED vars \/ FeeChange \/ \E o \in Offers : Marks(o)
    BY <1>2, <1>4 DEF vars, records, ledger, books, FeeChange, Marks
  <1>5. QED
    BY <1>1, <1>3, <1>4 DEF Kind

-----------------------------------------------------------------------------
(* The invariant holds of all reachable states.                            *)
LEMMA InitHolds == Init => IInv
  <1> SUFFICES ASSUME Init
               PROVE  IInv
    OBVIOUS
  <1>1. /\ \A a \in Accepts : accept[a].phase = "None"
        /\ Pending = {} /\ Sold = {}
    BY DEF Init, NoAccept, Pending, Sold
  <1>2. TypeOK
    <2>1. offer \in [Offers -> OfferStates]
      BY AcceptanceAssumption DEF Init, OfferStates
    <2>2. NoAccept \in AcceptStates
      <3>1. <<>> \in Seq(OfferStates)
        OBVIOUS
      <3>2. QED
        BY <3>1 DEF NoAccept, AcceptStates
    <2>3. accept \in [Accepts -> AcceptStates]
      BY <2>2 DEF Init
    <2>4. available \in [Users -> Nat] /\ funds \in [Users -> Nat] /\ earned \in Nat
          /\ locked \in [Users -> Nat] /\ ledgerFee \in Fees
      BY AcceptanceAssumption DEF Init
    <2>5. age \in [Accepts -> Ages]
      BY DEF Init, Ages, Young, Expired
    <2>6. QED
      BY <2>1, <2>3, <2>4, <2>5 DEF Init, TypeOK, Resumable
  <1>3. RecordsAgree
    <2>1. RowsFit
      BY <1>1 DEF Init, RowsFit, Resumable
    <2>2. ProcessingHeld
      BY <1>1 DEF Init, ProcessingHeld
    <2>3. QED
      BY <2>1, <2>2, RecordsParts
  <1>4. HeldOnce /\ OffersFit
    <2>1. \A o \in Offers : Total[o] \in Nat
      BY AcceptanceAssumption
    <2>2. \A o \in Offers : offer[o].remaining = Total[o]
      BY DEF Init
    <2>3. QED
      BY <1>1, <2>1, <2>2 DEF HeldOnce, OffersFit
  <1>5. CallsFit
    BY <1>1 DEF Init, CallsFit, CallsOf
  <1>6. ASSUME NEW f, \A a \in Accepts : f[a] = 0
        PROVE  SumFunctionOnSet(f, Accepts) = 0
    <2>1. IsFiniteSet(Accepts) /\ {} \in SUBSET Accepts
          /\ (\A a \in Accepts : f[a] \in Int) /\ \A a \in Accepts \ {} : f[a] = 0
      BY <1>6, AcceptanceAssumption
    <2>2. SumFunctionOnSet(f, Accepts) = SumFunctionOnSet(f, {})
      BY <2>1, SumOfPart
    <2>3. QED
      BY <2>2, SumOfNone
  <1>7. Covers
    <2>1. ASSUME NEW u \in Users
          PROVE  SumFunctionOnSet(Need(u), Accepts) = 0
      <3>1. \A a \in Accepts : Need(u)[a] = 0
        BY <1>1 DEF Need
      <3>2. QED
        BY <1>6, <3>1
    <2>2. QED
      BY <2>1 DEF Init, Covers
  <1>8. BooksMatch
    <2>1. ASSUME NEW u \in Users
          PROVE  SumFunctionOnSet(Due(u), Accepts) = 0
      <3>1. \A a \in Accepts : Due(u)[a] = 0
        BY <1>1 DEF Due
      <3>2. QED
        BY <1>6, <3>1
    <2>2. \A u \in Users : funds[u] = available[u] /\ locked[u] = 0 /\ available[u] \in Nat
      BY AcceptanceAssumption DEF Init
    <2>3. QED
      BY <2>1, <2>2 DEF BooksMatch
  <1>9. QED
    BY <1>2, <1>3, <1>4, <1>5, <1>7, <1>8 DEF IInv

(* Every step preserves it.                                                *)
LEMMA StepHolds == IInv /\ [Next]_vars => IInv'
  <1> SUFFICES ASSUME IInv, [Next]_vars
               PROVE  IInv'
    OBVIOUS
  <1>1. TypeOK /\ RecordsAgree /\ CallsFit /\ Covers /\ BooksMatch
    BY DEF IInv
  <1>2. RowsFit /\ OffersInv
    BY <1>1, RecordsParts DEF IInv, OffersInv
  <1>3. Kind
    BY <1>1, StepKinds
  <1>4. TypeOK'
    BY <1>1, <1>2, <1>3, TypeStep
  <1>5. RowsFit' /\ OffersInv' /\ CallsFit' /\ Covers'
    BY <1>1, <1>2, <1>3, RowsStep, OffersStep, CallsStep, CoversStep
  <1>6. BooksMatch'
    BY <1>1, <1>3, <1>4, BooksStep
  <1>7. RecordsAgree'
    BY <1>5, RecordsPartsNext DEF OffersInv
  <1>8. QED
    BY <1>4, <1>5, <1>6, <1>7 DEF IInv, OffersInv

(* IInv is an inductive invariant: of it follow the properties below.      *)
THEOREM Inductive == Spec => []IInv
  BY InitHolds, StepHolds, PTL DEF Spec

(* The types of all variables, whatever requests are made: no balance of   *)
(* the canister or of the ledger becomes negative, no refund, unlocking or *)
(* transfer takes more than is there.                                      *)
THEOREM TypeCorrect == Spec => []TypeOK
  <1>1. IInv => TypeOK
    BY DEF IInv
  <1>2. QED
    BY <1>1, Inductive, PTL

(* After every message a row can run exactly while its entry in the        *)
(* journal is unfinished, and an offer is Processing exactly while one     *)
(* unfinished entry holds it.                                              *)
THEOREM RecordsAlwaysAgree == Spec => []RecordsAgree
  <1>1. IInv => RecordsAgree
    BY DEF IInv
  <1>2. QED
    BY <1>1, Inductive, PTL

(* What is locked of a writer is what his options need, of accepts under   *)
(* way and of sales that are not settled: no crash, refund or failure      *)
(* leaves an option uncovered, or collateral locked for nothing.           *)
THEOREM EveryOptionStaysCovered == Spec => []EveryOptionIsCovered
  <1>1. ASSUME TypeOK, Covers
        PROVE  EveryOptionIsCovered
    <2>1. SUFFICES ASSUME NEW u \in Users
                   PROVE  locked[u] = SumOver(Pending \cup (Sold \ closed),
                                              LAMBDA a : Pledges[a][u])
      BY DEF EveryOptionIsCovered
    <2> DEFINE B == Pending \cup (Sold \ closed)
               f == Need(u)
               g == [a \in B |-> Pledges[a][u]]
    <2>2. IsFiniteSet(Accepts) /\ B \in SUBSET Accepts
      BY AcceptanceAssumption DEF Pending, Sold
    <2>3. IsFiniteSet(B)
      BY <2>2, FS_Subset
    <2>4. \A a \in Accepts : f[a] \in Int
      BY <1>1, NeedFacts
    <2>5. \A a \in Accepts \ B : f[a] = 0
      BY DEF Need
    <2>6. \A a \in B : f[a] \in Int /\ g[a] = f[a]
      BY <2>2, <2>4 DEF Need
    <2>7. locked[u] = SumFunctionOnSet(f, Accepts)
      BY <1>1 DEF Covers
    <2>8. SumOver(B, LAMBDA a : Pledges[a][u]) = SumFunctionOnSet(g, B)
      BY DEF SumOver
    <2> HIDE DEF B, f, g
    <2>9. SumFunctionOnSet(f, Accepts) = SumFunctionOnSet(f, B)
      BY <2>2, <2>4, <2>5, SumOfPart
    <2>10. SumFunctionOnSet(g, B) = SumFunctionOnSet(f, B)
      BY <2>3, <2>6, SumOfEqual
    <2>11. QED
      BY <2>7, <2>8, <2>9, <2>10 DEF B
  <1>2. IInv => EveryOptionIsCovered
    BY <1>1 DEF IInv
  <1>3. QED
    BY <1>2, Inductive, PTL

(* What the canister keeps for a user is what the ledger holds for him,    *)
(* but for what accepts under way have debited or transferred, unless one  *)
(* he took part in was left half-done.                                     *)
THEOREM BooksAlwaysMatch == Spec => []BooksMatchLedger
  <1>1. ASSUME TypeOK, BooksMatch
        PROVE  BooksMatchLedger
    <2>1. SUFFICES ASSUME NEW u \in Users, Clear(u)
                   PROVE  funds[u] + SumOver(Pending, LAMBDA a : Left(a, u))
                            = available[u] + locked[u]
                                + SumOver(Pending, LAMBDA a : Owes(a, u) + Came(a, u))
      BY DEF BooksMatchLedger, Clear
    <2> DEFINE P == Pending
               f == Due(u)
               g == [a \in P |-> Left(a, u)]
               h == [a \in P |-> Owes(a, u) + Came(a, u)]
    <2>2. IsFiniteSet(Accepts) /\ P \in SUBSET Accepts
      BY AcceptanceAssumption DEF Pending
    <2>3. IsFiniteSet(P)
      BY <2>2, FS_Subset
    <2>4. \A a \in Accepts : f[a] \in Int
      BY <1>1, DueFacts
    <2>5. \A a \in Accepts \ P : f[a] = 0
      BY DEF Due
    <2>6. \A a \in P : f[a] \in Int /\ g[a] \in Int /\ h[a] = f[a] + g[a] /\ g[a] \in Nat
      <3>1. ASSUME NEW a \in P
            PROVE  /\ f[a] = (Owes(a, u) + Came(a, u)) - Left(a, u)
                   /\ Owes(a, u) \in Nat /\ Came(a, u) \in Nat /\ Left(a, u) \in Nat
        BY <1>1, <2>2, DueFacts
      <3>2. QED
        BY <3>1
    <2>7. funds[u] = available[u] + locked[u] + SumFunctionOnSet(f, Accepts)
      BY <1>1, <2>1 DEF BooksMatch
    <2>8. /\ SumOver(P, LAMBDA a : Left(a, u)) = SumFunctionOnSet(g, P)
          /\ SumOver(P, LAMBDA a : Owes(a, u) + Came(a, u)) = SumFunctionOnSet(h, P)
      BY DEF SumOver
    <2>9. available[u] \in Nat /\ locked[u] \in Nat
      BY <1>1 DEF TypeOK
    <2> HIDE DEF P, f, g, h
    <2>10. SumFunctionOnSet(f, Accepts) = SumFunctionOnSet(f, P)
      BY <2>2, <2>4, <2>5, SumOfPart
    <2>11. SumFunctionOnSet(h, P) = SumFunctionOnSet(f, P) + SumFunctionOnSet(g, P)
      BY <2>3, <2>6, SumOfBoth
    <2>12. SumFunctionOnSet(g, P) \in Nat
      BY <2>3, <2>6, SumOfAmounts
    <2>13. SumFunctionOnSet(f, P) \in Int
      <3>1. IsFiniteSet(P) /\ \A x \in P : f[x] \in Int
        BY <2>3, <2>6
      <3>2. \A T \in SUBSET P :
              /\ SumFunctionOnSet(f, T) \in Int
              /\ \A x \in T : SumFunctionOnSet(f, T) = f[x] + SumFunctionOnSet(f, T \ {x})
        BY <3>1, SumTakesAny
      <3>3. QED
        BY <3>2
    <2> DEFINE s == SumFunctionOnSet(f, P)
               t == SumFunctionOnSet(g, P)
    <2>14. /\ s \in Int /\ t \in Int /\ SumFunctionOnSet(h, P) = s + t
           /\ funds[u] = available[u] + locked[u] + s
      BY <2>7, <2>10, <2>11, <2>12, <2>13
    <2> HIDE DEF s
    <2>15. funds[u] + t = available[u] + locked[u] + SumFunctionOnSet(h, P)
      <3> HIDE DEF t
      <3>1. QED
        BY <2>9, <2>14
    <2>16. QED
      BY <2>8, <2>15 DEF P, t
  <1>2. IInv => BooksMatchLedger
    BY <1>1 DEF IInv
  <1>3. QED
    BY <1>2, Inductive, PTL

-----------------------------------------------------------------------------
(* Accepts keep the promise of Sale, where no request names an offer twice *)
(* (one that does takes more than is left of it, and gives back too much). *)
NamedOnce ==
  \A a \in Accepts : \A i, j \in Indices(a) : OfferOf(a, i) = OfferOf(a, j) => i = j

(* A request takes of an offer what its one item says.                     *)
LEMMA TakesItsItem ==
  ASSUME NamedOnce, NEW a \in Accepts, NEW i \in Indices(a)
  PROVE  Taken[a][OfferOf(a, i)] = Quantity(a, i)
  <1> DEFINE o == OfferOf(a, i)
             S == {j \in Indices(a) : OfferOf(a, j) = o}
             q == [j \in S |-> Quantity(a, j)]
  <1>1. o \in Offers /\ Quantity(a, i) \in Nat
    BY ItemTypes
  <1>2. Taken[a][o] = SumFunctionOnSet(q, S)
    BY <1>1 DEF Taken, SumOver
  <1>3. S = {i}
    BY DEF NamedOnce
  <1>4. q[i] = Quantity(a, i)
    OBVIOUS
  <1> HIDE DEF S, q, o
  <1>5. SumFunctionOnSet(q, {i}) = q[i]
    BY <1>1, <1>4, SumOfOne
  <1>6. QED
    BY <1>2, <1>3, <1>4, <1>5 DEF o

(* What an accept holds of an offer is what the offer lacks.               *)
Stock ==
  \A a \in Pending : \A o \in Offers : Holds(a, o) =>
    Restored(a, o).remaining = offer[o].remaining + Taken[a][o]

(* Nothing is taken of or put back to an offer that is held.               *)
LEMMA StockKept ==
  ASSUME Stock, Pending' \subseteq Pending,
         \A b \in Pending' : /\ accept'[b] = accept[b]
                             /\ \A o \in Offers : Holds(b, o) =>
                                  offer'[o].remaining = offer[o].remaining
  PROVE  Stock'
  <1>1. ASSUME NEW b \in Pending', NEW o \in Offers, Holds(b, o)
        PROVE  Restored(b, o)'.remaining = offer'[o].remaining + Taken[b][o]
    <2>1. accept'[b] = accept[b] /\ offer'[o].remaining = offer[o].remaining
      BY <1>1
    <2>2. Restored(b, o)' = Restored(b, o)
      BY <2>1 DEF Restored, Indices, OfferOf
    <2>3. Restored(b, o).remaining = offer[o].remaining + Taken[b][o]
      BY <1>1 DEF Stock
    <2>4. QED
      BY <2>1, <2>2, <2>3
  <1>2. QED
    BY <1>1 DEF Stock, Holds, Indices, OfferOf

(* An accept takes of its offers what it holds.                            *)
LEMMA AcceptTakes ==
  ASSUME NamedOnce, TypeOK, OffersInv, NEW a \in Accepts, NEW fee \in Fees, Accept(a, fee)
  PROVE  /\ \A o \in Offers : Taken[a][o] \in Nat /\ offer[o].remaining \in Nat
         /\ \A o \in Offers : offer'[o].remaining = offer[o].remaining - Taken[a][o]
         /\ \A o \in Offers : Holds(a, o) =>
              /\ Taken[a][o] <= offer[o].remaining
              /\ ~ \E b \in Pending : Holds(b, o)
  <1>1. \A i \in Indices(a) : Valid(a, i)
    BY DEF Accept, Prepared
  <1>2. \A o \in Offers : offer[o].remaining \in Nat
                          /\ Taken[a][o] \in Nat /\ (Taken[a][o] > 0 <=> Holds(a, o))
    BY HoldsWhatItTakes DEF TypeOK, OfferStates
  <1>3. ASSUME NEW o \in Offers, Holds(a, o)
        PROVE  /\ Taken[a][o] <= offer[o].remaining
               /\ ~ \E b \in Pending : Holds(b, o)
    <2>1. PICK i \in Indices(a) : OfferOf(a, i) = o
      BY <1>3 DEF Holds
    <2>2. Quantity(a, i) <= offer[o].remaining /\ offer[o].status \in Acceptable
      BY <1>1, <2>1 DEF Valid
    <2>3. Taken[a][o] = Quantity(a, i)
      BY <2>1, TakesItsItem
    <2>4. ~ \E b \in Pending : Holds(b, o)
      BY <2>2 DEF OffersInv, ProcessingHeld, Acceptable
    <2>5. QED
      BY <2>2, <2>3, <2>4
  <1>4. \A o \in Offers : offer'[o] = IF Taken[a][o] > 0 THEN Reserved(a, o) ELSE offer[o]
    BY DEF Accept
  <1>5. \A o \in Offers : Reserved(a, o).remaining =
          IF offer[o].remaining < Taken[a][o] THEN 0 ELSE offer[o].remaining - Taken[a][o]
    BY DEF Reserved
  <1>6. ASSUME NEW o \in Offers
        PROVE  offer'[o].remaining = offer[o].remaining - Taken[a][o]
    <2>1. CASE Taken[a][o] > 0
      BY <1>2, <1>3, <1>4, <1>5, <2>1
    <2>2. CASE ~(Taken[a][o] > 0)
      BY <1>2, <1>4, <2>2
    <2>3. QED
      BY <2>1, <2>2
  <1>7. QED
    BY <1>2, <1>3, <1>6

(* The same for the stock.                                                 *)
LEMMA AcceptStock ==
  ASSUME NamedOnce, TypeOK, OffersInv, Stock,
         NEW a \in Accepts, NEW fee \in Fees, Accept(a, fee)
  PROVE  Stock'
  <1> DEFINE e == [phase |-> "BuyerDebited", quoted |-> fee,
                   was |-> [i \in Indices(a) |-> offer[OfferOf(a, i)]]]
  <1>1. accept' = [accept EXCEPT ![a] = e] /\ e.phase = "BuyerDebited"
        /\ e.was = [i \in Indices(a) |-> offer[OfferOf(a, i)]]
    BY DEF Accept
  <1> HIDE DEF e
  <1>2. /\ accept'[a] = e /\ \A b \in Accepts \ {a} : accept'[b] = accept[b]
        /\ Pending' = Pending \cup {a}
    BY <1>1, PendingAfter
  <1>3. /\ \A o \in Offers : Taken[a][o] \in Nat /\ offer[o].remaining \in Nat
        /\ \A o \in Offers : offer'[o].remaining = offer[o].remaining - Taken[a][o]
        /\ \A o \in Offers : Holds(a, o) => ~ \E b \in Pending : Holds(b, o)
    BY AcceptTakes
  <1>4. ASSUME NEW o \in Offers, Holds(a, o)
        PROVE  Restored(a, o)'.remaining = offer'[o].remaining + Taken[a][o]
    <2> DEFINE i == CHOOSE j \in Indices(a) : OfferOf(a, j) = o
    <2>1. i \in Indices(a) /\ OfferOf(a, i) = o
      <3>1. \E j \in Indices(a) : OfferOf(a, j) = o
        BY <1>4 DEF Holds
      <3>2. QED
        BY <3>1, Zenon
    <2>2. Restored(a, o)' = accept'[a].was[i]
      BY DEF Restored, Indices, OfferOf
    <2> HIDE DEF i
    <2>3. Restored(a, o)' = offer[o]
      BY <1>1, <1>2, <2>1, <2>2
    <2>4. QED
      BY <1>3, <2>3
  <1>5. ASSUME NEW b \in Pending, b # a, NEW o \in Offers, Holds(b, o)
        PROVE  Restored(b, o)'.remaining = offer'[o].remaining + Taken[b][o]
    <2>1. accept'[b] = accept[b]
      BY <1>2, <1>5 DEF Pending
    <2>2. ~Holds(a, o)
      BY <1>3, <1>5
    <2>3. Taken[a][o] = 0
      BY <2>2, HoldsWhatItTakes
    <2>4. offer'[o].remaining = offer[o].remaining
      BY <1>3, <2>3
    <2>5. Restored(b, o)' = Restored(b, o)
      BY <2>1 DEF Restored, Indices, OfferOf
    <2>6. QED
      BY <1>5, <2>4, <2>5 DEF Stock
  <1>6. QED
    BY <1>2, <1>4, <1>5 DEF Stock, Holds, Indices, OfferOf

(* Of a sale, and of a failure: what happens to what is left.              *)
LEMMA SellsLeaves ==
  ASSUME TypeOK, NEW a \in Accepts, NEW c \in BOOLEAN, Sells(a, c)
  PROVE  \A o \in Offers : offer'[o].remaining = offer[o].remaining
  <1>1. \A o \in Offers : offer'[o] =
          IF Taken[a][o] = 0 THEN offer[o]
          ELSE [offer[o] EXCEPT !.status =
                  IF offer[o].remaining = 0 THEN "Filled" ELSE "PartiallyFilled"]
    BY DEF Sells, Finalize
  <1>2. \A o \in Offers : \A s \in {"Filled", "PartiallyFilled"} :
          [offer[o] EXCEPT !.status = s].remaining = offer[o].remaining
    BY DEF TypeOK, OfferStates
  <1>3. ASSUME NEW o \in Offers
        PROVE  offer'[o].remaining = offer[o].remaining
    <2>1. CASE Taken[a][o] = 0
      BY <1>1, <2>1
    <2>2. CASE Taken[a][o] # 0 /\ offer[o].remaining = 0
      BY <1>1, <1>2, <2>2
    <2>3. CASE Taken[a][o] # 0 /\ offer[o].remaining # 0
      BY <1>1, <1>2, <2>3
    <2>4. QED
      BY <2>1, <2>2, <2>3
  <1>4. QED
    BY <1>3

(* What a failed accept held is put back.                                  *)
LEMMA FailsRestores ==
  ASSUME TypeOK, Stock, NEW a \in Accepts, Fails(a)
  PROVE  /\ \A o \in Offers : offer'[o].remaining = offer[o].remaining + Taken[a][o]
         /\ \A o \in Offers : ~Holds(a, o) => offer'[o] = offer[o]
  <1>1. a \in Pending
    BY DEF Fails
  <1>2. \A o \in Offers : Taken[a][o] \in Nat /\ (Taken[a][o] > 0 <=> Holds(a, o))
                          /\ offer[o].remaining \in Nat
    BY HoldsWhatItTakes DEF TypeOK, OfferStates
  <1>3. \A o \in Offers : offer'[o] = IF Taken[a][o] > 0 THEN Restored(a, o) ELSE offer[o]
    BY DEF Fails, FailForGood
  <1>4. \A o \in Offers : Holds(a, o) =>
          Restored(a, o).remaining = offer[o].remaining + Taken[a][o]
    BY <1>1 DEF Stock
  <1>5. QED
    BY <1>2, <1>3, <1>4

(* Held parts stay what is lacking, whatever happens.                      *)
LEMMA StockStep ==
  ASSUME NamedOnce, TypeOK, OffersInv, Stock, Kind
  PROVE  Stock'
  <1>1. ASSUME NEW a \in Accepts, KindOf(a)
        PROVE  Stock'
    <2>1. ASSUME NEW fee \in Fees, Accept(a, fee)
          PROVE  Stock'
      BY <2>1, AcceptStock
    <2>2. CASE Refuses(a)
      <3>1. Pending' = Pending /\ a \notin Pending /\ offer' = offer
        BY <2>2, RefusesBound DEF Refuses, Pending
      <3>2. \A b \in Pending : accept'[b] = accept[b]
        BY <2>2, <3>1 DEF Refuses, Pending, TypeOK
      <3>3. QED
        BY <3>1, <3>2, StockKept
    <2>3. CASE \E k \in DOMAIN Payees[a] : Goes(a, k) \/ LedgerExecutes(a, k)
      <3>1. UNCHANGED <<accept, offer>>
        BY <2>3 DEF Goes, Send, LedgerExecutes, records
      <3>2. QED
        BY <3>1, StockKept DEF Pending
    <2>4. ASSUME NEW c \in BOOLEAN, Sells(a, c)
          PROVE  Stock'
      <3> DEFINE e == [NoAccept EXCEPT !.phase = "Completed"]
      <3>1. accept' = [accept EXCEPT ![a] = e] /\ e.phase # "BuyerDebited"
        BY <2>4 DEF Sells, Finalize, NoAccept
      <3> HIDE DEF e
      <3>2. /\ Pending' = Pending \ {a}
            /\ \A b \in Accepts \ {a} : accept'[b] = accept[b]
        BY <3>1, PendingAfter
      <3>3. \A b \in Pending' : accept'[b] = accept[b]
        BY <3>2 DEF Pending
      <3>4. QED
        BY <2>4, <3>2, <3>3, SellsLeaves, StockKept
    <2>5. CASE Fails(a)
      <3> DEFINE e == [accept[a] EXCEPT !.phase = "Failed"]
      <3>1. /\ accept' = [accept EXCEPT ![a] = e] /\ e.phase # "BuyerDebited"
            /\ a \in Pending
        BY <2>5 DEF Fails, FailForGood, TypeOK, AcceptStates
      <3> HIDE DEF e
      <3>2. /\ Pending' = Pending \ {a}
            /\ \A b \in Accepts \ {a} : accept'[b] = accept[b]
        BY <3>1, PendingAfter
      <3>3. \A b \in Pending' : /\ accept'[b] = accept[b]
                                /\ \A o \in Offers : Holds(b, o) => ~Holds(a, o)
        BY <3>1, <3>2 DEF Pending, OffersInv, HeldOnce
      <3>4. \A o \in Offers : ~Holds(a, o) => offer'[o] = offer[o]
        BY <2>5, FailsRestores
      <3>5. QED
        BY <3>2, <3>3, <3>4, StockKept
    <2>6. CASE Rests(a) \/ SettleWorthless(a)
      <3>1. UNCHANGED <<accept, offer>>
        BY <2>6 DEF Rests, SettleWorthless
      <3>2. QED
        BY <3>1, StockKept DEF Pending
    <2>7. QED
      BY <1>1, <2>1, <2>2, <2>3, <2>4, <2>5, <2>6 DEF KindOf
  <1>2. CASE UNCHANGED <<accept, offer>>
    BY <1>2, StockKept DEF Pending
  <1>3. ASSUME NEW o \in Offers, Marks(o)
        PROVE  Stock'
    <2>1. accept' = accept /\ \A p \in Offers : offer'[p].remaining = offer[p].remaining
      BY <1>3 DEF Marks
    <2>2. QED
      BY <2>1, StockKept DEF Pending
  <1>4. QED
    BY <1>1, <1>2, <1>3 DEF Kind, vars, records, FeeChange, Withdraw

stageOf == [a \in Accepts |-> StageOf(a)]
leftOf == [o \in Offers |-> offer[o].remaining]


(* The stage of a request is that of its entry.                            *)
LEMMA StageFacts ==
  ASSUME NEW a \in Accepts
  PROVE  /\ stageOf[a] = StageOf(a)
         /\ stageOf[a] = "held" <=> a \in Pending
         /\ accept[a].phase = "None" => stageOf[a] = "open"
  BY DEF stageOf, StageOf, Pending

(* One request moves on, to the stage of its new entry.                    *)
LEMMA StageMoves ==
  ASSUME TypeOK, NEW a \in Accepts, NEW e, accept' = [accept EXCEPT ![a] = e]
  PROVE  /\ e.phase = "BuyerDebited" => stageOf' = [stageOf EXCEPT ![a] = "held"]
         /\ e.phase = "Completed" => stageOf' = [stageOf EXCEPT ![a] = "sold"]
         /\ e.phase = "Failed" => stageOf' = [stageOf EXCEPT ![a] = "returned"]
         /\ e.phase \in {"None", "Refused"} => stageOf' = [stageOf EXCEPT ![a] = "open"]
  <1>1. accept'[a] = e /\ \A b \in Accepts \ {a} : accept'[b] = accept[b]
    BY PendingAfter
  <1>2. \A b \in Accepts \ {a} : StageOf(b)' = StageOf(b)
    BY <1>1 DEF StageOf
  <1>3. stageOf' = [stageOf EXCEPT ![a] = StageOf(a)']
    BY <1>2 DEF stageOf
  <1>4. /\ e.phase = "BuyerDebited" => StageOf(a)' = "held"
        /\ e.phase = "Completed" => StageOf(a)' = "sold"
        /\ e.phase = "Failed" => StageOf(a)' = "returned"
        /\ e.phase \in {"None", "Refused"} => StageOf(a)' = "open"
    BY <1>1 DEF StageOf
  <1>5. QED
    BY <1>3, <1>4

(* To accept is to hold.                                                   *)
LEMMA AcceptIsHold ==
  ASSUME NamedOnce, TypeOK, OffersInv, NEW a \in Accepts, NEW fee \in Fees, Accept(a, fee)
  PROVE  Promise!Hold(a)
  <1> DEFINE e == [phase |-> "BuyerDebited", quoted |-> fee,
                   was |-> [i \in Indices(a) |-> offer[OfferOf(a, i)]]]
  <1>1. accept' = [accept EXCEPT ![a] = e] /\ e.phase = "BuyerDebited"
    BY DEF Accept
  <1> HIDE DEF e
  <1>2. stageOf' = [stageOf EXCEPT ![a] = "held"]
    BY <1>1, StageMoves
  <1>3. stageOf[a] = "open"
    BY StageFacts DEF Accept, Prepared, Admitted
  <1>4. /\ \A o \in Offers : Taken[a][o] \in Nat /\ offer[o].remaining \in Nat
        /\ \A o \in Offers : offer'[o].remaining = offer[o].remaining - Taken[a][o]
        /\ \A o \in Offers : Holds(a, o) =>
             /\ Taken[a][o] <= offer[o].remaining
             /\ ~ \E b \in Pending : Holds(b, o)
    BY AcceptTakes
  <1>5. \A o \in Offers : leftOf[o] = offer[o].remaining
    BY DEF leftOf
  <1>6. leftOf' = [o \in Offers |-> leftOf[o] - Taken[a][o]]
    BY <1>4, <1>5 DEF leftOf
  <1>7. ASSUME NEW o \in Offers, Taken[a][o] > 0
        PROVE  /\ {b \in Accepts : stageOf[b] = "held" /\ o \in {p \in Offers : Taken[b][p] > 0}}
                    = {}
               /\ Taken[a][o] <= leftOf[o]
    <2>1. Holds(a, o)
      BY <1>7, HoldsWhatItTakes
    <2>2. \A b \in Accepts : ~(stageOf[b] = "held" /\ Taken[b][o] > 0)
      BY <1>4, <2>1, StageFacts, HoldsWhatItTakes
    <2>3. QED
      BY <1>4, <1>5, <2>1, <2>2
  <1>8. \A o \in {p \in Offers : Taken[a][p] > 0} :
          /\ {b \in Accepts : stageOf[b] = "held" /\ o \in {p \in Offers : Taken[b][p] > 0}}
               = {}
          /\ Taken[a][o] <= leftOf[o]
    BY <1>7
  <1>9. QED
    BY <1>2, <1>3, <1>6, <1>8, Zenon
       DEF Promise!Hold, Promise!Takes, Promise!Holders, stageOf, leftOf

(* To complete an accept is to sell.                                       *)
LEMMA SellsIsSell ==
  ASSUME TypeOK, NEW a \in Accepts, NEW c \in BOOLEAN, Sells(a, c)
  PROVE  Promise!Sell(a)
  <1> DEFINE e == [NoAccept EXCEPT !.phase = "Completed"]
  <1>1. accept' = [accept EXCEPT ![a] = e] /\ e.phase = "Completed" /\ a \in Pending
    BY DEF Sells, Finalize, NoAccept
  <1> HIDE DEF e
  <1>2. stageOf' = [stageOf EXCEPT ![a] = "sold"] /\ stageOf[a] = "held"
    BY <1>1, StageMoves, StageFacts
  <1>3. leftOf' = leftOf
    BY SellsLeaves DEF leftOf
  <1>4. QED
    BY <1>2, <1>3, Zenon DEF Promise!Sell, stageOf, leftOf

(* To fail for good is to return.                                          *)
LEMMA FailsIsReturn ==
  ASSUME TypeOK, Stock, NEW a \in Accepts, Fails(a)
  PROVE  Promise!Return(a)
  <1> DEFINE e == [accept[a] EXCEPT !.phase = "Failed"]
  <1>1. accept' = [accept EXCEPT ![a] = e] /\ e.phase = "Failed" /\ a \in Pending
    BY DEF Fails, FailForGood, TypeOK, AcceptStates
  <1> HIDE DEF e
  <1>2. stageOf' = [stageOf EXCEPT ![a] = "returned"] /\ stageOf[a] = "held"
    BY <1>1, StageMoves, StageFacts
  <1>3. \A o \in Offers : offer'[o].remaining = offer[o].remaining + Taken[a][o]
    BY FailsRestores
  <1>4. leftOf' = [o \in Offers |-> leftOf[o] + Taken[a][o]]
    BY <1>3 DEF leftOf
  <1>5. QED
    BY <1>2, <1>4, Zenon DEF Promise!Return, stageOf, leftOf

(* Other steps leave the state of Sale alone.                              *)
LEMMA SaleStays ==
  ASSUME \A a \in Accepts : StageOf(a)' = StageOf(a),
         \A o \in Offers : offer'[o].remaining = offer[o].remaining
  PROVE  UNCHANGED Promise!vars
  <1>1. stageOf' = stageOf /\ leftOf' = leftOf
    BY DEF stageOf, leftOf
  <1>2. QED
    BY <1>1, Zenon DEF Promise!vars, stageOf, leftOf

(* Every step of an accept is one of Sale's, or leaves its state alone.    *)
LEMMA StepImplements ==
  ASSUME NamedOnce, TypeOK, OffersInv, Stock, Kind
  PROVE  [Promise!Next]_(Promise!vars)
  <1>1. ASSUME NEW a \in Accepts, KindOf(a)
        PROVE  [Promise!Next]_(Promise!vars)
    <2>1. ASSUME NEW fee \in Fees, Accept(a, fee)
          PROVE  Promise!Next
      BY <2>1, AcceptIsHold DEF Promise!Next
    <2>2. CASE Refuses(a)
      <3> DEFINE e == [accept[a] EXCEPT !.phase = "Refused"]
      <3>1. /\ accept' = [accept EXCEPT ![a] = e] /\ e.phase = "Refused"
            /\ accept[a].phase = "None" /\ offer' = offer
        BY <2>2 DEF Refuses, TypeOK, AcceptStates
      <3> HIDE DEF e
      <3>2. accept'[a] = e /\ \A b \in Accepts \ {a} : accept'[b] = accept[b]
        BY <3>1, PendingAfter
      <3>3. \A b \in Accepts : StageOf(b)' = StageOf(b)
        BY <3>1, <3>2 DEF StageOf
      <3>4. QED
        BY <3>1, <3>3, SaleStays
    <2>3. CASE \E k \in DOMAIN Payees[a] : Goes(a, k) \/ LedgerExecutes(a, k)
      BY <2>3, SaleStays DEF Goes, Send, LedgerExecutes, records, StageOf
    <2>4. ASSUME NEW c \in BOOLEAN, Sells(a, c)
          PROVE  Promise!Next
      BY <2>4, SellsIsSell DEF Promise!Next
    <2>5. CASE Fails(a)
      BY <2>5, FailsIsReturn DEF Promise!Next
    <2>6. CASE Rests(a) \/ SettleWorthless(a)
      BY <2>6, SaleStays DEF Rests, SettleWorthless, StageOf
    <2>7. QED
      BY <1>1, <2>1, <2>2, <2>3, <2>4, <2>5, <2>6 DEF KindOf
  <1>2. CASE UNCHANGED <<accept, offer>>
    BY <1>2, SaleStays DEF StageOf
  <1>3. ASSUME NEW o \in Offers, Marks(o)
        PROVE  [Promise!Next]_(Promise!vars)
    BY <1>3, SaleStays DEF Marks, StageOf
  <1>4. QED
    BY <1>1, <1>2, <1>3 DEF Kind, vars, records, FeeChange, Withdraw

(* At first nothing is taken.                                              *)
LEMMA InitImplements == Init => Promise!Init
  <1> SUFFICES ASSUME Init
               PROVE  Promise!Init
    OBVIOUS
  <1>1. stageOf = [a \in Accepts |-> "open"]
    BY DEF Init, stageOf, StageOf, NoAccept
  <1>2. leftOf = Total
    <2>1. Total \in [Offers -> Nat]
      BY AcceptanceAssumption
    <2>2. QED
      BY <2>1 DEF Init, leftOf
  <1>3. QED
    BY <1>1, <1>2, Zenon DEF Promise!Init, stageOf, leftOf

(* However many requests compete for the offers of however many writers,   *)
(* each takes its part of all its offers, while nobody else holds any of   *)
(* them, and sells all of it or gives all of it back -- if no request      *)
(* names an offer twice, which the code does not check.                    *)
THEOREM PromiseIsKept ==
  ASSUME NamedOnce
  PROVE  Spec => AcceptKeepsItsPromise
  <1>1. Init => Stock
    BY DEF Init, Stock, Pending, NoAccept
  <1>2. IInv /\ Stock /\ [Next]_vars => Stock' /\ [Promise!Next]_(Promise!vars)
    <2>1. SUFFICES ASSUME IInv, Stock, [Next]_vars
                   PROVE  Stock' /\ [Promise!Next]_(Promise!vars)
      OBVIOUS
    <2>2. TypeOK /\ OffersInv /\ Kind
      BY <2>1, RecordsParts, StepKinds DEF IInv, OffersInv
    <2>3. QED
      BY <2>1, <2>2, StockStep, StepImplements
  <1>3. QED
    BY <1>1, <1>2, InitImplements, Inductive, PTL
       DEF Spec, AcceptKeepsItsPromise, Promise!Spec
=============================================================================
