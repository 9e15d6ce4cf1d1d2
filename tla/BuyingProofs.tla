---------------------------- MODULE BuyingProofs ----------------------------
(***************************************************************************)
(* Theorems about buying in the web application: the form, the book and    *)
(* the operations keep their types, no option costs more premium than the  *)
(* amount that was confirmed, one signature is good for one purchase, the  *)
(* success screen tells the truth; and the form, in front of any book,     *)
(* picks the best offer, which the canister takes if the book is up to     *)
(* date.  Then about writing: one signature is good for one offer, and     *)
(* what a writer is told of the book is so.  And about term and strike:    *)
(* what the chart, the pickers and the form show is what is ordered.       *)
(*                                                                         *)
(* At the end about the pages beside them: the panel of pending deposits   *)
(* does not mix accounts, the modals of the account panel tell of their    *)
(* own requests, an onboarding happens once, and the expiry that chart     *)
(* and review foretell is the one an option gets.                          *)
(***************************************************************************)
EXTENDS Trading, Pages, SumProofs

(* What was ordered is an offer, for no more premium than was confirmed.   *)
Good(r) ==
  /\ r.offer \in Offers
  /\ PremiumOf(PremiumBps[r.offer], r.quantity) <= r.amount

(* From the slide to the last copy of the request, an order is a good one, *)
(* for a nonce the wallet has reached.                                     *)
OrdersAreGood ==
  /\ step = "signing" => Good(order)
  /\ order.nonce <= nonce
  /\ \A r \in sent : Good(r) /\ r.nonce <= nonce

(* The nonce of an operation has been used up, and no other has it.        *)
NoncesAreUsedUp ==
  /\ \A i \in DOMAIN operations :
       Good(operations[i].order) /\ operations[i].order.nonce < nonce
  /\ OneSignatureOnePurchase

(* The operation that is polled is the one of the order on the screen; the *)
(* success screen needs one that succeeded.                                *)
ScreenFollowsOrder ==
  /\ polled # 0 => step = "submitting" /\ operations[polled].order = order
  /\ step = "success" =>
       \E i \in DOMAIN operations :
         operations[i].order = order /\ operations[i].status = "Succeeded"

IInv == TypeOK /\ OrdersAreGood /\ NoncesAreUsedUp /\ ScreenFollowsOrder

-----------------------------------------------------------------------------
(* Amounts.                                                                *)

(* The whole part of a fraction.                                           *)
LEMMA Quotient ==
  ASSUME NEW a \in Nat, NEW b \in Nat \ {0}
  PROVE  a \div b \in Nat /\ (a \div b) * b <= a
  <1>1. a \div b \in Nat
    BY SMTT(30)
  <1>2. (a \div b) * b <= a
    BY SMTT(30)
  <1>3. QED
    BY <1>1, <1>2

(* The premium of a quantity is an amount of money.                        *)
LEMMA PremiumIsAmount ==
  ASSUME NEW bps \in Nat, NEW quantity \in Nat
  PROVE  PremiumOf(bps, quantity) \in Nat
  <1>1. quantity * bps \in Nat
    OBVIOUS
  <1>2. QED
    BY <1>1, Quotient DEF PremiumOf

(* What an amount of premium buys costs no more than the amount.           *)
LEMMA QuantityIsWithinAmount ==
  ASSUME NEW bps \in Nat \ {0}, NEW x \in Nat
  PROVE  /\ QuantityFor(bps, x) \in Nat
         /\ PremiumOf(bps, QuantityFor(bps, x)) \in Nat
         /\ PremiumOf(bps, QuantityFor(bps, x)) <= x
  <1> DEFINE q == QuantityFor(bps, x)
             cost == q * bps
  <1>1. q \in Nat /\ q * bps <= x * 10000
    <2>1. x * 10000 \in Nat
      OBVIOUS
    <2>2. QED
      BY <2>1, Quotient DEF QuantityFor
  <1>2. cost \in Nat /\ cost <= x * 10000
    <2> HIDE DEF q
    <2>1. QED
      BY <1>1
  <1>3. cost \div 10000 \in Nat /\ cost \div 10000 <= x
    <2> HIDE DEF cost
    <2>1. QED
      BY <1>2
  <1>4. QED
    BY <1>1, <1>3 DEF PremiumOf

(* Max of a finite set of numbers with some member is the largest.         *)
LEMMA MaxIsLargest ==
  ASSUME NEW S \in SUBSET Nat, IsFiniteSet(S), S # {}
  PROVE  Max(S) \in S /\ \A y \in S : Max(S) >= y
  BY HasLargest DEF Max

-----------------------------------------------------------------------------
(* Books.                                                                  *)

(* A book of finitely many offers, which have numbers for ids.             *)
Numbered(b) ==
  /\ DOMAIN b \in SUBSET (Nat \ {0}) /\ IsFiniteSet(DOMAIN b)
  /\ \A o \in DOMAIN b : b[o] \in Entries

(* The writers' book, like the buyer's, is one of offers with numbers.     *)
LEMMA BooksAreNumbered ==
  ASSUME NEW b, IsBook(b)
  PROVE  Numbered(b)
  BY FS_Subset, BuyingAssumption DEF IsBook, Numbered

(* What the list shows of an offer is what its writer can cover.           *)
LEMMA ListedBook ==
  ASSUME NEW b, Numbered(b), NEW funds \in [Users -> Nat]
  PROVE  /\ Numbered(Listed(b, funds)) /\ DOMAIN Listed(b, funds) \subseteq DOMAIN b
         /\ \A o \in DOMAIN Listed(b, funds) :
              LET shown == Listed(b, funds)[o] IN
              /\ shown.writer = b[o].writer /\ shown.bps = b[o].bps
              /\ shown.quantity <= b[o].quantity
              /\ shown.quantity <= funds[b[o].writer]
  <1> DEFINE L == Listed(b, funds)
             A == Sent(b, funds)
             S == {p \in DOMAIN b : EffectiveRemaining(b[p], funds) > 0}
             R == {o \in DOMAIN A : A[o].quantity >= MinAccept}
  <1>1. /\ DOMAIN A = S
        /\ \A o \in S : A[o] = [b[o] EXCEPT !.quantity = EffectiveRemaining(b[o], funds)]
    BY DEF Sent
  <1>2. DOMAIN L = R /\ \A o \in R : L[o] = A[o]
    BY DEF Listed, Restrict
  <1> HIDE DEF L, A
  <1>3. DOMAIN L \subseteq DOMAIN b
    BY <1>1, <1>2
  <1>4. ASSUME NEW o \in DOMAIN L
        PROVE  /\ L[o] \in Entries
               /\ L[o].writer = b[o].writer /\ L[o].bps = b[o].bps
               /\ L[o].quantity <= b[o].quantity
               /\ L[o].quantity <= funds[b[o].writer]
    <2>1. b[o] \in Entries /\ o \in DOMAIN b
      BY <1>3 DEF Numbered
    <2>2. b[o].quantity \in Nat /\ b[o].writer \in Users /\ funds[b[o].writer] \in Nat
      BY <2>1 DEF Entries
    <2> DEFINE q == EffectiveRemaining(b[o], funds)
    <2>3. q \in Nat /\ q <= b[o].quantity /\ q <= funds[b[o].writer]
      BY <2>2 DEF EffectiveRemaining, Smaller
    <2>4. L[o] = [b[o] EXCEPT !.quantity = q]
      BY <1>1, <1>2
    <2> HIDE DEF q
    <2>5. QED
      BY <2>1, <2>3, <2>4 DEF Entries
  <1>5. Numbered(L)
    BY <1>3, <1>4, FS_Subset DEF Numbered
  <1>6. QED
    BY <1>3, <1>4, <1>5 DEF L

(* So the list of a book of the buyer's offers is one itself.              *)
LEMMA ShownBook ==
  ASSUME NEW b, IsBook(b), NEW funds \in [Users -> Nat]
  PROVE  IsBook(Listed(b, funds))
  BY BooksAreNumbered, ListedBook DEF Numbered, IsBook

(* The form shows a part of the list, and of the others only.              *)
LEMMA OthersBook ==
  ASSUME NEW b, IsBook(b), NEW u
  PROVE  /\ IsBook(OthersOf(u, b)) /\ DOMAIN OthersOf(u, b) \subseteq DOMAIN b
         /\ \A o \in DOMAIN OthersOf(u, b) :
              OthersOf(u, b)[o] = b[o] /\ b[o].writer # u
  BY DEF OthersOf, Restrict, IsBook

(* The largest premium of a book is an amount of money, which no offer's   *)
(* premium exceeds.                                                        *)
LEMMA MaxPremiumIsAmount ==
  ASSUME NEW b, Numbered(b)
  PROVE  /\ MaxPremium(b) \in Nat
         /\ \A o \in DOMAIN b :
              PremiumOf(b[o].bps, Smaller(b[o].quantity, MaxAccept)) <= MaxPremium(b)
  <1> DEFINE cost == [o \in DOMAIN b |->
                        PremiumOf(b[o].bps, Smaller(b[o].quantity, MaxAccept))]
             T == {PremiumOf(b[o].bps, Smaller(b[o].quantity, MaxAccept)) :
                     o \in DOMAIN b}
  <1>1. ASSUME NEW o \in DOMAIN b
        PROVE  PremiumOf(b[o].bps, Smaller(b[o].quantity, MaxAccept)) \in Nat
    <2>1. b[o].bps \in Nat /\ b[o].quantity \in Nat /\ MaxAccept \in Nat
      BY OrderBookAssumption DEF Numbered, Entries
    <2>2. Smaller(b[o].quantity, MaxAccept) \in Nat
      BY <2>1 DEF Smaller
    <2>3. QED
      BY <2>1, <2>2, PremiumIsAmount
  <1>2. T \in SUBSET Nat
    BY <1>1
  <1>3. cost \in Surjection(DOMAIN b, T)
    BY DEF Surjection
  <1>4. IsFiniteSet(T)
    <2> HIDE DEF cost, T
    <2>1. QED
      BY <1>3, FS_Surjection DEF Numbered
  <1>5. IsFiniteSet({0} \cup T)
    <2> HIDE DEF T
    <2>1. IsFiniteSet(T \cup {0})
      BY <1>4, FS_AddElement
    <2>2. T \cup {0} = {0} \cup T
      OBVIOUS
    <2>3. QED
      BY <2>1, <2>2
  <1>6. Max({0} \cup T) \in Nat /\ \A y \in T : y <= Max({0} \cup T)
    <2> HIDE DEF T
    <2>1. {0} \cup T \in SUBSET Nat /\ {0} \cup T # {}
      BY <1>2
    <2>2. QED
      BY <1>2, <1>5, <2>1, MaxIsLargest
  <1>7. QED
    BY <1>6 DEF MaxPremium

(* Of offers that differ, one comes before the other, and never both.      *)
LEMMA BeforeIsOrder ==
  ASSUME NEW b, Numbered(b), NEW o \in DOMAIN b, NEW p \in DOMAIN b
  PROVE  /\ o # p => Before(b, o, p) \/ Before(b, p, o)
         /\ ~ Before(b, o, o)
         /\ \A q \in DOMAIN b : Before(b, o, p) /\ Before(b, p, q) => Before(b, o, q)
  <1>1. \A q \in DOMAIN b : q \in Nat /\ b[q].bps \in Nat
    BY DEF Numbered, Entries
  <1>2. QED
    BY <1>1 DEF Before

(* The offer the form picks has the size, and comes before all others that *)
(* have it.                                                                *)
LEMMA BestIsFirst ==
  ASSUME NEW b, Numbered(b), NEW x \in Nat \ {0}, NEW o \in DOMAIN b, Serves(b, o, x)
  PROVE  /\ BestOffer(b, x) \in DOMAIN b /\ Serves(b, BestOffer(b, x), x)
         /\ o # BestOffer(b, x) => Before(b, BestOffer(b, x), o)
  <1> DEFINE S == {p \in DOMAIN b : Serves(b, p, x)}
             F == {T \in SUBSET S :
                     T # {} => \E z \in T : \A p \in T \ {z} : Before(b, z, p)}
  <1>1. {} \in F
    OBVIOUS
  <1>2. ASSUME NEW T \in SUBSET S, NEW y \in S, T \in F, y \notin T
        PROVE  T \cup {y} \in F
    <2>1. SUFFICES \E z \in T \cup {y} : \A p \in (T \cup {y}) \ {z} : Before(b, z, p)
      OBVIOUS
    <2>2. CASE T = {}
      BY <2>2
    <2>3. CASE T # {}
      <3>1. PICK z \in T : \A p \in T \ {z} : Before(b, z, p)
        BY <1>2, <2>3
      <3>2. z \in DOMAIN b /\ y \in DOMAIN b /\ z # y /\ T \subseteq DOMAIN b
        BY <1>2, <3>1
      <3>3. CASE Before(b, z, y)
        BY <3>1, <3>3
      <3>4. CASE Before(b, y, z)
        <4>1. \A p \in T : Before(b, y, p)
          BY <3>1, <3>2, <3>4, BeforeIsOrder
        <4>2. QED
          BY <4>1
      <3>5. QED
        BY <3>2, <3>3, <3>4, BeforeIsOrder
    <2>4. QED
      BY <2>2, <2>3
  <1>3. S \in F
    <2>1. IsFiniteSet(S)
      BY FS_Subset DEF Numbered
    <2> HIDE DEF F, S
    <2>2. \A T \in SUBSET S, y \in S : T \in F /\ y \notin T => T \cup {y} \in F
      BY <1>2
    <2>3. \A T \in SUBSET S : T \in F
      BY <1>1, <2>1, <2>2, SetInd
    <2>4. QED
      BY <2>3
  <1>4. \E z \in S : \A p \in S \ {z} : Before(b, z, p)
    BY <1>3
  <1> DEFINE best == CHOOSE z \in S : \A p \in S \ {z} : Before(b, z, p)
  <1>5. best \in S /\ \A p \in S \ {best} : Before(b, best, p)
    BY <1>4
  <1>6. BestOffer(b, x) = best
    BY DEF BestOffer
  <1>7. QED
    BY <1>5, <1>6

(* An offer the form picks is one of the book, and has the size.           *)
LEMMA PickedServes ==
  ASSUME NEW b, Numbered(b), NEW x \in Nat, BestOffer(b, x) # NoOffer
  PROVE  /\ x # 0 /\ BestOffer(b, x) \in DOMAIN b
         /\ Serves(b, BestOffer(b, x), x)
  <1>1. x # 0
    BY DEF BestOffer
  <1>2. PICK o \in DOMAIN b : Serves(b, o, x)
    BY DEF BestOffer
  <1>3. QED
    BY <1>1, <1>2, BestIsFirst

(* The book of the canister, and what the form makes of it.                *)
LEMMA BookOfOpen ==
  ASSUME TypeOK
  PROVE  /\ IsBook(Book) /\ DOMAIN Book = open
         /\ \A o \in open : /\ Book[o].writer = Writer[o] /\ Book[o].bps = PremiumBps[o]
                            /\ Book[o].quantity = left[o]
  BY BuyingAssumption DEF TypeOK, Book, IsBook, Entries

(* The form's largest amount is an amount of money the account has.        *)
LEMMA MaxAmountIsAmount ==
  ASSUME NEW b, IsBook(b), NEW funds \in Nat
  PROVE  MaxAmount(b, funds) \in Nat /\ MaxAmount(b, funds) <= funds
  BY BooksAreNumbered, MaxPremiumIsAmount DEF MaxAmount, Smaller

(* A book in which one offer comes before another has more that come       *)
(* before the other.                                                       *)
LEMMA FirstRanksFirst ==
  ASSUME NEW b, Numbered(b), NEW o \in DOMAIN b, NEW p \in DOMAIN b, Before(b, o, p)
  PROVE  RankInBook(b, o) < RankInBook(b, p)
  <1> DEFINE A == {q \in DOMAIN b : Before(b, q, o)}
             B == {q \in DOMAIN b : Before(b, q, p)}
  <1>1. A \subseteq B /\ o \in B /\ o \notin A
    BY BeforeIsOrder
  <1>2. IsFiniteSet(B)
    BY FS_Subset DEF Numbered
  <1>3. RankInBook(b, o) = 1 + Cardinality(A) /\ RankInBook(b, p) = 1 + Cardinality(B)
    BY DEF RankInBook
  <1> HIDE DEF A, B
  <1>4. IsFiniteSet(A) /\ Cardinality(A) <= Cardinality(B) /\ Cardinality(A) # Cardinality(B)
    BY <1>1, <1>2, FS_Subset
  <1>5. Cardinality(A) \in Nat /\ Cardinality(B) \in Nat
    BY <1>2, <1>4, FS_CardinalityType
  <1>6. QED
    BY <1>3, <1>4, <1>5

(* No list, however old, makes the form pass over a better offer.          *)
LEMMA TheBestIsPicked ==
  ASSUME TypeOK
  PROVE  NobodyIsPassedOver
  <1> DEFINE b == Offered
  <1>1. IsBook(b)
    BY OthersBook DEF TypeOK, Offered
  <1>2. SUFFICES ASSUME NEW x \in 1 .. MaxPremium(b),
                        NEW o \in DOMAIN b \ {BestOffer(b, x)}, Serves(b, o, x)
                 PROVE  /\ BestOffer(b, x) # NoOffer
                        /\ RankInBook(b, BestOffer(b, x)) < RankInBook(b, o)
    BY DEF NobodyIsPassedOver
  <1> HIDE DEF b
  <1>3. x \in Nat \ {0}
    BY <1>1, BooksAreNumbered, MaxPremiumIsAmount
  <1>4. BestOffer(b, x) \in DOMAIN b /\ Before(b, BestOffer(b, x), o)
    BY <1>1, <1>2, <1>3, BooksAreNumbered, BestIsFirst
  <1>5. BestOffer(b, x) # NoOffer
    BY <1>1, <1>4, BuyingAssumption DEF IsBook, NoOffer
  <1>6. QED
    BY <1>1, <1>2, <1>4, <1>5, BooksAreNumbered, FirstRanksFirst

(* What the form would order, were list and balance up to date, is taken   *)
(* by the canister, but for the fees of the ledger.                        *)
LEMMA UpToDateIsTaken ==
  ASSUME TypeOK
  PROVE  FreshOrdersAreTaken
  <1> DEFINE L == Listed(Book, available)
             b == OthersOf(Buyer, L)
  <1>1. available \in [Users -> Nat] /\ Buyer \in Users /\ available[Buyer] \in Nat
    BY BuyingAssumption DEF TypeOK
  <1>2. IsBook(Book) /\ IsBook(L)
    BY <1>1, BookOfOpen, ShownBook
  <1>3. IsBook(b)
    BY <1>2, OthersBook
  <1>4. \A o \in DOMAIN b :
          /\ o \in open /\ Writer[o] # Buyer /\ b[o].bps = PremiumBps[o]
          /\ b[o].quantity <= left[o] /\ b[o].quantity <= available[Writer[o]]
    <2>1. SUFFICES ASSUME NEW o \in DOMAIN b
                   PROVE  /\ o \in open /\ Writer[o] # Buyer /\ b[o].bps = PremiumBps[o]
                          /\ b[o].quantity <= left[o]
                          /\ b[o].quantity <= available[Writer[o]]
      OBVIOUS
    <2>2. o \in DOMAIN L /\ b[o] = L[o] /\ L[o].writer # Buyer
      BY <1>2, OthersBook
    <2>3. /\ o \in DOMAIN Book /\ L[o].writer = Book[o].writer /\ L[o].bps = Book[o].bps
          /\ L[o].quantity <= Book[o].quantity
          /\ L[o].quantity <= available[Book[o].writer]
      BY <1>1, <1>2, <2>2, BooksAreNumbered, ListedBook
    <2> HIDE DEF L, b
    <2>4. QED
      BY <2>2, <2>3, BookOfOpen
  <1>5. ASSUME ~ InProgress, NEW x \in 1 .. MaxAmount(b, available[Buyer]),
               BestOffer(b, x) # NoOffer
        PROVE  LET best == BestOffer(b, x)
                   r == [offer |-> best, quantity |-> QuantityFor(PremiumBps[best], x),
                         amount |-> x, nonce |-> nonce]
               IN  /\ Acceptable(r) /\ Covered(r)
                   /\ available[Buyer] + 2 * TransferFee >= Debit(r.offer, r.quantity)
    <2> HIDE DEF L, b
    <2> DEFINE best == BestOffer(b, x)
               q == QuantityFor(PremiumBps[best], x)
               r == [offer |-> best, quantity |-> q, amount |-> x, nonce |-> nonce]
    <2>1. x \in Nat /\ x <= available[Buyer]
      BY <1>1, <1>3, <1>5, MaxAmountIsAmount
    <2>2. best \in DOMAIN b /\ Serves(b, best, x)
      BY <1>3, <1>5, <2>1, BooksAreNumbered, PickedServes
    <2>3. best \in Offers /\ PremiumBps[best] \in Nat \ {0} /\ b[best].quantity \in Nat
      BY <1>3, <2>2, BuyingAssumption DEF IsBook, Entries
    <2>4. /\ best \in open /\ Writer[best] # Buyer /\ b[best].bps = PremiumBps[best]
          /\ b[best].quantity <= left[best] /\ b[best].quantity <= available[Writer[best]]
      BY <1>4, <2>2
    <2>5. q >= MinAccept /\ q <= MaxAccept /\ q <= b[best].quantity
      BY <2>2, <2>4 DEF Serves
    <2>6. q \in Nat /\ PremiumOf(PremiumBps[best], q) \in Nat
          /\ PremiumOf(PremiumBps[best], q) <= x
      BY <2>1, <2>3, QuantityIsWithinAmount
    <2>7. left[best] \in Nat /\ available[Writer[best]] \in Nat
          /\ MinAccept \in Nat /\ MaxAccept \in Nat /\ TransferFee \in Nat
      BY <2>3, BuyingAssumption, OrderBookAssumption DEF TypeOK
    <2>8. r.offer = best /\ r.quantity = q
      OBVIOUS
    <2> HIDE DEF best, q, r
    <2>9. Acceptable(r) /\ Covered(r)
      BY <1>5, <2>3, <2>4, <2>5, <2>6, <2>7, <2>8 DEF Acceptable, Covered
    <2>10. available[Buyer] + 2 * TransferFee >= Debit(best, q)
      BY <1>1, <2>1, <2>6, <2>7 DEF Debit
    <2>11. QED
      BY <2>8, <2>9, <2>10 DEF best, q, r
  <1>6. QED
    BY <1>5 DEF FreshOrdersAreTaken

-----------------------------------------------------------------------------
(* The steps.                                                              *)

(* At first nothing is signed, and the form is empty.                      *)
LEMMA InitIsGood == Init => IInv
  <1> SUFFICES ASSUME Init PROVE IInv
    OBVIOUS
  <1>1. TypeOK
    BY BuyingAssumption DEF Init, TypeOK, NoOrder, Orders, IsBook
  <1>2. OrdersAreGood /\ NoncesAreUsedUp /\ ScreenFollowsOrder
    BY DEF Init, NoOrder, OrdersAreGood, NoncesAreUsedUp, OneSignatureOnePurchase,
       ScreenFollowsOrder
  <1>3. QED
    BY <1>1, <1>2 DEF IInv

(* What concerns neither orders nor operations disturbs no promise about   *)
(* them.                                                                   *)
LEMMA OrdersRest ==
  ASSUME IInv, UNCHANGED <<nonce, operations, step, order, sent, polled>>
  PROVE  OrdersAreGood' /\ NoncesAreUsedUp' /\ ScreenFollowsOrder'
  BY DEF IInv, OrdersAreGood, NoncesAreUsedUp, OneSignatureOnePurchase,
     ScreenFollowsOrder, Good

(* The form's amount stays an amount of money when the list or the balance *)
(* changes.                                                                *)
LEMMA AdjustedAmount ==
  ASSUME TypeOK, NEW b, IsBook(b), NEW funds \in Nat, Adjust(b, funds)
  PROVE  amount' \in Nat
  <1>1. MaxAmount(b, funds) \in Nat /\ amount \in Nat
    BY MaxAmountIsAmount DEF TypeOK
  <1> DEFINE m == MaxAmount(b, funds)
  <1>2. amount' = amount \/ amount' = (3 * m) \div 4
    BY DEF Adjust
  <1> HIDE DEF m
  <1>3. m \in Nat
    BY <1>1 DEF m
  <1>4. (3 * m) \div 4 \in Nat
    BY <1>3
  <1>5. QED
    BY <1>1, <1>2, <1>4

(* Reading, typing and turning pages.                                      *)
LEMMA BrowseKeeps == ASSUME IInv, Browse PROVE IInv'
  <1>1. TypeOK
    BY DEF IInv
  <1>2. TypeOK'
    <2>1. CASE ReadOffers
      <3>1. read' # <<>> => IsBook(read'[1])
        BY <1>1, <2>1, BookOfOpen DEF ReadOffers
      <3>2. QED
        BY <1>1, <2>1, <3>1 DEF ReadOffers, TypeOK, canister, form
    <2>2. CASE ReadBalances
      <3>1. PICK answered \in BOOLEAN :
              /\ listing' = Listed(read[1], BalancesRead(answered))
              /\ Adjust(OthersOf(Buyer, Listed(read[1], BalancesRead(answered))), balance)
        BY <2>2 DEF ReadBalances
      <3>2. IsBook(read[1]) /\ BalancesRead(answered) \in [Users -> Nat]
        BY <1>1, <2>2 DEF TypeOK, ReadBalances, BalancesRead
      <3>3. IsBook(listing')
        BY <3>1, <3>2, ShownBook
      <3>4. IsBook(OthersOf(Buyer, listing'))
        BY <3>3, OthersBook
      <3>5. amount' \in Nat
        BY <1>1, <3>1, <3>4, AdjustedAmount DEF TypeOK
      <3>6. QED
        BY <1>1, <2>2, <3>3, <3>5 DEF ReadBalances, TypeOK, canister
    <2>3. CASE RefreshAccount
      <3>1. balance' \in Nat
        BY <1>1, <2>3, BuyingAssumption DEF TypeOK, RefreshAccount
      <3>2. IsBook(Offered)
        BY <1>1, OthersBook DEF TypeOK, Offered
      <3>3. amount' \in Nat
        BY <1>1, <2>3, <3>1, <3>2, AdjustedAmount DEF RefreshAccount
      <3>4. QED
        BY <1>1, <2>3, <3>1, <3>3 DEF RefreshAccount, TypeOK, canister
    <2>4. CASE Continue
      <3>1. page \in 1 .. 3 /\ page # 3
        BY <1>1, <2>4 DEF TypeOK, Continue, CanAdvance, Pages
      <3>2. QED
        BY <1>1, <2>4, <3>1 DEF Continue, TypeOK, canister
    <2>5. CASE Back
      BY <1>1, <2>5 DEF Back, TypeOK, canister
    <2>6. CASE \E x \in Amounts : Type(x)
      BY <1>1, <2>6, BuyingAssumption DEF Type, TypeOK, canister
    <2>7. QED
      BY <2>1, <2>2, <2>3, <2>4, <2>5, <2>6 DEF Browse
  <1>3. UNCHANGED <<nonce, operations, step, order, sent, polled>>
    BY DEF Browse, ReadOffers, ReadBalances, RefreshAccount, Continue, Back, Type,
       canister, form
  <1>4. QED
    BY <1>2, <1>3, OrdersRest DEF IInv

(* What the others do.                                                     *)
LEMMA OthersKeep == ASSUME IInv, Others PROVE IInv'
  <1>1. TypeOK /\ MinAccept \in Nat
    BY OrderBookAssumption DEF IInv
  <1>2. moves' \in 0 .. MaxMoves
    BY <1>1, BuyingAssumption DEF Others, TypeOK
  <1>3. TypeOK'
    <2>1. ASSUME NEW o \in Offers, Cancel(o)
          PROVE  TypeOK'
      BY <1>1, <1>2, <2>1 DEF Cancel, TypeOK, form
    <2>2. ASSUME NEW o \in Offers, OtherBuys(o, MinAccept)
          PROVE  TypeOK'
      <3>1. left[o] \in Nat /\ available[Writer[o]] \in Nat /\ Writer[o] \in Users
        BY <1>1, BuyingAssumption DEF TypeOK
      <3>2. MinAccept <= left[o] /\ MinAccept <= available[Writer[o]]
        BY <1>1, <2>2, <3>1 DEF OtherBuys, Smaller
      <3>3. left' \in [Offers -> Nat] /\ available' \in [Users -> Nat]
        BY <1>1, <2>2, <3>1, <3>2 DEF OtherBuys, TypeOK
      <3>4. open' \subseteq Offers
        BY <1>1, <2>2 DEF OtherBuys, TypeOK
      <3>5. QED
        BY <1>1, <1>2, <2>2, <3>3, <3>4 DEF OtherBuys, TypeOK, form
    <2>3. ASSUME NEW u \in Users, Spend(u, MinAccept)
          PROVE  TypeOK'
      <3>1. available' \in [Users -> Nat]
        BY <1>1, <2>3 DEF Spend, TypeOK
      <3>2. QED
        BY <1>1, <1>2, <2>3, <3>1 DEF Spend, TypeOK, form
    <2>4. QED
      BY <2>1, <2>2, <2>3 DEF Others
  <1>4. UNCHANGED <<nonce, operations, step, order, sent, polled>>
    BY DEF Others, Cancel, OtherBuys, Spend, form
  <1>5. QED
    BY <1>3, <1>4, OrdersRest DEF IInv

(* An operation, with what was ordered.                                    *)
LEMMA OperationAt ==
  ASSUME TypeOK, NEW i \in DOMAIN operations
  PROVE  /\ operations[i] \in Operations /\ operations[i].order \in Orders
         /\ operations[i].order.quantity \in Nat /\ operations[i].order.nonce \in Nat
         /\ operations[i].debit \in Nat /\ operations[i].was \in Nat
  <1>1. operations[i] \in Operations
    BY DEF TypeOK
  <1>2. operations[i].order \in Orders /\ operations[i].debit \in Nat
        /\ operations[i].was \in Nat
    BY <1>1 DEF Operations
  <1>3. QED
    BY <1>1, <1>2 DEF Orders

(* handleSubmit: what is ordered is a good order.                          *)
LEMMA SlideKeeps == ASSUME IInv, Slide PROVE IInv'
  <1> DEFINE best == BestOffer(Offered, amount)
             q == QuantityFor(PremiumBps[best], amount)
  <1>1. TypeOK /\ amount \in Nat /\ nonce \in Nat /\ step = "idle" /\ step' = "signing"
    BY DEF IInv, TypeOK, Slide
  <1>2. best \in Offers
    <2>1. IsBook(Offered)
      BY <1>1, OthersBook DEF TypeOK, Offered
    <2>2. best # NoOffer
      BY DEF Slide, Valid
    <2>3. best \in DOMAIN Offered
      BY <1>1, <2>1, <2>2, BooksAreNumbered, PickedServes
    <2>4. QED
      BY <2>1, <2>3 DEF IsBook
  <1>3. q \in Nat /\ PremiumOf(PremiumBps[best], q) <= amount
    <2>1. PremiumBps[best] \in Nat \ {0}
      BY <1>2, BuyingAssumption
    <2>2. QED
      BY <1>1, <2>1, QuantityIsWithinAmount
  <1>4. order' = [offer |-> best, quantity |-> q, amount |-> amount, nonce |-> nonce]
    BY DEF Slide
  <1> HIDE DEF best, q
  <1>5. order' \in Orders /\ Good(order') /\ order'.nonce = nonce
    BY <1>1, <1>2, <1>3, <1>4 DEF Orders, Good
  <1>6. UNCHANGED <<canister, read, listing, balance, amount, page, sent, polled, moves>>
    BY DEF Slide
  <1>7. TypeOK'
    BY <1>1, <1>5, <1>6 DEF TypeOK, canister
  <1>8. OrdersAreGood'
    BY <1>1, <1>5, <1>6 DEF IInv, OrdersAreGood, Good, canister
  <1>9. NoncesAreUsedUp'
    BY <1>6 DEF IInv, NoncesAreUsedUp, OneSignatureOnePurchase, Good, canister
  <1>10. polled = 0
    BY <1>1 DEF IInv, ScreenFollowsOrder
  <1>11. ScreenFollowsOrder'
    BY <1>1, <1>6, <1>10 DEF ScreenFollowsOrder
  <1>12. QED
    BY <1>7, <1>8, <1>9, <1>11 DEF IInv

(* The wallet signs what was ordered, for a nonce it had meanwhile.        *)
LEMMA SignKeeps == ASSUME IInv, Sign PROVE IInv'
  <1>1. TypeOK /\ order \in Orders /\ Good(order) /\ nonce \in Nat
    BY DEF IInv, TypeOK, OrdersAreGood, Sign
  <1>2. PICK n \in order.nonce .. nonce : order' = [order EXCEPT !.nonce = n]
    BY DEF Sign
  <1>3. n \in Nat /\ n <= nonce
    BY <1>1, <1>2 DEF Orders
  <1>4. order' \in Orders /\ Good(order') /\ order'.nonce <= nonce
    BY <1>1, <1>2, <1>3 DEF Orders, Good
  <1>5. /\ step = "signing" /\ step' = "submitting" /\ sent' = sent \cup {order'}
        /\ UNCHANGED <<canister, read, listing, balance, amount, page, polled, moves>>
    BY DEF Sign
  <1>6. TypeOK'
    BY <1>1, <1>4, <1>5 DEF TypeOK, canister
  <1>7. OrdersAreGood'
    BY <1>4, <1>5 DEF IInv, OrdersAreGood, Good, canister
  <1>8. NoncesAreUsedUp'
    BY <1>5 DEF IInv, NoncesAreUsedUp, OneSignatureOnePurchase, Good, canister
  <1>9. polled = 0
    BY <1>5 DEF IInv, ScreenFollowsOrder
  <1>10. ScreenFollowsOrder'
    BY <1>5, <1>9 DEF ScreenFollowsOrder
  <1>11. QED
    BY <1>6, <1>7, <1>8, <1>10 DEF IInv

(* Steps of the browser and of the server that only tell what became of an *)
(* order.                                                                  *)
LEMMA ScreenKeeps ==
  ASSUME IInv, Decline \/ Poll \/ GiveUp \/ (\E to \in {1, 3} : Leave(to))
  PROVE  IInv'
  <1>1. TypeOK /\ UNCHANGED <<canister, read, listing, balance, order, sent, moves>>
    BY DEF IInv, Decline, Poll, GiveUp, Leave
  <1>2. polled \in 0 .. Len(operations) /\ operations \in Seq(Operations)
    BY <1>1 DEF TypeOK
  <1>3. /\ amount' \in Nat /\ page' \in 1 .. 3 /\ polled' \in {0, polled}
        /\ step' \in {"idle", "success", "error"}
    <2>1. CASE Decline
      BY <1>1, <2>1 DEF Decline, TypeOK
    <2>2. CASE Poll
      <3>1. Outcome(operations[polled].status) \in {"success", "error"}
        BY <2>2 DEF Poll, Outcome
      <3>2. QED
        BY <1>1, <2>2, <3>1 DEF Poll, TypeOK
    <2>3. CASE GiveUp
      BY <1>1, <2>3 DEF GiveUp, TypeOK
    <2>4. CASE \E to \in {1, 3} : Leave(to)
      BY <1>1, <2>4 DEF Leave, TypeOK
    <2>5. QED
      BY <2>1, <2>2, <2>3, <2>4
  <1>4. polled' = 0
    <2>1. step # "submitting" => polled = 0
      BY DEF IInv, ScreenFollowsOrder
    <2>2. QED
      BY <2>1 DEF Decline, Poll, GiveUp, Leave
  <1>5. TypeOK'
    BY <1>1, <1>2, <1>3, <1>4 DEF TypeOK, canister
  <1>6. OrdersAreGood'
    BY <1>1, <1>3 DEF IInv, OrdersAreGood, Good, canister
  <1>7. NoncesAreUsedUp'
    BY <1>1 DEF IInv, NoncesAreUsedUp, OneSignatureOnePurchase, Good, canister
  <1>8. ASSUME step' = "success"
        PROVE  \E i \in DOMAIN operations :
                 operations[i].order = order /\ operations[i].status = "Succeeded"
    <2>1. Poll
      BY <1>8 DEF Decline, GiveUp, Leave
    <2>2. polled # 0 /\ Outcome(operations[polled].status) = "success"
      BY <1>8, <2>1 DEF Poll
    <2>3. operations[polled].status = "Succeeded"
      BY <2>2 DEF Outcome
    <2>4. operations[polled].order = order
      BY <2>2 DEF IInv, ScreenFollowsOrder
    <2>5. polled \in DOMAIN operations
      BY <1>2, <2>2
    <2>6. QED
      BY <2>3, <2>4, <2>5
  <1>9. ScreenFollowsOrder'
    BY <1>1, <1>4, <1>8 DEF ScreenFollowsOrder, canister
  <1>10. QED
    BY <1>5, <1>6, <1>7, <1>9 DEF IInv

(* A request that is refused uses up a nonce at most.                      *)
LEMMA RefuseKeeps ==
  ASSUME IInv, NEW r \in sent, Refuse(r) \/ RefuseStale(r)
  PROVE  IInv'
  <1>1. TypeOK /\ nonce \in Nat /\ order \in Orders /\ sent \subseteq Orders
    BY DEF IInv, TypeOK
  <1>2. /\ open' \subseteq open /\ nonce' \in {nonce, nonce + 1}
        /\ UNCHANGED <<left, available, operations, read, listing, balance, amount, page,
                       order, sent, polled, moves>>
    BY DEF Refuse, RefuseStale, canister
  <1>3. step' = step \/ (step = "submitting" /\ step' = "error" /\ polled = 0)
    BY DEF Refuse, RefuseStale
  <1>4. TypeOK'
    BY <1>1, <1>2, <1>3 DEF TypeOK
  <1>5. OrdersAreGood'
    <2>1. order.nonce \in Nat /\ \A s \in sent : s.nonce \in Nat
      BY <1>1 DEF Orders
    <2>2. QED
      BY <1>1, <1>2, <1>3, <2>1 DEF IInv, OrdersAreGood, Good
  <1>6. NoncesAreUsedUp'
    <2>1. \A i \in DOMAIN operations : operations[i].order.nonce \in Nat
      BY <1>1, OperationAt
    <2>2. QED
      BY <1>1, <1>2, <2>1 DEF IInv, NoncesAreUsedUp, OneSignatureOnePurchase, Good
  <1>7. ScreenFollowsOrder'
    BY <1>2, <1>3 DEF IInv, ScreenFollowsOrder
  <1>8. QED
    BY <1>4, <1>5, <1>6, <1>7 DEF IInv

(* accept_offers takes a request: it has the nonce of the wallet, which no *)
(* operation had before.                                                   *)
LEMMA TakeKeeps == ASSUME IInv, NEW r \in sent, Take(r) PROVE IInv'
  <1> DEFINE op == [status |-> "Pending", order |-> r,
                    debit |-> Debit(r.offer, r.quantity), was |-> left[r.offer]]
             d == Debit(r.offer, r.quantity)
             w == Writer[r.offer]
  <1>1. TypeOK /\ r \in Orders /\ Good(r) /\ r.nonce = nonce /\ nonce \in Nat
        /\ order \in Orders
    BY DEF IInv, TypeOK, OrdersAreGood, Take, Fresh
  <1>2. /\ r.offer \in Offers /\ r.quantity \in Nat /\ w \in Users /\ w # Buyer
        /\ PremiumBps[r.offer] \in Nat /\ Buyer \in Users /\ TransferFee \in Nat
    BY <1>1, BuyingAssumption DEF Good, Orders, Take, Acceptable
  <1>3. /\ left[r.offer] \in Nat /\ r.quantity <= left[r.offer]
        /\ available[w] \in Nat /\ r.quantity <= available[w]
        /\ available[Buyer] \in Nat
    BY <1>1, <1>2 DEF TypeOK, Take, Acceptable, Covered
  <1>4. d \in Nat /\ d <= available[Buyer]
    <2>1. PremiumOf(PremiumBps[r.offer], r.quantity) \in Nat
      BY <1>2, PremiumIsAmount
    <2>2. d \in Nat
      BY <1>2, <2>1 DEF Debit
    <2>3. available[Buyer] >= d
      BY DEF Take, Payable
    <2> HIDE DEF d
    <2>4. QED
      BY <1>3, <2>2, <2>3
  <1>5. op \in Operations
    <2> HIDE DEF d
    <2>1. op = [status |-> "Pending", order |-> r, debit |-> d, was |-> left[r.offer]]
      BY DEF d
    <2>2. QED
      BY <1>1, <1>3, <1>4, <2>1 DEF Operations
  <1>6. /\ open' = open \ {r.offer} /\ nonce' = nonce + 1
        /\ operations' = Append(operations, op)
        /\ UNCHANGED <<read, listing, balance, form, sent, moves>>
    BY DEF Take
  <1>7. left' \in [Offers -> Nat] /\ available' \in [Users -> Nat]
    <2>1. left' = [left EXCEPT ![r.offer] = @ - r.quantity]
      BY DEF Take
    <2>2. available' = [available EXCEPT ![w] = @ - r.quantity, ![Buyer] = @ - d]
      BY DEF Take
    <2> HIDE DEF d, w
    <2>3. left[r.offer] - r.quantity \in Nat /\ available[w] - r.quantity \in Nat
          /\ available[Buyer] - d \in Nat
      BY <1>2, <1>3, <1>4
    <2>4. left \in [Offers -> Nat] /\ available \in [Users -> Nat]
      BY <1>1 DEF TypeOK
    <2>5. QED
      BY <1>2, <2>1, <2>2, <2>3, <2>4
  <1> HIDE DEF op, d, w
  <1>8. /\ operations \in Seq(Operations) /\ operations' \in Seq(Operations)
        /\ Len(operations') = Len(operations) + 1
        /\ operations'[Len(operations')] = op
        /\ \A i \in DOMAIN operations :
             i \in DOMAIN operations' /\ operations'[i] = operations[i]
        /\ \A i \in DOMAIN operations' : i \in DOMAIN operations \/ operations'[i] = op
        /\ \A i \in DOMAIN operations' \ DOMAIN operations : i = Len(operations')
    BY <1>1, <1>5, <1>6 DEF TypeOK
  <1>9. polled' \in {polled, Len(operations')}
        /\ (polled' # polled => step = "submitting" /\ r = order)
    BY DEF Take
  <1>10. TypeOK'
    <2>1. polled' \in 0 .. Len(operations')
      BY <1>1, <1>8, <1>9 DEF TypeOK
    <2>2. QED
      BY <1>1, <1>6, <1>7, <1>8, <2>1 DEF TypeOK, form
  <1>11. OrdersAreGood'
    <2>1. order.nonce \in Nat /\ \A s \in sent : s.nonce \in Nat
      BY <1>1 DEF TypeOK, Orders
    <2>2. QED
      BY <1>1, <1>6, <2>1 DEF IInv, OrdersAreGood, Good, form
  <1>12. op.order = r /\ op.status = "Pending"
    BY DEF op
  <1>13. ASSUME NEW i \in DOMAIN operations
         PROVE  /\ operations[i].order.nonce \in Nat
                /\ Good(operations[i].order) /\ operations[i].order.nonce < nonce
    BY <1>1, OperationAt DEF IInv, NoncesAreUsedUp
  <1>14. NoncesAreUsedUp'
    <2>1. ASSUME NEW i \in DOMAIN operations'
          PROVE  Good(operations'[i].order) /\ operations'[i].order.nonce < nonce'
      BY <1>1, <1>6, <1>8, <1>12, <1>13
    <2>2. ASSUME NEW i \in DOMAIN operations', NEW j \in DOMAIN operations',
                 operations'[i].order.nonce = operations'[j].order.nonce
          PROVE  i = j
      <3>1. CASE i \in DOMAIN operations /\ j \in DOMAIN operations
        BY <1>8, <2>2, <3>1 DEF IInv, NoncesAreUsedUp, OneSignatureOnePurchase
      <3>2. CASE i \in DOMAIN operations /\ j \notin DOMAIN operations
        BY <1>1, <1>8, <1>12, <1>13, <2>2, <3>2
      <3>3. CASE i \notin DOMAIN operations /\ j \in DOMAIN operations
        BY <1>1, <1>8, <1>12, <1>13, <2>2, <3>3
      <3>4. CASE i \notin DOMAIN operations /\ j \notin DOMAIN operations
        BY <1>8, <3>4
      <3>5. QED
        BY <3>1, <3>2, <3>3, <3>4
    <2>3. QED
      BY <2>1, <2>2 DEF NoncesAreUsedUp, OneSignatureOnePurchase, Good
  <1>15. ScreenFollowsOrder'
    <2>1. ASSUME polled' # 0
          PROVE  step' = "submitting" /\ operations'[polled'].order = order'
      <3>1. CASE polled' = polled
        <4>1. polled \in DOMAIN operations
          BY <1>1, <2>1, <3>1 DEF TypeOK
        <4>2. QED
          BY <1>6, <1>8, <2>1, <3>1, <4>1 DEF IInv, ScreenFollowsOrder, form
      <3>2. CASE polled' # polled
        BY <1>6, <1>8, <1>9, <1>12, <3>2 DEF form
      <3>3. QED
        BY <3>1, <3>2
    <2>2. ASSUME step' = "success"
          PROVE  \E i \in DOMAIN operations' :
                   operations'[i].order = order' /\ operations'[i].status = "Succeeded"
      BY <1>6, <1>8, <2>2 DEF IInv, ScreenFollowsOrder, form
    <2>3. QED
      BY <2>1, <2>2 DEF ScreenFollowsOrder
  <1>16. QED
    BY <1>10, <1>11, <1>14, <1>15 DEF IInv

(* An operation ends: nothing but its status changes, and what succeeded   *)
(* stays so.                                                               *)
LEMMA EndKeeps ==
  ASSUME IInv, NEW i \in DOMAIN operations, Succeed(i) \/ Fail(i)
  PROVE  IInv'
  <1> DEFINE r == operations[i].order
             w == Writer[r.offer]
             d == operations[i].debit
             was == operations[i].was
  <1>1. TypeOK /\ operations[i] \in Operations /\ r \in Orders
        /\ d \in Nat /\ was \in Nat /\ r.quantity \in Nat
    BY OperationAt DEF IInv
  <1>2. r.offer \in Offers
    BY DEF IInv, NoncesAreUsedUp, Good
  <1>3. w \in Users /\ Buyer \in Users
    BY <1>2, BuyingAssumption
  <1>4. PICK s \in {"Succeeded", "Failed"} :
          operations' = [operations EXCEPT ![i].status = s]
    BY DEF Succeed, Fail
  <1>5. /\ operations[i].status = "Pending"
        /\ UNCHANGED <<nonce, read, listing, balance, form, sent, polled, moves>>
    BY DEF Succeed, Fail
  <1>6. open' \subseteq open \cup {r.offer}
    BY DEF Succeed, Fail
  <1>7. left' \in [Offers -> Nat] /\ available' \in [Users -> Nat]
    <2>1. left \in [Offers -> Nat] /\ available \in [Users -> Nat]
      BY <1>1 DEF TypeOK
    <2>2. CASE Succeed(i)
      BY <2>1, <2>2 DEF Succeed
    <2>3. CASE Fail(i)
      <3>1. left' = [left EXCEPT ![r.offer] = was]
        BY <2>3 DEF Fail
      <3>2. available' = [available EXCEPT ![w] = @ + r.quantity, ![Buyer] = @ + d]
        BY <2>3 DEF Fail
      <3> HIDE DEF r, w, d, was
      <3>3. available[w] + r.quantity \in Nat /\ available[w] + r.quantity + d \in Nat
            /\ available[Buyer] + d \in Nat
        BY <1>1, <1>3, <2>1
      <3>4. available' \in [Users -> Nat]
        BY <1>1, <1>3, <2>1, <3>2, <3>3
      <3>5. left' \in [Offers -> Nat]
        BY <1>1, <2>1, <3>1
      <3>6. QED
        BY <3>4, <3>5
    <2>4. QED
      BY <2>2, <2>3
  <1> HIDE DEF r, w, d, was
  <1>8. /\ operations \in Seq(Operations) /\ operations' \in Seq(Operations)
        /\ Len(operations') = Len(operations) /\ DOMAIN operations' = DOMAIN operations
        /\ \A j \in DOMAIN operations :
             /\ operations'[j].order = operations[j].order
             /\ operations[j].status = "Succeeded" => operations'[j].status = "Succeeded"
    <2>1. operations \in Seq(Operations)
      BY <1>1 DEF TypeOK
    <2>2. [operations[i] EXCEPT !.status = s] \in Operations
      BY <1>1, <1>4 DEF Operations
    <2>3. operations' \in Seq(Operations)
      BY <1>4, <2>1, <2>2
    <2>4. Len(operations') = Len(operations) /\ DOMAIN operations' = DOMAIN operations
      BY <1>4, <2>1
    <2>5. \A j \in DOMAIN operations :
             /\ operations'[j].order = operations[j].order
             /\ operations[j].status = "Succeeded" => operations'[j].status = "Succeeded"
      <3>1. \A j \in DOMAIN operations : operations[j] \in Operations
        BY <1>1, OperationAt
      <3>2. QED
        BY <1>4, <1>5, <2>1, <3>1 DEF Operations
    <2>6. QED
      BY <2>1, <2>3, <2>4, <2>5
  <1>9. TypeOK'
    BY <1>1, <1>2, <1>5, <1>6, <1>7, <1>8 DEF TypeOK, form
  <1>10. OrdersAreGood'
    BY <1>5 DEF IInv, OrdersAreGood, Good, form
  <1>11. NoncesAreUsedUp'
    BY <1>5, <1>8 DEF IInv, NoncesAreUsedUp, OneSignatureOnePurchase, Good
  <1>12. ScreenFollowsOrder'
    <2>1. polled # 0 => polled \in DOMAIN operations
      BY <1>1 DEF TypeOK
    <2>2. QED
      BY <1>5, <1>8, <2>1 DEF IInv, ScreenFollowsOrder, form
  <1>13. QED
    BY <1>9, <1>10, <1>11, <1>12 DEF IInv

-----------------------------------------------------------------------------
(* Every step of the buyer, of the others and of the network.              *)
LEMMA BuyingStep == ASSUME IInv, Next \/ UNCHANGED vars PROVE IInv'
  <1>1. CASE Purchase
    BY <1>1, SlideKeeps, SignKeeps, ScreenKeeps, TakeKeeps, RefuseKeeps, EndKeeps
    DEF Purchase
  <1>2. CASE UNCHANGED vars
    <2>1. TypeOK'
      BY <1>2 DEF IInv, TypeOK, vars, canister, form
    <2>2. QED
      BY <1>2, <2>1, OrdersRest DEF IInv, vars, canister, form
  <1>3. QED
    BY <1>1, <1>2, BrowseKeeps, OthersKeep DEF Next

(* Together: the invariant holds in every state the model reaches.         *)
THEOREM Inductive == Spec => []IInv
  BY InitIsGood, BuyingStep, PTL DEF Spec

(* Book, form, requests and operations hold what they should: offers,      *)
(* amounts of money, orders.                                               *)
THEOREM TypeCorrect == Spec => []TypeOK
  BY Inductive, PTL DEF IInv

(* An option never costs more premium than the amount the buyer confirmed, *)
(* whatever happened to the book, to prices and to the form since.         *)
THEOREM NeverDearerThanConfirmed == Spec => []PremiumWithinAmount
  <1>1. IInv => PremiumWithinAmount
    BY DEF IInv, NoncesAreUsedUp, PremiumWithinAmount, Good
  <1>2. QED
    BY <1>1, Inductive, PTL

(* The success screen follows the order, and the order what was bought.    *)
LEMMA BoughtIsShown == IInv => SuccessIsBought
  <1> SUFFICES ASSUME IInv PROVE SuccessIsBought
    OBVIOUS
  <1>1. Screen = "success" => step = "success"
    BY DEF Screen, Pages, IInv, TypeOK
  <1>2. QED
    BY <1>1 DEF IInv, ScreenFollowsOrder, SuccessIsBought

(* However often and late the network delivers a request, one slide leads  *)
(* to one operation at most; and the success screen tells of an option     *)
(* that was bought with the order on the screen.                           *)
THEOREM OnePurchaseAndItIsTrue == Spec => [](OneSignatureOnePurchase /\ SuccessIsBought)
  <1>1. IInv => OneSignatureOnePurchase /\ SuccessIsBought
    BY BoughtIsShown DEF IInv, NoncesAreUsedUp
  <1>2. QED
    BY <1>1, Inductive, PTL

(* In front of any list the form picks the cheapest offer that has the     *)
(* size, the oldest of those; and in front of an up-to-date one it orders  *)
(* what the canister takes.                                                *)
THEOREM FormFitsTheBook == Spec => []TheFormFitsTheBook
  <1>1. IInv => TheFormFitsTheBook
    BY TheBestIsPicked, UpToDateIsTaken DEF IInv, TheFormFitsTheBook
  <1>2. QED
    BY <1>1, Inductive, PTL

-----------------------------------------------------------------------------
(* Writing: what holds of the offers of a writer, of his form and of his   *)
(* requests.                                                               *)

Creates ==
  [kind : {"create"}, quantity : Nat, bps : Nat \ {0}, nonce : Nat, attempt : Nat]
Cancels == [kind : {"cancel"}, offer : Write!Ids, nonce : Nat]

(* Ids are given in turn, after those of the book at the start; an offer   *)
(* that was cancelled had one.                                             *)
IdsGiven(k) ==
  /\ DOMAIN wrMade = Len(WriteBook) + 1 .. Len(WriteBook) + k
  /\ DOMAIN wrBook \subseteq 1 .. Len(WriteBook) + k
  /\ \A o \in Write!Ids : wrCancelling[o] = "gone" => o <= Len(WriteBook) + k

WrittenBookIsTyped ==
  /\ \A o \in DOMAIN wrBook : wrBook[o] \in Entries
  /\ wrHeld \in [Write!Ids -> Nat] /\ wrAvailable \in [Users -> Nat]
  /\ wrNonce \in Nat
  /\ \E k \in 0 .. 2 : IdsGiven(k)

WritersFormIsTyped ==
  /\ wrBalance \in Nat /\ wrAmount \in Nat /\ wrPage \in 1 .. 4
  /\ wrBps \in {PremiumValues[i] : i \in DOMAIN PremiumValues}
  /\ wrStep \in {"idle", "signing", "submitting", "success", "error"}
  /\ wrStep = "signing" => wrDraft \in Creates

PortfolioIsTyped ==
  /\ DOMAIN wrCards \subseteq Write!Ids
  /\ wrFetch # <<>> => DOMAIN wrFetch[1] \subseteq Write!Ids
  /\ wrCancelling \in [Write!Ids -> {"no", "sent", "lost", "refused", "gone"}]

(* The number of requests so far tells one attempt from another: what is   *)
(* being signed was not sent, and of what is being submitted there is one  *)
(* request.                                                                *)
AttemptsDiffer ==
  /\ wrSent \subseteq Creates \cup Cancels /\ IsFiniteSet(wrSent)
  /\ \A r \in wrSent : r.kind = "create" => r.attempt < Cardinality(wrSent)
  /\ wrStep = "signing" =>
       /\ wrDraft.attempt <= Cardinality(wrSent)
       /\ \A r \in wrSent : r.kind = "create" => r.attempt # wrDraft.attempt
  /\ wrStep = "submitting" =>
       \A r \in wrSent : r.kind = "create" /\ r.attempt = wrDraft.attempt => r = wrDraft

(* The nonce of an offer is used up, and no other offer has it; success is *)
(* shown of an offer that was made.                                        *)
OffersAreMadeOnce ==
  /\ \A o \in DOMAIN wrMade : wrMade[o].nonce \in Nat /\ wrMade[o].nonce < wrNonce
  /\ Write!OneSignatureOneOffer
  /\ wrStep = "success" => \E o \in DOMAIN wrMade : wrMade[o] = wrDraft

(* What is gone is neither in the book nor in what was read of it.         *)
GoneIsGone ==
  \A o \in Write!Ids :
    wrCancelling[o] = "gone" =>
      /\ o \notin DOMAIN wrBook /\ o \notin DOMAIN wrCards
      /\ wrFetch # <<>> => o \notin DOMAIN wrFetch[1]

WritingInv ==
  /\ WrittenBookIsTyped /\ WritersFormIsTyped /\ PortfolioIsTyped
  /\ AttemptsDiffer /\ OffersAreMadeOnce /\ GoneIsGone

(* What is assumed of the writer's part.                                   *)
LEMMA WritersConstants ==
  /\ Self \in Users /\ WriteAvailable0 \in [Users -> Nat]
  /\ WriteBook \in Seq(Entries) /\ PremiumValues \in Seq(Nat \ {0})
  /\ PremiumValues # <<>> /\ WriteAmounts \subseteq Nat
  /\ MinCreate \in Nat \ {0} /\ MaxCreate \in Nat
  /\ MinAccept \in Nat \ {0} /\ MaxAccept \in Nat
  BY TradingAssumption, OrderBookAssumption DEF Write!WritingAssumption, Entries

(* There are ids for the offers of the book and for two more.              *)
LEMMA IdsAreNumbers ==
  /\ Len(WriteBook) \in Nat /\ DOMAIN WriteBook = 1 .. Len(WriteBook)
  /\ Cardinality(DOMAIN WriteBook) = Len(WriteBook)
  /\ Write!Ids = 1 .. Len(WriteBook) + 2
  <1>1. Len(WriteBook) \in Nat /\ DOMAIN WriteBook = 1 .. Len(WriteBook)
    BY WritersConstants
  <1>2. Cardinality(DOMAIN WriteBook) = Len(WriteBook)
    <2>1. Cardinality(1 .. Len(WriteBook)) = IF 1 > Len(WriteBook) THEN 0 ELSE Len(WriteBook) - 1 + 1
      BY <1>1, FS_Interval
    <2>2. QED
      BY <1>1, <2>1
  <1>3. \A S : Write!Cardinality(S) = Cardinality(S)
    BY DEF Write!Cardinality, Cardinality
  <1>4. QED
    BY <1>1, <1>2, <1>3 DEF Write!Ids

(* At first the writer has signed nothing.                                 *)
LEMMA WritingInit == Write!Init => WritingInv
  <1> SUFFICES ASSUME Write!Init PROVE WritingInv
    OBVIOUS
  <1> USE DEF Write!Init
  <1>1. WrittenBookIsTyped
    <2>1. IdsGiven(0)
      BY IdsAreNumbers DEF IdsGiven
    <2>2. QED
      BY <2>1, WritersConstants, IdsAreNumbers DEF WrittenBookIsTyped
  <1>2. WritersFormIsTyped
    <2>1. Len(PremiumValues) \in Nat \ {0} /\ DOMAIN PremiumValues = 1 .. Len(PremiumValues)
      BY WritersConstants
    <2>2. 1 + Len(PremiumValues) \div 2 \in 1 .. Len(PremiumValues)
      BY <2>1
    <2>3. QED
      BY <2>1, <2>2 DEF WritersFormIsTyped
  <1>3. PortfolioIsTyped /\ OffersAreMadeOnce /\ GoneIsGone
    BY DEF PortfolioIsTyped, OffersAreMadeOnce, GoneIsGone, Write!OneSignatureOneOffer
  <1>4. AttemptsDiffer
    BY FS_EmptySet DEF AttemptsDiffer
  <1>5. QED
    BY <1>1, <1>2, <1>3, <1>4 DEF WritingInv

(* The form alone concerns no offer and no request.                        *)
LEMMA FormAlone ==
  ASSUME WritingInv, WritersFormIsTyped', UNCHANGED <<Write!canister, Write!portfolio, wrSent>>,
         wrStep' \in {"idle", "error"} \/ UNCHANGED <<wrStep, wrDraft>>
  PROVE  WritingInv'
  <1> USE DEF WritingInv, Write!canister, Write!portfolio
  <1>1. WrittenBookIsTyped'
    BY DEF WrittenBookIsTyped, IdsGiven
  <1>2. PortfolioIsTyped' /\ GoneIsGone'
    BY DEF PortfolioIsTyped, GoneIsGone
  <1>3. AttemptsDiffer'
    BY DEF AttemptsDiffer
  <1>4. OffersAreMadeOnce'
    BY DEF OffersAreMadeOnce, Write!OneSignatureOneOffer
  <1>5. QED
    BY <1>1, <1>2, <1>3, <1>4

(* What the form puts in when the largest amount changes is an amount.     *)
LEMMA AdjustedIsAmount ==
  ASSUME NEW funds \in Nat, wrBalance \in Nat, wrAmount \in Nat
  PROVE  Write!Adjusted(funds) \in Nat
  <1> DEFINE largest == Write!LargestOf(funds)
             part4 == (3 * largest) \div 4
  <1>1. largest \in Nat
    BY WritersConstants DEF Write!LargestOf, Write!Smaller
  <1>2. part4 \in Nat
    <2> HIDE DEF largest
    <2>1. QED
      BY <1>1
  <1>3. Write!Max({part4, MinCreate}) \in Nat
    <2> HIDE DEF part4
    <2>1. {part4, MinCreate} \in SUBSET Nat /\ {part4, MinCreate} # {}
      BY <1>2, WritersConstants
    <2>2. IsFiniteSet({part4, MinCreate})
      <3>1. IsFiniteSet({} \cup {part4})
        BY FS_EmptySet, FS_AddElement
      <3>2. IsFiniteSet(({} \cup {part4}) \cup {MinCreate})
        BY <3>1, FS_AddElement
      <3>3. ({} \cup {part4}) \cup {MinCreate} = {part4, MinCreate}
        OBVIOUS
      <3>4. QED
        BY <3>2, <3>3
    <2>3. Max({part4, MinCreate}) \in {part4, MinCreate}
      BY <2>1, <2>2, MaxIsLargest
    <2>4. Write!Max({part4, MinCreate}) = Max({part4, MinCreate})
      BY DEF Write!Max, Max
    <2>5. QED
      BY <2>1, <2>3, <2>4
  <1>4. QED
    BY <1>2, <1>3 DEF Write!Adjusted

(* Lists and balances arrive; the writer types, picks a premium and turns  *)
(* pages; the wallet or the canister refuses; the screen is left.          *)
LEMMA FormKeeps ==
  ASSUME WritingInv,
         \/ Write!RefreshList \/ Write!RefreshAccount \/ Write!Undercut \/ Write!Break
         \/ \E x \in WriteAmounts : Write!Type(x)
         \/ \E i \in DOMAIN PremiumValues : Write!ChoosePremium(i)
         \/ \E to \in DOMAIN Write!Pages : Write!Turn(to)
         \/ \E to \in {1, 4} : Write!Leave(to)
  PROVE  WritingInv'
  <1> USE DEF Write!form
  <1>1. WritersFormIsTyped /\ wrAvailable \in [Users -> Nat]
    BY DEF WritingInv, WrittenBookIsTyped
  <1>2. CASE Write!RefreshList
    <2>1. WritersFormIsTyped'
      BY <1>1, <1>2 DEF Write!RefreshList, WritersFormIsTyped
    <2>2. QED
      BY <1>2, <2>1, FormAlone DEF Write!RefreshList
  <1>3. CASE Write!RefreshAccount
    <2>1. wrBalance' \in Nat
      BY <1>1, <1>3, WritersConstants DEF Write!RefreshAccount
    <2>2. wrAmount' \in Nat
      BY <1>1, <1>3, <2>1, AdjustedIsAmount DEF Write!RefreshAccount, WritersFormIsTyped
    <2>3. WritersFormIsTyped'
      BY <1>1, <1>3, <2>1, <2>2 DEF Write!RefreshAccount, WritersFormIsTyped
    <2>4. QED
      BY <1>3, <2>3, FormAlone DEF Write!RefreshAccount
  <1>4. CASE Write!Undercut
    <2>1. PICK i \in DOMAIN PremiumValues :
            wrBps' = PremiumValues[IF i = 1 THEN 1 ELSE i - 1]
      BY <1>4 DEF Write!Undercut
    <2>2. (IF i = 1 THEN 1 ELSE i - 1) \in DOMAIN PremiumValues
      BY WritersConstants
    <2>3. WritersFormIsTyped'
      BY <1>1, <1>4, <2>1, <2>2 DEF Write!Undercut, WritersFormIsTyped
    <2>4. QED
      BY <1>4, <2>3, FormAlone DEF Write!Undercut
  <1>5. CASE Write!Break
    <2>1. WritersFormIsTyped'
      BY <1>1, <1>5 DEF Write!Break, WritersFormIsTyped
    <2>2. QED
      BY <1>5, <2>1, FormAlone DEF Write!Break
  <1>6. ASSUME NEW x \in WriteAmounts, Write!Type(x)
        PROVE  WritingInv'
    <2>1. WritersFormIsTyped'
      BY <1>1, <1>6, WritersConstants DEF Write!Type, WritersFormIsTyped
    <2>2. QED
      BY <1>6, <2>1, FormAlone DEF Write!Type
  <1>7. ASSUME NEW i \in DOMAIN PremiumValues, Write!ChoosePremium(i)
        PROVE  WritingInv'
    <2>1. WritersFormIsTyped'
      BY <1>1, <1>7 DEF Write!ChoosePremium, WritersFormIsTyped
    <2>2. QED
      BY <1>7, <2>1, FormAlone DEF Write!ChoosePremium
  <1>8. ASSUME NEW to \in DOMAIN Write!Pages, Write!Turn(to)
        PROVE  WritingInv'
    <2>1. WritersFormIsTyped'
      BY <1>1, <1>8 DEF Write!Turn, WritersFormIsTyped, Write!Pages
    <2>2. QED
      BY <1>8, <2>1, FormAlone DEF Write!Turn
  <1>9. ASSUME NEW to \in {1, 4}, Write!Leave(to)
        PROVE  WritingInv'
    <2>1. WritersFormIsTyped'
      BY <1>1, <1>9 DEF Write!Leave, WritersFormIsTyped
    <2>2. QED
      BY <1>9, <2>1, FormAlone DEF Write!Leave
  <1>10. QED
    BY <1>2, <1>3, <1>4, <1>5, <1>6, <1>7, <1>8, <1>9

(* The size of a set is the same in both modules.                          *)
LEMMA CardinalityIsOne == \A S : Write!Cardinality(S) = Cardinality(S)
  BY DEF Write!Cardinality, Cardinality

(* The slide drafts an attempt that no request has.                        *)
LEMMA WriteSlideKeeps == ASSUME WritingInv, Write!Slide PROVE WritingInv'
  <1> USE DEF WritingInv
  <1>1. /\ UNCHANGED <<wrBook, wrHeld, wrAvailable, wrNonce, wrMade, wrListing, wrBalance,
                       wrCards, wrFetch, wrCancelling, wrAmount, wrBps, wrPage, wrSent>>
        /\ wrStep = "idle" /\ wrStep' = "signing"
    BY DEF Write!Slide, Write!canister, Write!portfolio
  <1>2. Cardinality(wrSent) \in Nat
    BY FS_CardinalityType DEF AttemptsDiffer
  <1>3. wrDraft' = [kind |-> "create", quantity |-> wrAmount, bps |-> wrBps,
                    nonce |-> wrNonce, attempt |-> Cardinality(wrSent)]
    BY CardinalityIsOne DEF Write!Slide
  <1>4. wrAmount \in Nat /\ wrNonce \in Nat /\ wrBps \in Nat \ {0}
    BY WritersConstants DEF WritersFormIsTyped, WrittenBookIsTyped
  <1>5. wrDraft' \in Creates /\ wrDraft'.attempt = Cardinality(wrSent)
    BY <1>2, <1>3, <1>4 DEF Creates
  <1>6. WrittenBookIsTyped'
    BY <1>1 DEF WrittenBookIsTyped, IdsGiven
  <1>7. WritersFormIsTyped'
    BY <1>1, <1>5 DEF WritersFormIsTyped
  <1>8. PortfolioIsTyped' /\ GoneIsGone'
    BY <1>1 DEF PortfolioIsTyped, GoneIsGone
  <1>9. AttemptsDiffer'
    <2>1. \A r \in wrSent : r.kind = "create" => r.attempt \in Nat
      BY DEF AttemptsDiffer, Creates, Cancels
    <2>2. QED
      BY <1>1, <1>2, <1>5, <2>1 DEF AttemptsDiffer
  <1>10. OffersAreMadeOnce'
    BY <1>1 DEF OffersAreMadeOnce, Write!OneSignatureOneOffer
  <1>11. QED
    BY <1>6, <1>7, <1>8, <1>9, <1>10

(* The wallet signs the draft, for a nonce it had meanwhile: the request   *)
(* is the only one of its attempt.                                         *)
LEMMA WriteSignKeeps == ASSUME WritingInv, Write!Sign PROVE WritingInv'
  <1> USE DEF WritingInv
  <1>1. /\ UNCHANGED <<wrBook, wrHeld, wrAvailable, wrNonce, wrMade, wrListing, wrBalance,
                       wrCards, wrFetch, wrCancelling, wrAmount, wrBps, wrPage>>
        /\ wrStep = "signing" /\ wrStep' = "submitting" /\ wrSent' = wrSent \cup {wrDraft'}
    BY DEF Write!Sign, Write!canister, Write!portfolio
  <1>2. PICK n \in wrDraft.nonce .. wrNonce : wrDraft' = [wrDraft EXCEPT !.nonce = n]
    BY DEF Write!Sign
  <1>3. wrDraft \in Creates /\ wrNonce \in Nat
    BY <1>1 DEF WritersFormIsTyped, WrittenBookIsTyped
  <1>4. n \in Nat
    BY <1>3 DEF Creates
  <1>5. wrDraft' \in Creates /\ wrDraft'.attempt = wrDraft.attempt
        /\ wrDraft'.kind = "create"
    BY <1>2, <1>3, <1>4 DEF Creates
  <1>6. /\ wrDraft.attempt <= Cardinality(wrSent) /\ wrDraft.attempt \in Nat
        /\ \A r \in wrSent : r.kind = "create" => r.attempt # wrDraft.attempt
    BY <1>1, <1>3 DEF AttemptsDiffer, Creates
  <1>7. wrDraft' \notin wrSent
    BY <1>5, <1>6
  <1>8. IsFiniteSet(wrSent') /\ Cardinality(wrSent') = Cardinality(wrSent) + 1
        /\ Cardinality(wrSent) \in Nat
    BY <1>1, <1>7, FS_AddElement, FS_CardinalityType DEF AttemptsDiffer
  <1>9. AttemptsDiffer'
    <2>1. wrSent' \subseteq Creates \cup Cancels
      BY <1>1, <1>5 DEF AttemptsDiffer
    <2>2. \A r \in wrSent' : r.kind = "create" => r.attempt < Cardinality(wrSent')
      <3>1. \A r \in wrSent : r.kind = "create" => r.attempt \in Nat
        BY DEF AttemptsDiffer, Creates, Cancels
      <3>2. QED
        BY <1>1, <1>5, <1>6, <1>8, <3>1 DEF AttemptsDiffer
    <2>3. \A r \in wrSent' : r.kind = "create" /\ r.attempt = wrDraft'.attempt => r = wrDraft'
      BY <1>1, <1>5, <1>6
    <2>4. QED
      BY <1>1, <1>8, <2>1, <2>2, <2>3 DEF AttemptsDiffer
  <1>10. WrittenBookIsTyped'
    BY <1>1 DEF WrittenBookIsTyped, IdsGiven
  <1>11. WritersFormIsTyped'
    BY <1>1 DEF WritersFormIsTyped
  <1>12. PortfolioIsTyped' /\ GoneIsGone'
    BY <1>1 DEF PortfolioIsTyped, GoneIsGone
  <1>13. OffersAreMadeOnce'
    BY <1>1 DEF OffersAreMadeOnce, Write!OneSignatureOneOffer
  <1>14. QED
    BY <1>9, <1>10, <1>11, <1>12, <1>13

(* create_offer: a new id, and a nonce that is used up.                    *)
LEMMA CreateKeeps ==
  ASSUME WritingInv, NEW r \in wrSent, Write!Create(r)
  PROVE  WritingInv'
  <1> DEFINE o == 1 + Len(WriteBook) + Cardinality(DOMAIN wrMade)
  <1> USE DEF WritingInv
  <1>1. PICK k \in 0 .. 2 : IdsGiven(k)
    BY DEF WrittenBookIsTyped
  <1>2. Len(WriteBook) \in Nat /\ Write!Ids = 1 .. Len(WriteBook) + 2
    BY IdsAreNumbers
  <1>3. o = Len(WriteBook) + k + 1
    <2>1. Cardinality(Len(WriteBook) + 1 .. Len(WriteBook) + k) =
            IF Len(WriteBook) + 1 > Len(WriteBook) + k THEN 0
            ELSE (Len(WriteBook) + k) - (Len(WriteBook) + 1) + 1
      <3>1. Len(WriteBook) + 1 \in Int /\ Len(WriteBook) + k \in Int
        BY <1>2
      <3>2. QED
        BY <3>1, FS_Interval
    <2>2. Cardinality(DOMAIN wrMade) = k
      BY <1>1, <1>2, <2>1 DEF IdsGiven
    <2>3. QED
      BY <1>2, <2>2
  <1>4. /\ r.kind = "create" /\ r.nonce = wrNonce /\ o \in Write!Ids /\ wrNonce' = wrNonce + 1
        /\ UNCHANGED <<wrHeld, wrAvailable, wrListing, wrBalance, wrCards, wrFetch,
                       wrCancelling, wrAmount, wrBps, wrPage, wrDraft, wrSent>>
    BY IdsAreNumbers, CardinalityIsOne DEF Write!Create, Write!Fresh, Write!portfolio
  <1>5. r \in Creates /\ wrNonce \in Nat
    BY <1>4 DEF AttemptsDiffer, Cancels, WrittenBookIsTyped
  <1> DEFINE new == [writer |-> Self, bps |-> r.bps, quantity |-> r.quantity]
             makes ==
               /\ wrBook' = [p \in DOMAIN wrBook \cup {o} |-> IF p = o THEN new ELSE wrBook[p]]
               /\ wrMade' = [p \in DOMAIN wrMade \cup {o} |-> IF p = o THEN r ELSE wrMade[p]]
               /\ wrStep' = IF wrStep = "submitting" /\ r.attempt = wrDraft.attempt
                            THEN "success" ELSE wrStep
  <1>0. makes \/ UNCHANGED <<wrBook, wrMade, wrStep>>
    <2>1. 1 + Write!Cardinality(DOMAIN WriteBook) + Write!Cardinality(DOMAIN wrMade) = o
      BY IdsAreNumbers, CardinalityIsOne
    <2> HIDE DEF o
    <2>2. QED
      BY <2>1 DEF Write!Create
  <1> HIDE DEF o
  <1>6. PortfolioIsTyped'
    BY <1>4 DEF PortfolioIsTyped
  <1>7. CASE UNCHANGED <<wrBook, wrMade, wrStep>>
    <2>1. WrittenBookIsTyped'
      BY <1>4, <1>5, <1>7 DEF WrittenBookIsTyped, IdsGiven
    <2>2. WritersFormIsTyped' /\ GoneIsGone' /\ AttemptsDiffer'
      BY <1>4, <1>7 DEF WritersFormIsTyped, GoneIsGone, AttemptsDiffer
    <2>3. OffersAreMadeOnce'
      BY <1>4, <1>5, <1>7 DEF OffersAreMadeOnce, Write!OneSignatureOneOffer
    <2>4. QED
      BY <1>6, <2>1, <2>2, <2>3
  <1>8. CASE makes
    <2>1. o \notin DOMAIN wrMade /\ o \notin DOMAIN wrBook /\ k + 1 \in 0 .. 2
          /\ wrCancelling[o] # "gone"
      BY <1>1, <1>2, <1>3, <1>4 DEF IdsGiven
    <2>2. DOMAIN wrBook' = DOMAIN wrBook \cup {o} /\ DOMAIN wrMade' = DOMAIN wrMade \cup {o}
          /\ wrMade'[o] = r /\ \A p \in DOMAIN wrMade : wrMade'[p] = wrMade[p]
      BY <1>8, <2>1
    <2>3. IdsGiven(k + 1)'
      <3>1. DOMAIN wrMade' = Len(WriteBook) + 1 .. Len(WriteBook) + (k + 1)
        BY <1>1, <1>2, <1>3, <2>2 DEF IdsGiven
      <3>2. DOMAIN wrBook' \subseteq 1 .. Len(WriteBook) + (k + 1)
        BY <1>1, <1>2, <1>3, <2>2 DEF IdsGiven
      <3>3. \A p \in Write!Ids : wrCancelling'[p] = "gone" => p <= Len(WriteBook) + (k + 1)
        BY <1>1, <1>2, <1>4 DEF IdsGiven
      <3>4. QED
        BY <3>1, <3>2, <3>3 DEF IdsGiven
    <2>4. new \in Entries
      BY <1>5, WritersConstants DEF Creates, Entries
    <2>5. WrittenBookIsTyped'
      BY <1>4, <1>5, <1>8, <2>1, <2>3, <2>4 DEF WrittenBookIsTyped
    <2>6. WritersFormIsTyped'
      BY <1>4, <1>8 DEF WritersFormIsTyped
    <2>7. GoneIsGone'
      BY <1>4, <2>1, <2>2 DEF GoneIsGone
    <2>8. AttemptsDiffer'
      BY <1>4, <1>8 DEF AttemptsDiffer
    <2>9. wrStep' = "success" => \E p \in DOMAIN wrMade' : wrMade'[p] = wrDraft'
      <3>1. CASE wrStep = "submitting" /\ r.attempt = wrDraft.attempt
        <4>1. r = wrDraft
          BY <1>4, <3>1 DEF AttemptsDiffer
        <4>2. QED
          BY <1>4, <2>2, <4>1
      <3>2. CASE wrStep' = wrStep
        BY <1>4, <2>2, <3>2 DEF OffersAreMadeOnce
      <3>3. QED
        BY <1>8, <3>1, <3>2
    <2>10. OffersAreMadeOnce'
      <3>1. \A p \in DOMAIN wrMade' : wrMade'[p].nonce \in Nat /\ wrMade'[p].nonce < wrNonce'
        BY <1>4, <1>5, <2>2 DEF OffersAreMadeOnce
      <3>2. Write!OneSignatureOneOffer'
        BY <1>4, <1>5, <2>2 DEF OffersAreMadeOnce, Write!OneSignatureOneOffer
      <3>3. QED
        BY <2>9, <3>1, <3>2 DEF OffersAreMadeOnce
    <2>11. QED
      BY <1>6, <2>5, <2>6, <2>7, <2>8, <2>10
  <1>9. QED
    BY <1>0, <1>7, <1>8

(* The portfolio is fetched and shown; a cancellation is asked for, or its *)
(* answer is lost.                                                         *)
LEMMA PortfolioKeeps ==
  ASSUME WritingInv,
         \/ Write!FetchCards \/ Write!ShowCards
         \/ \E o \in Write!Ids : Write!AskCancel(o) \/ Write!LoseCancel(o)
  PROVE  WritingInv'
  <1> USE DEF WritingInv, Write!form, Write!canister
  <1>1. CASE Write!FetchCards \/ Write!ShowCards
    <2>1. UNCHANGED <<wrBook, wrHeld, wrAvailable, wrNonce, wrMade, wrListing, wrBalance,
                      wrCancelling, wrAmount, wrBps, wrPage, wrStep, wrDraft, wrSent>>
      BY <1>1 DEF Write!FetchCards, Write!ShowCards
    <2>2. PortfolioIsTyped' /\ GoneIsGone'
      <3>1. CASE Write!FetchCards
        <4>1. /\ UNCHANGED wrCards
              /\ wrFetch' = <<[o \in Write!Own(wrBook) |-> wrBook[o].quantity]>>
          BY <3>1 DEF Write!FetchCards
        <4>2. DOMAIN wrFetch'[1] = Write!Own(wrBook)
          BY <4>1
        <4>3. DOMAIN wrFetch'[1] \subseteq DOMAIN wrBook
          BY <4>2 DEF Write!Own
        <4>4. DOMAIN wrBook \subseteq Write!Ids
          BY IdsAreNumbers DEF WrittenBookIsTyped, IdsGiven
        <4>5. QED
          BY <2>1, <4>1, <4>3, <4>4 DEF PortfolioIsTyped, GoneIsGone
      <3>2. CASE Write!ShowCards
        BY <2>1, <3>2 DEF Write!ShowCards, PortfolioIsTyped, GoneIsGone
      <3>3. QED
        BY <1>1, <3>1, <3>2
    <2>3. WrittenBookIsTyped' /\ WritersFormIsTyped'
      BY <2>1 DEF WrittenBookIsTyped, IdsGiven, WritersFormIsTyped
    <2>4. AttemptsDiffer' /\ OffersAreMadeOnce'
      BY <2>1 DEF AttemptsDiffer, OffersAreMadeOnce, Write!OneSignatureOneOffer
    <2>5. QED
      BY <2>2, <2>3, <2>4
  <1>2. ASSUME NEW o \in Write!Ids, Write!AskCancel(o)
        PROVE  WritingInv'
    <2> DEFINE r == [kind |-> "cancel", offer |-> o, nonce |-> wrNonce]
    <2>1. /\ UNCHANGED <<wrBook, wrHeld, wrAvailable, wrNonce, wrMade, wrListing, wrBalance,
                         wrCards, wrFetch, wrAmount, wrBps, wrPage, wrStep, wrDraft>>
          /\ wrCancelling' = [wrCancelling EXCEPT ![o] = "sent"]
          /\ wrSent' = wrSent \cup {r}
      BY <1>2 DEF Write!AskCancel
    <2>2. r \in Cancels /\ r.kind = "cancel"
      BY DEF WrittenBookIsTyped, Cancels
    <2> HIDE DEF r
    <2>3. PortfolioIsTyped' /\ GoneIsGone'
      BY <2>1 DEF PortfolioIsTyped, GoneIsGone
    <2>4. WrittenBookIsTyped' /\ WritersFormIsTyped'
      BY <2>1 DEF WrittenBookIsTyped, IdsGiven, PortfolioIsTyped, WritersFormIsTyped
    <2>5. IsFiniteSet(wrSent') /\ Cardinality(wrSent') \in Nat /\ Cardinality(wrSent) \in Nat
          /\ Cardinality(wrSent) <= Cardinality(wrSent')
      <3>1. IsFiniteSet(wrSent) /\ Cardinality(wrSent) \in Nat
        BY FS_CardinalityType DEF AttemptsDiffer
      <3>2. IsFiniteSet(wrSent \cup {r})
            /\ Cardinality(wrSent \cup {r}) =
                 IF r \in wrSent THEN Cardinality(wrSent) ELSE Cardinality(wrSent) + 1
        BY <3>1, FS_AddElement
      <3>3. QED
        BY <2>1, <3>1, <3>2
    <2>6. AttemptsDiffer'
      <3>1. \A x \in wrSent' : x.kind = "create" => x \in wrSent /\ x.attempt \in Nat
        BY <2>1, <2>2 DEF AttemptsDiffer, Creates, Cancels
      <3>2. wrStep = "signing" => wrDraft.attempt \in Nat
        BY DEF WritersFormIsTyped, Creates
      <3>3. wrSent' \subseteq Creates \cup Cancels
        BY <2>1, <2>2 DEF AttemptsDiffer
      <3>4. QED
        BY <2>1, <2>5, <3>1, <3>2, <3>3 DEF AttemptsDiffer
    <2>7. OffersAreMadeOnce'
      BY <2>1 DEF OffersAreMadeOnce, Write!OneSignatureOneOffer
    <2>8. QED
      BY <2>3, <2>4, <2>6, <2>7
  <1>3. ASSUME NEW o \in Write!Ids, Write!LoseCancel(o)
        PROVE  WritingInv'
    <2>1. /\ UNCHANGED <<wrBook, wrHeld, wrAvailable, wrNonce, wrMade, wrListing, wrBalance,
                         wrCards, wrFetch, wrAmount, wrBps, wrPage, wrStep, wrDraft, wrSent>>
          /\ wrCancelling' = [wrCancelling EXCEPT ![o] = "lost"]
      BY <1>3 DEF Write!LoseCancel
    <2>2. PortfolioIsTyped' /\ GoneIsGone'
      BY <2>1 DEF PortfolioIsTyped, GoneIsGone
    <2>3. WrittenBookIsTyped' /\ WritersFormIsTyped'
      BY <2>1 DEF WrittenBookIsTyped, IdsGiven, PortfolioIsTyped, WritersFormIsTyped
    <2>4. AttemptsDiffer' /\ OffersAreMadeOnce'
      BY <2>1 DEF AttemptsDiffer, OffersAreMadeOnce, Write!OneSignatureOneOffer
    <2>5. QED
      BY <2>2, <2>3, <2>4
  <1>4. QED
    BY <1>1, <1>2, <1>3

(* The canister cancels an offer, and the writer hears of it or does not;  *)
(* or it refuses.                                                          *)
LEMMA CancelKeeps ==
  ASSUME WritingInv, NEW r \in wrSent, Write!Cancel(r) \/ Write!RefuseCancel(r)
  PROVE  WritingInv'
  <1> USE DEF WritingInv, Write!form
  <1>1. r.offer \in Write!Ids /\ wrNonce \in Nat
    <2>1. r.kind = "cancel"
      BY DEF Write!Cancel, Write!RefuseCancel
    <2>2. QED
      BY <2>1 DEF AttemptsDiffer, Creates, Cancels, WrittenBookIsTyped
  <1>2. UNCHANGED <<wrHeld, wrAvailable, wrMade, wrListing, wrBalance,
                    wrAmount, wrBps, wrPage, wrStep, wrDraft, wrSent>>
    BY DEF Write!Cancel, Write!RefuseCancel
  <1>3. wrNonce' \in Nat /\ wrNonce <= wrNonce'
    BY <1>1 DEF Write!Cancel, Write!RefuseCancel
  <1>4. WritersFormIsTyped' /\ AttemptsDiffer'
    BY <1>2 DEF WritersFormIsTyped, AttemptsDiffer
  <1>5. OffersAreMadeOnce'
    BY <1>1, <1>2, <1>3 DEF OffersAreMadeOnce, Write!OneSignatureOneOffer
  <1>6. PICK k \in 0 .. 2 : IdsGiven(k)
    BY DEF WrittenBookIsTyped
  <1>7. CASE Write!Cancel(r)
    <2>1. r.offer \in DOMAIN wrBook
      BY <1>7 DEF Write!Cancel
    <2>2. /\ DOMAIN wrBook' = DOMAIN wrBook \ {r.offer}
          /\ \A o \in DOMAIN wrBook' : wrBook'[o] = wrBook[o]
      BY <1>7 DEF Write!Cancel, Write!Restrict
    <2>3. /\ wrCancelling' \in [Write!Ids -> {"no", "sent", "lost", "refused", "gone"}]
          /\ \A o \in Write!Ids : wrCancelling'[o] = "gone" => wrCancelling[o] = "gone" \/ o = r.offer
      BY <1>1, <1>7 DEF Write!Cancel, Write!portfolio, PortfolioIsTyped
    <2>4. /\ DOMAIN wrCards' \subseteq DOMAIN wrCards
          /\ wrFetch' # <<>> => wrFetch' = wrFetch
          /\ wrCancelling' # wrCancelling => r.offer \notin DOMAIN wrCards' /\ wrFetch' = <<>>
      BY <1>7 DEF Write!Cancel, Write!DropCard, Write!Restrict, Write!portfolio
    <2>5. PortfolioIsTyped'
      BY <2>3, <2>4 DEF PortfolioIsTyped
    <2>6. GoneIsGone'
      BY <2>2, <2>3, <2>4 DEF GoneIsGone
    <2>7. IdsGiven(k)'
      BY <1>2, <1>6, <2>1, <2>2, <2>3, IdsAreNumbers DEF IdsGiven
    <2>8. WrittenBookIsTyped'
      BY <1>2, <1>3, <2>2, <2>7 DEF WrittenBookIsTyped
    <2>9. QED
      BY <1>4, <1>5, <2>5, <2>6, <2>8
  <1>8. CASE Write!RefuseCancel(r)
    <2>1. /\ UNCHANGED <<wrBook, wrCards, wrFetch>>
          /\ wrCancelling' = [wrCancelling EXCEPT ![r.offer] = "refused"]
      BY <1>8 DEF Write!RefuseCancel
    <2>2. PortfolioIsTyped' /\ GoneIsGone'
      BY <1>1, <2>1 DEF PortfolioIsTyped, GoneIsGone
    <2>3. IdsGiven(k)'
      BY <1>1, <1>2, <1>6, <2>1 DEF IdsGiven, PortfolioIsTyped
    <2>4. WrittenBookIsTyped'
      BY <1>2, <1>3, <2>1, <2>3 DEF WrittenBookIsTyped
    <2>5. QED
      BY <1>4, <1>5, <2>2, <2>4
  <1>9. QED
    BY <1>7, <1>8

(* What a move of the others leaves of the book: its offers keep who wrote *)
(* them and what they cost, and none is new.                               *)
LEMMA OthersMove ==
  ASSUME WritingInv, NEW o \in Write!Ids,
         \/ Write!Hold(o, MinAccept)
         \/ \E sold \in BOOLEAN : Write!Release(o, sold)
  PROVE  /\ DOMAIN wrBook' \subseteq DOMAIN wrBook
         /\ \A p \in DOMAIN wrBook' : wrBook'[p] \in Entries
         /\ wrHeld' \in [Write!Ids -> Nat] /\ wrAvailable' \in [Users -> Nat]
  <1>1. /\ wrHeld \in [Write!Ids -> Nat] /\ wrAvailable \in [Users -> Nat]
        /\ \A p \in DOMAIN wrBook : wrBook[p] \in Entries
    BY DEF WritingInv, WrittenBookIsTyped
  <1>2. o \in DOMAIN wrBook
    BY DEF Write!Hold, Write!Release
  <1>3. /\ wrBook[o] \in Entries /\ wrBook[o].quantity \in Nat /\ wrBook[o].writer \in Users
        /\ wrAvailable[wrBook[o].writer] \in Nat /\ wrHeld[o] \in Nat
    BY <1>1, <1>2 DEF Entries
  <1> DEFINE u == wrBook[o].writer
  <1>4. CASE Write!Hold(o, MinAccept)
    <2>1. MinAccept \in Nat /\ MinAccept <= wrBook[o].quantity /\ MinAccept <= wrAvailable[u]
      BY <1>3, <1>4, WritersConstants DEF Write!Hold, Write!Smaller
    <2>2. wrBook' = [wrBook EXCEPT ![o].quantity = @ - MinAccept]
      BY <1>4 DEF Write!Hold
    <2>3. [wrBook[o] EXCEPT !.quantity = @ - MinAccept] \in Entries
      BY <1>3, <2>1 DEF Entries
    <2>4. DOMAIN wrBook' = DOMAIN wrBook /\ \A p \in DOMAIN wrBook' : wrBook'[p] \in Entries
      BY <1>1, <2>2, <2>3
    <2>5. wrAvailable' \in [Users -> Nat]
      <3>1. wrAvailable' = [wrAvailable EXCEPT ![u] = @ - MinAccept]
        BY <1>4 DEF Write!Hold
      <3>2. QED
        BY <1>1, <1>3, <2>1, <3>1
    <2>6. wrHeld' \in [Write!Ids -> Nat]
      BY <1>1, <1>4, <2>1 DEF Write!Hold
    <2>7. QED
      BY <2>2, <2>4, <2>5, <2>6
  <1>5. ASSUME NEW sold \in BOOLEAN, Write!Release(o, sold)
        PROVE  /\ DOMAIN wrBook' \subseteq DOMAIN wrBook
               /\ \A p \in DOMAIN wrBook' : wrBook'[p] \in Entries
               /\ wrHeld' \in [Write!Ids -> Nat] /\ wrAvailable' \in [Users -> Nat]
    <2>1. wrHeld' \in [Write!Ids -> Nat]
      BY <1>1, <1>5 DEF Write!Release
    <2>2. CASE sold
      <3>1. UNCHANGED wrAvailable
        BY <1>5, <2>2 DEF Write!Release
      <3>2. wrBook' = wrBook \/ wrBook' = Write!Restrict(wrBook, DOMAIN wrBook \ {o})
        BY <1>5, <2>2 DEF Write!Release
      <3>3. QED
        BY <1>1, <2>1, <3>1, <3>2 DEF Write!Restrict
    <2>3. CASE ~ sold
      <3>1. wrBook' = [wrBook EXCEPT ![o].quantity = @ + wrHeld[o]]
        BY <1>5, <2>3 DEF Write!Release
      <3>2. [wrBook[o] EXCEPT !.quantity = @ + wrHeld[o]] \in Entries
        BY <1>3 DEF Entries
      <3>3. \A p \in DOMAIN wrBook' : wrBook'[p] \in Entries
        BY <1>1, <3>1, <3>2
      <3>4. wrAvailable' = [wrAvailable EXCEPT ![u] = @ + wrHeld[o]]
        BY <1>5, <2>3 DEF Write!Release
      <3>5. wrAvailable' \in [Users -> Nat]
        BY <1>1, <1>3, <3>4
      <3>6. QED
        BY <2>1, <3>1, <3>3, <3>5
    <2>4. QED
      BY <2>2, <2>3
  <1>6. QED
    BY <1>4, <1>5

(* What others do in front of the writer's book.                           *)
LEMMA WriteOthersKeep == ASSUME WritingInv, Write!Others PROVE WritingInv'
  <1> USE DEF WritingInv, Write!form, Write!portfolio
  <1>1. UNCHANGED <<wrNonce, wrMade, wrListing, wrBalance, wrCards, wrFetch, wrCancelling,
                    wrAmount, wrBps, wrPage, wrStep, wrDraft, wrSent>>
    BY DEF Write!Others
  <1>2. /\ DOMAIN wrBook' \subseteq DOMAIN wrBook
        /\ \A p \in DOMAIN wrBook' : wrBook'[p] \in Entries
        /\ wrHeld' \in [Write!Ids -> Nat] /\ wrAvailable' \in [Users -> Nat]
    <2>1. ASSUME NEW u \in Users, Write!Spend(u, MinAccept)
          PROVE  /\ UNCHANGED <<wrBook, wrHeld>> /\ wrAvailable' \in [Users -> Nat]
      BY <2>1, WritersConstants DEF Write!Spend, WrittenBookIsTyped
    <2>2. QED
      BY <2>1, OthersMove DEF Write!Others, WrittenBookIsTyped
  <1>3. PICK k \in 0 .. 2 : IdsGiven(k)
    BY DEF WrittenBookIsTyped
  <1>4. IdsGiven(k)'
    BY <1>1, <1>2, <1>3 DEF IdsGiven
  <1>5. WrittenBookIsTyped'
    BY <1>1, <1>2, <1>4 DEF WrittenBookIsTyped
  <1>6. PortfolioIsTyped' /\ GoneIsGone' /\ WritersFormIsTyped'
    BY <1>1, <1>2 DEF PortfolioIsTyped, GoneIsGone, WritersFormIsTyped
  <1>7. AttemptsDiffer' /\ OffersAreMadeOnce'
    BY <1>1 DEF AttemptsDiffer, OffersAreMadeOnce, Write!OneSignatureOneOffer
  <1>8. QED
    BY <1>5, <1>6, <1>7

(* Every step of the writer, of the others and of the network.             *)
LEMMA WritingStep ==
  ASSUME WritingInv, Write!Next \/ UNCHANGED wrVars
  PROVE  WritingInv'
  <1>1. CASE Write!Next
    BY <1>1, FormKeeps, WriteSlideKeeps, WriteSignKeeps, PortfolioKeeps, CreateKeeps,
       CancelKeeps, WriteOthersKeep DEF Write!Next, Write!Form, Write!Portfolio
  <1>2. CASE UNCHANGED wrVars
    <2>1. WritersFormIsTyped'
      BY <1>2 DEF wrVars, WritersFormIsTyped, WritingInv
    <2>2. QED
      BY <1>2, <2>1, FormAlone DEF wrVars, Write!canister, Write!portfolio
  <1>3. QED
    BY <1>1, <1>2

-----------------------------------------------------------------------------
(* What a writer is told of the book.                                      *)

(* The book is one thing to the buyer's form and to the writer's.          *)
LEMMA SameBook ==
  ASSUME NEW b, NEW o, NEW p, NEW x, NEW funds
  PROVE  /\ Write!Listed(b, funds) = Listed(b, funds)
         /\ Write!Before(b, o, p) <=> Before(b, o, p)
         /\ Write!Serves(b, o, x) <=> Serves(b, o, x)
         /\ Write!BestOffer(b, x) = BestOffer(b, x)
         /\ Write!MaxPremium(b) = MaxPremium(b)
  <1>1. Write!Listed(b, funds) = Listed(b, funds)
    BY DEF Write!Listed, Listed, Write!Sent, Sent, Write!Restrict, Restrict,
       Write!EffectiveRemaining, EffectiveRemaining, Write!Smaller, Smaller
  <1>2. Write!Before(b, o, p) <=> Before(b, o, p)
    BY DEF Write!Before, Before
  <1>3. Write!Serves(b, o, x) <=> Serves(b, o, x)
    BY DEF Write!Serves, Serves, Write!QuantityFor, QuantityFor
  <1>4. Write!BestOffer(b, x) = BestOffer(b, x)
    BY DEF Write!BestOffer, BestOffer, Write!Serves, Serves, Write!QuantityFor, QuantityFor,
       Write!Before, Before, Write!NoOffer, NoOffer
  <1>5. Write!MaxPremium(b) = MaxPremium(b)
    BY DEF Write!MaxPremium, MaxPremium, Write!Max, Max, Write!PremiumOf, PremiumOf,
       Write!Smaller, Smaller
  <1>6. QED
    BY <1>1, <1>2, <1>3, <1>4, <1>5

(* The offers nobody holds, and the list of them.                          *)
LEMMA FreshBook ==
  ASSUME WritingInv
  PROVE  /\ Numbered(Write!Open(wrBook, wrHeld))
         /\ DOMAIN Write!Open(wrBook, wrHeld) \subseteq DOMAIN wrBook
         /\ \A o \in DOMAIN Write!Open(wrBook, wrHeld) :
              Write!Open(wrBook, wrHeld)[o] = wrBook[o]
         /\ Write!FreshList = Listed(Write!Open(wrBook, wrHeld), wrAvailable)
         /\ Numbered(Write!FreshList)
         /\ DOMAIN Write!FreshList \subseteq DOMAIN Write!Open(wrBook, wrHeld)
         /\ DOMAIN wrBook \in SUBSET (Nat \ {0}) /\ IsFiniteSet(DOMAIN wrBook)
         /\ wrAvailable \in [Users -> Nat]
  <1> DEFINE b == Write!Open(wrBook, wrHeld)
  <1>1. /\ \A o \in DOMAIN wrBook : wrBook[o] \in Entries
        /\ wrAvailable \in [Users -> Nat]
    BY DEF WritingInv, WrittenBookIsTyped
  <1>2. DOMAIN wrBook \in SUBSET (Nat \ {0}) /\ IsFiniteSet(DOMAIN wrBook)
    <2>1. PICK k \in 0 .. 2 : IdsGiven(k)
      BY DEF WritingInv, WrittenBookIsTyped
    <2>2. Len(WriteBook) + k \in Nat
      BY IdsAreNumbers
    <2>3. IsFiniteSet(1 .. Len(WriteBook) + k)
      BY <2>2, FS_Interval
    <2>4. QED
      BY <2>1, <2>2, <2>3, FS_Subset DEF IdsGiven
  <1>3. DOMAIN b \subseteq DOMAIN wrBook /\ \A o \in DOMAIN b : b[o] = wrBook[o]
    BY DEF Write!Open, Write!Restrict
  <1> HIDE DEF b
  <1>4. Numbered(b)
    BY <1>1, <1>2, <1>3, FS_Subset DEF Numbered
  <1>5. Write!FreshList = Listed(b, wrAvailable)
    BY SameBook DEF Write!FreshList, b
  <1>6. Numbered(Listed(b, wrAvailable)) /\ DOMAIN Listed(b, wrAvailable) \subseteq DOMAIN b
    BY <1>1, <1>4, ListedBook
  <1>7. QED
    BY <1>1, <1>2, <1>3, <1>4, <1>5, <1>6 DEF b

(* The rank shown is the rank got: the offer that is made is the newest,   *)
(* so those before it are those that cost no more.                         *)
LEMMA RankIsGot == ASSUME WritingInv PROVE Write!RankShownIsRankGot
  <1> DEFINE before == Write!FreshList
             top == Write!Max({0} \cup DOMAIN wrBook)
             o == 1 + top
             new == [writer |-> Self, bps |-> wrBps, quantity |-> wrAmount]
             after == [p \in DOMAIN before \cup {o} |-> IF p = o THEN new ELSE before[p]]
             A == {p \in DOMAIN after : Write!Before(after, p, o)}
             B == {p \in DOMAIN before : before[p].bps <= wrBps}
  <1>1. /\ Numbered(before) /\ DOMAIN before \subseteq DOMAIN wrBook
        /\ DOMAIN wrBook \in SUBSET (Nat \ {0}) /\ IsFiniteSet(DOMAIN wrBook)
    BY FreshBook
  <1>2. top \in Nat /\ \A p \in DOMAIN wrBook : p <= top
    <2>1. IsFiniteSet({0} \cup DOMAIN wrBook)
      <3>1. IsFiniteSet(DOMAIN wrBook \cup {0})
        BY <1>1, FS_AddElement
      <3>2. DOMAIN wrBook \cup {0} = {0} \cup DOMAIN wrBook
        OBVIOUS
      <3>3. QED
        BY <3>1, <3>2
    <2>2. {0} \cup DOMAIN wrBook \in SUBSET Nat /\ {0} \cup DOMAIN wrBook # {}
      BY <1>1
    <2>3. /\ Max({0} \cup DOMAIN wrBook) \in {0} \cup DOMAIN wrBook
          /\ \A y \in {0} \cup DOMAIN wrBook : Max({0} \cup DOMAIN wrBook) >= y
      BY <2>1, <2>2, MaxIsLargest
    <2>4. top = Max({0} \cup DOMAIN wrBook)
      BY DEF Write!Max, Max
    <2> HIDE DEF top
    <2>5. QED
      BY <2>2, <2>3, <2>4
  <1> HIDE DEF top
  <1>3. o \in Nat /\ o \notin DOMAIN before /\ \A p \in DOMAIN before : p < o /\ p \in Nat
    BY <1>1, <1>2
  <1>4. /\ DOMAIN after = DOMAIN before \cup {o} /\ after[o].bps = wrBps
        /\ \A p \in DOMAIN before : after[p] = before[p]
    BY <1>3
  <1>5. wrBps \in Nat /\ \A p \in DOMAIN before : before[p].bps \in Nat
    BY <1>1, WritersConstants DEF WritingInv, WritersFormIsTyped, Numbered, Entries
  <1> HIDE DEF before, after, o
  <1>6. A = B
    <2>1. \A p \in DOMAIN before : Write!Before(after, p, o) <=> before[p].bps <= wrBps
      BY <1>3, <1>4, <1>5 DEF Write!Before
    <2>2. ~ Write!Before(after, o, o)
      BY <1>3, <1>4, <1>5 DEF Write!Before
    <2>3. QED
      BY <1>4, <2>1, <2>2
  <1>7. Write!RankInBook(after, o) = Write!RankShown(before, wrBps)
    BY <1>6 DEF Write!RankInBook, Write!RankShown
  <1>8. QED
    BY <1>7 DEF Write!RankShownIsRankGot, before, after, o, top

(* A card says of the backing what the list says.                          *)
LEMMA CardsAgree == ASSUME WritingInv PROVE Write!CardsAgreeWithTheList
  <1> DEFINE b == Write!Open(wrBook, wrHeld)
             fresh == Write!FreshList
             funds == wrAvailable[Self]
  <1>1. /\ fresh = Listed(b, wrAvailable) /\ Numbered(b)
        /\ \A o \in DOMAIN b : b[o] = wrBook[o]
        /\ wrAvailable \in [Users -> Nat]
    BY FreshBook
  <1>2. SUFFICES ASSUME NEW o \in Write!Own(b)
                 PROVE  /\ Write!CancelOnly(wrBook[o].quantity, funds) <=> o \notin DOMAIN fresh
                        /\ o \in DOMAIN fresh =>
                             fresh[o].quantity = Write!Backed(wrBook[o].quantity, funds)
    BY DEF Write!CardsAgreeWithTheList
  <1>3. o \in DOMAIN b /\ b[o].writer = Self /\ b[o] \in Entries
    BY <1>1 DEF Write!Own, Numbered
  <1> HIDE DEF b, fresh
  <1> DEFINE remaining == b[o].quantity
             eff == EffectiveRemaining(b[o], wrAvailable)
  <1>4. remaining \in Nat /\ funds \in Nat /\ MinAccept \in Nat \ {0} /\ wrBook[o] = b[o]
    BY <1>1, <1>3, WritersConstants DEF Entries
  <1>5. eff = Write!Backed(remaining, funds) /\ eff \in Nat /\ eff <= remaining
        /\ (eff < remaining \/ eff = remaining)
    BY <1>3, <1>4 DEF EffectiveRemaining, Smaller, Write!Backed, Write!Smaller
  <1>6. /\ o \in DOMAIN fresh <=> eff >= MinAccept
        /\ o \in DOMAIN fresh => fresh[o].quantity = eff
    <2> DEFINE A == Sent(b, wrAvailable)
    <2>1. /\ o \in DOMAIN A <=> eff > 0
          /\ o \in DOMAIN A => A[o] = [b[o] EXCEPT !.quantity = eff]
      BY <1>3 DEF Sent
    <2>2. /\ o \in DOMAIN fresh <=> o \in DOMAIN A /\ A[o].quantity >= MinAccept
          /\ o \in DOMAIN fresh => fresh[o] = A[o]
      BY <1>1 DEF Listed, Restrict
    <2> HIDE DEF A, eff
    <2>3. o \in DOMAIN A => A[o].quantity = eff
      BY <1>3, <2>1 DEF Entries
    <2>4. QED
      BY <1>4, <1>5, <2>1, <2>2, <2>3
  <1> HIDE DEF eff, remaining, funds
  <1>7. Write!CancelOnly(remaining, funds) <=> ~ (eff >= MinAccept)
    BY <1>4, <1>5 DEF Write!CancelOnly
  <1>8. QED
    BY <1>4, <1>5, <1>6, <1>7 DEF remaining

(* The offer no other comes before is matched to every amount it serves.   *)
LEMMA BestOneIsMatched == ASSUME WritingInv PROVE Write!BestIsMatched
  <1> DEFINE fresh == Write!FreshList
  <1>1. Numbered(fresh)
    BY FreshBook
  <1>2. MaxPremium(fresh) \in Nat
    BY <1>1, MaxPremiumIsAmount
  <1>3. SUFFICES ASSUME NEW o \in DOMAIN fresh, Write!RankInBook(fresh, o) = 1,
                        NEW x \in 1 .. MaxPremium(fresh), Serves(fresh, o, x)
                 PROVE  BestOffer(fresh, x) = o
    BY SameBook DEF Write!BestIsMatched
  <1> HIDE DEF fresh
  <1> DEFINE A == {p \in DOMAIN fresh : Write!Before(fresh, p, o)}
  <1>4. IsFiniteSet(A)
    BY <1>1, FS_Subset DEF Numbered
  <1>5. 1 + Cardinality(A) = 1
    BY <1>3, CardinalityIsOne DEF Write!RankInBook
  <1>6. Cardinality(A) \in Nat
    BY <1>4, FS_CardinalityType
  <1>7. A = {}
    <2> HIDE DEF A
    <2>1. Cardinality(A) = 0
      BY <1>5, <1>6
    <2>2. QED
      BY <1>4, <2>1, FS_EmptySet
  <1>8. \A p \in DOMAIN fresh : ~ Before(fresh, p, o)
    BY <1>7, SameBook
  <1>9. x \in Nat \ {0}
    BY <1>2, <1>3
  <1>10. BestOffer(fresh, x) \in DOMAIN fresh
         /\ (o # BestOffer(fresh, x) => Before(fresh, BestOffer(fresh, x), o))
    BY <1>1, <1>3, <1>9, BestIsFirst
  <1>11. QED
    BY <1>8, <1>10

(* The whole part of a fraction is within one of it.                       *)
LEMMA QuotientIsClose ==
  ASSUME NEW a \in Nat, NEW b \in Nat \ {0}
  PROVE  a \div b \in Nat /\ (a \div b) * b <= a /\ a < (a \div b) * b + b
  <1>1. a \div b \in Nat /\ (a \div b) * b <= a
    BY Quotient
  <1>2. a < (a \div b) * b + b
    BY SMTT(30)
  <1>3. QED
    BY <1>1, <1>2

(* A larger divisor gives no larger a quotient.                            *)
LEMMA DearerBuysLess ==
  ASSUME NEW a \in Nat, NEW b \in Nat \ {0}, NEW c \in Nat \ {0}, c <= b
  PROVE  a \div b <= a \div c
  <1> DEFINE m == a \div b
             n == a \div c
  <1>1. m \in Nat /\ m * b <= a /\ n \in Nat /\ a < n * c + c
    BY QuotientIsClose
  <1> HIDE DEF m, n
  <1>2. SUFFICES ASSUME n + 1 <= m PROVE FALSE
    BY <1>1 DEF m, n
  <1>3. (n + 1) * c <= m * c
    BY <1>1, <1>2, SMTT(30)
  <1>4. m * c <= m * b
    BY <1>1, SMTT(30)
  <1>5. (n + 1) * c = n * c + c
    BY <1>1
  <1>6. n * c \in Nat /\ m * c \in Nat /\ m * b \in Nat
    BY <1>1
  <1>7. QED
    BY <1>1, <1>3, <1>4, <1>5, <1>6

(* The premium of a quantity, in whole satoshis, buys back all but what    *)
(* one satoshi buys.                                                       *)
LEMMA RoundTrip ==
  ASSUME NEW q \in Nat, NEW bps \in Nat \ {0}
  PROVE  /\ PremiumOf(bps, q) \in Nat /\ Ceil(10000, bps) \in Nat
         /\ QuantityFor(bps, PremiumOf(bps, q)) \in Nat
         /\ QuantityFor(bps, PremiumOf(bps, q)) <= q
         /\ q <= QuantityFor(bps, PremiumOf(bps, q)) + Ceil(10000, bps)
  <1> DEFINE x == PremiumOf(bps, q)
             k == QuantityFor(bps, x)
             c == Ceil(10000, bps)
             cost == q * bps
  <1>1. x \in Nat /\ x * 10000 <= cost /\ cost < x * 10000 + 10000
    <2>1. cost \in Nat
      OBVIOUS
    <2>2. QED
      BY <2>1, QuotientIsClose DEF PremiumOf
  <1> HIDE DEF x
  <1>2. k \in Nat /\ k * bps <= x * 10000 /\ x * 10000 < k * bps + bps
    <2> DEFINE a == x * 10000
    <2>1. a \in Nat /\ k = a \div bps
      BY <1>1 DEF QuantityFor
    <2> HIDE DEF a, k
    <2>2. k \in Nat /\ k * bps <= a /\ a < k * bps + bps
      BY <2>1, QuotientIsClose
    <2>3. QED
      BY <2>2 DEF a
  <1>3. c \in Nat /\ 10000 <= c * bps
    <2>1. 10000 + bps - 1 \in Nat
      OBVIOUS
    <2>2. c \in Nat /\ 10000 + bps - 1 < c * bps + bps
      BY <2>1, QuotientIsClose DEF Ceil
    <2> HIDE DEF c
    <2>3. c * bps \in Nat
      BY <2>2
    <2>4. QED
      BY <2>2, <2>3
  <1> HIDE DEF k, c
  <1>4. k <= q
    <2>1. SUFFICES ASSUME q + 1 <= k PROVE FALSE
      BY <1>2
    <2>2. (q + 1) * bps <= k * bps
      BY <1>2, <2>1, SMTT(30)
    <2>3. (q + 1) * bps = cost + bps /\ cost \in Nat /\ k * bps \in Nat
      BY <1>2
    <2>4. QED
      BY <1>1, <1>2, <2>2, <2>3
  <1>5. q <= k + c
    <2>1. SUFFICES ASSUME k + c + 1 <= q PROVE FALSE
      BY <1>2, <1>3
    <2>2. (k + c + 1) * bps <= q * bps
      BY <1>2, <1>3, <2>1, SMTT(30)
    <2>3. (k + c + 1) * bps = k * bps + c * bps + bps
      BY <1>2, <1>3
    <2>4. k * bps \in Nat /\ c * bps \in Nat /\ cost \in Nat
      BY <1>2, <1>3
    <2>5. QED
      BY <1>1, <1>2, <1>3, <2>2, <2>3, <2>4
  <1>6. QED
    BY <1>1, <1>2, <1>3, <1>4, <1>5 DEF x, k, c

(* The largest offer is matched to what its quantity costs: cheaper offers *)
(* are too small for that amount.                                          *)
LEMMA LargestOneIsMatched == ASSUME WritingInv PROVE Write!LargestIsMatched
  <1> DEFINE fresh == Write!FreshList
  <1>1. Numbered(fresh)
    BY FreshBook
  <1>2. \A bps : Write!Ceil(10000, bps) = Ceil(10000, bps)
    BY DEF Write!Ceil, Ceil
  <1>3. SUFFICES ASSUME NEW o \in DOMAIN fresh,
                        \A p \in DOMAIN fresh \ {o} :
                          fresh[p].quantity < fresh[o].quantity - Ceil(10000, fresh[o].bps),
                        MinAccept <= fresh[o].quantity - Ceil(10000, fresh[o].bps),
                        fresh[o].quantity <= MaxAccept
                 PROVE  \E x \in 1 .. MaxPremium(fresh) : BestOffer(fresh, x) = o
    BY <1>2, SameBook DEF Write!LargestIsMatched
  <1> HIDE DEF fresh
  <1> DEFINE q == fresh[o].quantity
             bps == fresh[o].bps
             c == Ceil(10000, bps)
             x == PremiumOf(bps, q)
             k == QuantityFor(bps, x)
  <1>4. q \in Nat /\ bps \in Nat \ {0}
    BY <1>1 DEF Numbered, Entries
  <1>5. x \in Nat /\ c \in Nat /\ k \in Nat /\ k <= q /\ q <= k + c
    <2> HIDE DEF q, bps
    <2>1. /\ PremiumOf(bps, q) \in Nat /\ Ceil(10000, bps) \in Nat
          /\ QuantityFor(bps, PremiumOf(bps, q)) \in Nat
          /\ QuantityFor(bps, PremiumOf(bps, q)) <= q
          /\ q <= QuantityFor(bps, PremiumOf(bps, q)) + Ceil(10000, bps)
      BY <1>4, RoundTrip
    <2>2. QED
      BY <2>1
  <1>6. MinAccept \in Nat \ {0} /\ MaxAccept \in Nat
    BY WritersConstants
  <1>7. MinAccept <= q - c /\ q <= MaxAccept
    BY <1>3
  <1>8. k >= MinAccept /\ k <= MaxAccept /\ k > 0
    <2> HIDE DEF k, c, q, x
    <2>1. QED
      BY <1>4, <1>5, <1>6, <1>7
  <1>9. x # 0
    <2>1. SUFFICES ASSUME x = 0 PROVE k = 0
      BY <1>8
    <2>2. k = 0 \div bps
      BY <2>1 DEF QuantityFor
    <2> HIDE DEF k
    <2>3. k * bps <= 0
      BY <1>4, <2>2, QuotientIsClose
    <2>4. bps >= 1 /\ k * bps \in Nat
      BY <1>4, <1>5
    <2>5. k * 1 <= k * bps
      BY <1>4, <1>5, <2>4, SMTT(30)
    <2>6. QED
      BY <1>5, <2>3, <2>4, <2>5
  <1>10. Serves(fresh, o, x)
    BY <1>5, <1>8 DEF Serves
  <1>11. x <= MaxPremium(fresh) /\ MaxPremium(fresh) \in Nat
    <2>1. Smaller(q, MaxAccept) = q
      BY <1>4, <1>6, <1>7 DEF Smaller
    <2>2. QED
      BY <1>1, <2>1, MaxPremiumIsAmount
  <1> DEFINE best == BestOffer(fresh, x)
  <1>12. best \in DOMAIN fresh /\ Serves(fresh, best, x)
         /\ (o # best => Before(fresh, best, o))
    BY <1>1, <1>5, <1>9, <1>10, BestIsFirst
  <1>13. best = o
    <2>1. SUFFICES ASSUME best # o PROVE FALSE
      OBVIOUS
    <2> DEFINE dear == fresh[best].bps
               n == QuantityFor(dear, x)
    <2>2. Before(fresh, best, o) /\ fresh[best].quantity < q - c
      BY <1>3, <1>12, <2>1
    <2>3. dear \in Nat \ {0} /\ fresh[best].quantity \in Nat
      BY <1>1, <1>12 DEF Numbered, Entries
    <2>4. dear <= bps
      BY <1>4, <2>2, <2>3 DEF Before
    <2>5. k <= n
      <3>1. x * 10000 \in Nat
        BY <1>5
      <3>2. (x * 10000) \div bps <= (x * 10000) \div dear
        <4> HIDE DEF x, bps, dear
        <4>1. QED
          BY <1>4, <2>3, <2>4, <3>1, DearerBuysLess
      <3>3. QED
        BY <3>2 DEF QuantityFor
    <2>6. n <= fresh[best].quantity /\ n \in Nat
      <3>1. n <= fresh[best].quantity
        BY <1>12 DEF Serves
      <3>2. n \in Nat
        <4> HIDE DEF x, dear
        <4>1. QED
          BY <1>5, <2>3, QuantityIsWithinAmount
      <3>3. QED
        BY <3>1, <3>2
    <2> HIDE DEF best, n, k, c, q, x, bps, dear
    <2>7. QED
      BY <1>4, <1>5, <2>2, <2>3, <2>5, <2>6
  <1>14. QED
    <2>1. x \in 1 .. MaxPremium(fresh)
      BY <1>5, <1>9, <1>11
    <2>2. QED
      BY <1>13, <2>1

(* Everything a writer is told.                                            *)
LEMMA WritersAreTold == WritingInv => WritersAreToldTheTruth
  <1>1. ASSUME WritingInv
        PROVE  Write!CancelledStaysGone
    BY <1>1 DEF WritingInv, GoneIsGone, PortfolioIsTyped, Write!CancelledStaysGone
  <1>2. QED
    BY <1>1, RankIsGot, CardsAgree, BestOneIsMatched, LargestOneIsMatched
    DEF WritersAreToldTheTruth

-----------------------------------------------------------------------------
(* Term and strike.                                                        *)

Picks == [term : Nat, strike : Nat]
Forms == {"buyForm", "buyFlow", "writeForm", "writeFlow"}

(* What arrives is what the world has; chart and form keep a term and a    *)
(* strike each.                                                            *)
SelectionIsTyped ==
  /\ seLimits = {} \/ \E l \in Limits : seLimits = {l}
  /\ seOffers \in Lists \cup {{}}
  /\ seChart \in Picks /\ sePicked \in Picks
  /\ seForm \in Forms \cup {"none"}

(* Once the effects have run, a form and the chart keep the same, and it   *)
(* is on the lists the form offers.                                        *)
FormsAreSettled ==
  seForm # "none" =>
    /\ seChart = sePicked
    /\ Select!OnList(sePicked.term, Select!Terms(seLimits)) = sePicked.term
    /\ Select!OnList(sePicked.strike,
         Select!StrikesFor(seForm, seLimits, seOffers, seAccount, sePicked.term)) = sePicked.strike

(* What the effects of a form leave in chart and form.                     *)
Settles(s, f, l, list, known) ==
  /\ s.chart \in Picks /\ s.chart = s.picked
  /\ Select!OnList(s.picked.term, Select!Terms(l)) = s.picked.term
  /\ Select!OnList(s.picked.strike,
       Select!StrikesFor(f, l, list, known, s.picked.term)) = s.picked.strike

SelectionInv == SelectionIsTyped /\ FormsAreSettled /\ Select!OrderedAsShown

(* Among numbers there is a smallest.                                      *)
LEMMA HasSmallest ==
  ASSUME NEW S \in SUBSET Nat, S # {}
  PROVE  Select!Min(S) \in S /\ \E y \in S : \A z \in S : y <= z
  <1> DEFINE T == {n \in Nat : \A x \in S : x <= n => \E y \in S : \A z \in S : y <= z}
  <1>1. 0 \in T
    OBVIOUS
  <1>2. ASSUME NEW n \in T
        PROVE  n + 1 \in T
    <2>1. SUFFICES ASSUME NEW x \in S, x <= n + 1
                   PROVE  \E y \in S : \A z \in S : y <= z
      OBVIOUS
    <2>2. CASE \A z \in S : x <= z
      BY <2>2
    <2>3. CASE \E z \in S : z <= n
      BY <1>2, <2>3
    <2>4. QED
      BY <2>1, <2>2, <2>3
  <1>3. T = Nat
    <2> HIDE DEF T
    <2>1. T \subseteq Nat
      BY DEF T
    <2>2. QED
      BY <1>1, <1>2, <2>1, NatInd
  <1>4. \E y \in S : \A z \in S : y <= z
    <2>1. PICK x \in S : TRUE
      OBVIOUS
    <2>2. x \in T
      BY <1>3
    <2>3. QED
      BY <2>1, <2>2
  <1>5. QED
    BY <1>4 DEF Select!Min

(* The list of an option is one of numbers: the option that is left is on  *)
(* the list, unless the list is empty, and stays there.                    *)
LEMMA ListKeeps ==
  ASSUME NEW x \in Nat, NEW S \in SUBSET Nat
  PROVE  /\ Select!OnList(x, S) \in Nat
         /\ S # {} => Select!OnList(x, S) \in S
         /\ Select!OnList(Select!OnList(x, S), S) = Select!OnList(x, S)
  BY HasSmallest DEF Select!OnList

(* The lists of options are lists of numbers.                              *)
LEMMA OptionsAreNumbers ==
  /\ \A l : Select!Terms(l) \subseteq Nat
  /\ \A f, l, list, known, term :
       list \in Lists \cup {{}} => Select!StrikesFor(f, l, list, known, term) \subseteq Nat
  <1>1. /\ TermOptions \subseteq Nat /\ StrikeOptions \subseteq Nat
        /\ \A list \in Lists \cup {{}} : \A o \in list : o.strike \in Nat
    BY TradingAssumption DEF Select!StrikeSelectionAssumption
  <1>2. QED
    BY <1>1 DEF Select!Terms, Select!StrikesFor, Select!Others

(* What the effects leave: whatever a form wrote to the chart with its own *)
(* pick, or whatever the chart drew when the form was built, the two keep  *)
(* the same in the end, and it is on the lists.                            *)
LEMMA EffectsSettle ==
  ASSUME NEW f \in Forms, NEW c \in Picks, NEW p \in Picks,
         NEW l, NEW list \in Lists \cup {{}}, NEW known, NEW fresh \in BOOLEAN,
         fresh \/ c = p, f \in Select!Buys => c.term = p.term
  PROVE  Settles(Select!Settled(f, c, p, l, list, known, fresh), f, l, list, known)
  <1> DEFINE t == Select!OnList(IF f \in Select!Buys THEN c.term ELSE p.term, Select!Terms(l))
             u == Select!OnList(p.strike, Select!StrikesFor(f, l, list, known, c.term))
             k == Select!OnList(u, Select!StrikesFor(f, l, list, known, t))
             told(new, old, shown) == IF fresh \/ new # old THEN new ELSE shown
  <1>1. Select!Settled(f, c, p, l, list, known, fresh)
        = [chart |-> [term |-> told(t, p.term, c.term), strike |-> told(k, p.strike, c.strike)],
           picked |-> [term |-> t, strike |-> k]]
    BY DEF Select!Settled
  <1>2. told(t, p.term, c.term) = t /\ told(k, p.strike, c.strike) = k
    <2> HIDE DEF t, k
    <2>1. QED
      BY DEF Picks
  <1>3. t \in Nat /\ Select!OnList(t, Select!Terms(l)) = t
    <2>1. Select!Terms(l) \in SUBSET Nat
      BY OptionsAreNumbers
    <2>2. (IF f \in Select!Buys THEN c.term ELSE p.term) \in Nat
      BY DEF Picks
    <2>3. QED
      BY <2>1, <2>2, ListKeeps
  <1>4. k \in Nat /\ Select!OnList(k, Select!StrikesFor(f, l, list, known, t)) = k
    <2>1. /\ Select!StrikesFor(f, l, list, known, c.term) \in SUBSET Nat
          /\ Select!StrikesFor(f, l, list, known, t) \in SUBSET Nat
      <3> HIDE DEF t
      <3>1. QED
        BY OptionsAreNumbers
    <2>2. u \in Nat
      BY <2>1, ListKeeps DEF Picks
    <2> HIDE DEF u, t
    <2>3. QED
      BY <2>1, <2>2, ListKeeps
  <1> HIDE DEF t, k, told
  <1>5. QED
    BY <1>1, <1>2, <1>3, <1>4 DEF Picks, Settles

(* Nothing is picked, and nothing ordered, at first.                       *)
LEMMA SelectionInit == Select!Init => SelectionInv
  <1>1. DefaultTerm \in Nat /\ DefaultStrike \in Nat
    BY TradingAssumption DEF Select!StrikeSelectionAssumption
  <1>2. QED
    BY <1>1 DEF Select!Init, SelectionInv, SelectionIsTyped, FormsAreSettled, Select!OrderedAsShown, Picks

(* New limits, offers or the account: the effects of the form run.         *)
LEMMA ArriveKeeps ==
  ASSUME SelectionInv, NEW l, l = {} \/ \E x \in Limits : l = {x},
         NEW list \in Lists \cup {{}}, NEW known, Select!Arrive(l, list, known)
  PROVE  SelectionInv'
  <1>1. /\ seLimits' = l /\ seOffers' = list /\ seAccount' = known
        /\ UNCHANGED <<seForm, seOrder>>
        /\ IF seForm = "none" THEN seChart' = seChart /\ sePicked' = sePicked
           ELSE /\ seChart' = Select!Settled(seForm, seChart, sePicked, l, list, known, FALSE).chart
                /\ sePicked' = Select!Settled(seForm, seChart, sePicked, l, list, known, FALSE).picked
    BY DEF Select!Arrive, Select!Settle
  <1>2. SelectionIsTyped /\ FormsAreSettled /\ Select!OrderedAsShown
    BY DEF SelectionInv
  <1>3. CASE seForm = "none"
    <2>1. seChart' = seChart /\ sePicked' = sePicked
      BY <1>1, <1>3
    <2>2. QED
      BY <1>1, <1>2, <1>3, <2>1 DEF SelectionInv, SelectionIsTyped, FormsAreSettled, Select!OrderedAsShown
  <1>4. CASE seForm # "none"
    <2>1. seForm \in Forms /\ seChart = sePicked
          /\ seChart \in Picks /\ sePicked \in Picks
      BY <1>2, <1>4 DEF SelectionIsTyped, FormsAreSettled
    <2>2. /\ seChart' \in Picks /\ seChart' = sePicked'
          /\ Select!OnList(sePicked'.term, Select!Terms(l)) = sePicked'.term
          /\ Select!OnList(sePicked'.strike,
               Select!StrikesFor(seForm, l, list, known, sePicked'.term)) = sePicked'.strike
      <3>1. /\ FALSE \in BOOLEAN /\ (FALSE \/ seChart = sePicked)
            /\ seForm \in Select!Buys => seChart.term = sePicked.term
        BY <2>1
      <3>2. Settles(Select!Settled(seForm, seChart, sePicked, l, list, known, FALSE),
                    seForm, l, list, known)
        BY <2>1, <3>1, EffectsSettle
      <3>3. QED
        BY <1>1, <1>4, <3>2 DEF Settles
    <2>3. SelectionIsTyped'
      BY <1>1, <2>1, <2>2 DEF SelectionIsTyped
    <2>4. FormsAreSettled'
      BY <1>1, <2>2 DEF FormsAreSettled
    <2>5. QED
      BY <1>1, <1>2, <2>3, <2>4 DEF SelectionInv, Select!OrderedAsShown
  <1>5. QED
    BY <1>3, <1>4

(* A form is built: it takes the chart's term, or its own first one.       *)
LEMMA EnterKeeps ==
  ASSUME SelectionInv, NEW f \in Forms, Select!Enter(f)
  PROVE  SelectionInv'
  <1> DEFINE terms == IF Select!Terms(seLimits) = {} THEN {} ELSE {Select!Min(Select!Terms(seLimits))}
             first == [term |-> IF f \in Select!Buys THEN seChart.term
                                ELSE Select!OnList(DefaultTerm, terms),
                       strike |-> IF f \in Select!Buys \/ seLimits = {} THEN DefaultStrike
                                  ELSE Select!Min(StrikeOptions)]
  <1>1. /\ seForm' = f /\ UNCHANGED <<seLimits, seOffers, seAccount, seOrder>>
        /\ seChart' = Select!Settled(f, seChart, first, seLimits, seOffers, seAccount, TRUE).chart
        /\ sePicked' = Select!Settled(f, seChart, first, seLimits, seOffers, seAccount, TRUE).picked
    BY DEF Select!Enter, Select!data, Select!Settle, Forms
  <1>2. SelectionIsTyped /\ Select!OrderedAsShown
    BY DEF SelectionInv
  <1>3. first \in Picks
    <2>1. DefaultTerm \in Nat /\ DefaultStrike \in Nat /\ StrikeOptions \in SUBSET Nat /\ StrikeOptions # {}
      BY TradingAssumption DEF Select!StrikeSelectionAssumption
    <2>2. Select!Min(StrikeOptions) \in Nat
      BY <2>1, HasSmallest
    <2>3. terms \in SUBSET Nat
      BY OptionsAreNumbers, HasSmallest
    <2>4. Select!OnList(DefaultTerm, terms) \in Nat
      <3> HIDE DEF terms
      <3>1. QED
        BY <2>1, <2>3, ListKeeps
    <2>5. seChart.term \in Nat
      BY <1>2 DEF SelectionIsTyped, Picks
    <2> HIDE DEF terms
    <2>6. QED
      BY <2>1, <2>2, <2>4, <2>5 DEF Picks
  <1>4. f \in Select!Buys => seChart.term = first.term
    OBVIOUS
  <1> HIDE DEF first
  <1>5. /\ seChart \in Picks /\ seOffers \in Lists \cup {{}}
    BY <1>2 DEF SelectionIsTyped
  <1>6. /\ seChart' \in Picks /\ seChart' = sePicked'
        /\ Select!OnList(sePicked'.term, Select!Terms(seLimits)) = sePicked'.term
        /\ Select!OnList(sePicked'.strike,
             Select!StrikesFor(f, seLimits, seOffers, seAccount, sePicked'.term)) = sePicked'.strike
    <2>1. TRUE \in BOOLEAN /\ (TRUE \/ seChart = first)
      OBVIOUS
    <2>2. Settles(Select!Settled(f, seChart, first, seLimits, seOffers, seAccount, TRUE),
                  f, seLimits, seOffers, seAccount)
      BY <1>3, <1>4, <1>5, <2>1, EffectsSettle
    <2>3. QED
      BY <1>1, <2>2 DEF Settles
  <1>7. SelectionIsTyped'
    BY <1>1, <1>2, <1>6 DEF SelectionIsTyped
  <1>8. FormsAreSettled'
    BY <1>1, <1>6 DEF FormsAreSettled
  <1>9. QED
    BY <1>1, <1>2, <1>7, <1>8 DEF SelectionInv, Select!OrderedAsShown

(* A pick is written to chart and form alike, and the effects run.         *)
LEMMA ChooseKeeps ==
  ASSUME SelectionInv, seForm # "none", NEW c \in Picks, Select!Choose(c, c)
  PROVE  SelectionInv'
  <1>1. /\ UNCHANGED <<seLimits, seOffers, seAccount, seForm, seOrder>>
        /\ seChart' = Select!Settled(seForm, c, c, seLimits, seOffers, seAccount, FALSE).chart
        /\ sePicked' = Select!Settled(seForm, c, c, seLimits, seOffers, seAccount, FALSE).picked
    BY DEF Select!Choose, Select!data, Select!Settle
  <1>2. SelectionIsTyped /\ Select!OrderedAsShown
    BY DEF SelectionInv
  <1>3. seForm \in Forms /\ seOffers \in Lists \cup {{}}
    BY <1>2 DEF SelectionIsTyped
  <1>4. /\ seChart' \in Picks /\ seChart' = sePicked'
        /\ Select!OnList(sePicked'.term, Select!Terms(seLimits)) = sePicked'.term
        /\ Select!OnList(sePicked'.strike,
             Select!StrikesFor(seForm, seLimits, seOffers, seAccount, sePicked'.term)) = sePicked'.strike
    <2>1. /\ FALSE \in BOOLEAN /\ (FALSE \/ c = c)
          /\ seForm \in Select!Buys => c.term = c.term
      OBVIOUS
    <2>2. Settles(Select!Settled(seForm, c, c, seLimits, seOffers, seAccount, FALSE),
                  seForm, seLimits, seOffers, seAccount)
      BY <1>3, <2>1, EffectsSettle
    <2>3. QED
      BY <1>1, <2>2 DEF Settles
  <1>5. SelectionIsTyped'
    BY <1>1, <1>2, <1>4 DEF SelectionIsTyped
  <1>6. FormsAreSettled'
    BY <1>1, <1>4 DEF FormsAreSettled
  <1>7. QED
    BY <1>1, <1>2, <1>5, <1>6 DEF SelectionInv, Select!OrderedAsShown

(* There are finitely many strikes to choose from.                         *)
LEMMA StrikesAreFinite ==
  ASSUME SelectionInv
  PROVE  Select!StrikeChoices \in SUBSET Nat /\ IsFiniteSet(Select!StrikeChoices)
  <1> DEFINE term == IF seForm \in Select!Buys THEN seChart.term ELSE Select!SelectedTerm
             by == {o \in Select!Others(seOffers, seAccount) : o.term = term}
  <1>1. seOffers \in Lists \cup {{}}
    BY DEF SelectionInv, SelectionIsTyped
  <1>2. Select!StrikeChoices = Select!StrikesFor(seForm, seLimits, seOffers, seAccount, term)
    BY DEF Select!StrikeChoices
  <1>3. /\ IsFiniteSet(StrikeOptions)
        /\ \A list \in Lists : IsFiniteSet(list)
    <2>1. \A S : Select!IsFiniteSet(S) = IsFiniteSet(S)
      BY DEF Select!IsFiniteSet, IsFiniteSet
    <2>2. QED
      BY <2>1, TradingAssumption DEF Select!StrikeSelectionAssumption
  <1>4. IsFiniteSet(seOffers)
    BY <1>1, <1>3, FS_EmptySet
  <1>5. IsFiniteSet({o.strike : o \in by})
    <2>1. by \subseteq seOffers
      BY DEF Select!Others
    <2>2. IsFiniteSet(by)
      BY <1>4, <2>1, FS_Subset
    <2> HIDE DEF by
    <2> DEFINE S == {o.strike : o \in by}
               f == [o \in by |-> o.strike]
    <2>3. f \in [by -> S] /\ \A s \in S : \E o \in by : f[o] = s
      OBVIOUS
    <2> HIDE DEF f, S
    <2>4. f \in Surjection(by, S)
      BY <2>3 DEF Surjection
    <2>5. IsFiniteSet(S)
      BY <2>2, <2>4, FS_Surjection
    <2>6. QED
      BY <2>5 DEF S
  <1>6. IsFiniteSet(Select!StrikesFor(seForm, seLimits, seOffers, seAccount, term))
    <2> HIDE DEF term
    <2>1. QED
      BY <1>3, <1>5, FS_EmptySet DEF Select!StrikesFor
  <1>7. Select!StrikesFor(seForm, seLimits, seOffers, seAccount, term) \in SUBSET Nat
    <2> HIDE DEF term
    <2>1. QED
      BY <1>1, OptionsAreNumbers
  <1> HIDE DEF term
  <1>8. QED
    BY <1>2, <1>6, <1>7

(* Strikes are listed by their rank.                                       *)
LEMMA StrikesInOrder ==
  ASSUME NEW S \in SUBSET Nat, IsFiniteSet(S)
  PROVE  /\ Select!Ascending(S) \in Seq(S)
         /\ \A s \in S : \E k \in DOMAIN Select!Ascending(S) : Select!Ascending(S)[k] = s
  <1>1. \A T : Select!Cardinality(T) = Cardinality(T)
    BY DEF Select!Cardinality, Cardinality
  <1>2. Select!Ascending(S) = Ranked(S)
    BY DEF Select!Ascending, Ranked, Select!Cardinality, Cardinality
  <1>3. QED
    BY <1>2, NumbersByRank

(* The strike a picker moves to is one of the strikes.                     *)
LEMMA StrikeAt ==
  ASSUME SelectionInv, NEW d, Select!CanMove(d)
  PROVE  Select!Ascending(Select!StrikeChoices)
           [Select!IndexIn(Select!Values, Select!Values[Select!Position + d])] \in Nat
  <1> DEFINE S == Select!StrikeChoices
             seq == Select!Ascending(S)
             v == Select!Values[Select!Position + d]
             at == {i \in DOMAIN Select!Values : Select!Values[i] = v}
  <1>1. S \in SUBSET Nat /\ IsFiniteSet(S)
    BY StrikesAreFinite
  <1>2. seq \in Seq(S)
    BY <1>1, StrikesInOrder
  <1>3. DOMAIN Select!Values = DOMAIN seq
    BY DEF Select!Values
  <1>4. at # {}
    BY DEF Select!CanMove
  <1>5. Select!IndexIn(Select!Values, v) = Select!Min(at)
    BY <1>4 DEF Select!IndexIn
  <1>6. at \in SUBSET Nat
    <2> HIDE DEF seq
    <2>1. QED
      BY <1>2, <1>3
  <1>7. Select!Min(at) \in at
    <2> HIDE DEF at
    <2>1. QED
      BY <1>4, <1>6, HasSmallest
  <1>8. Select!Min(at) \in DOMAIN seq
    <2> HIDE DEF seq
    <2>1. QED
      BY <1>3, <1>7
  <1> HIDE DEF v, at, seq, S
  <1>9. seq[Select!Min(at)] \in Nat
    <2>1. \A k \in DOMAIN seq : seq[k] \in S
      BY <1>2
    <2>2. QED
      BY <1>1, <1>8, <2>1
  <1>10. QED
    BY <1>5, <1>9 DEF seq, S, v

(* What a form shows is what it keeps, chart and form the same.            *)
LEMMA ShownIsPicked ==
  ASSUME SelectionInv, seForm # "none"
  PROVE  /\ seChart = sePicked /\ sePicked \in Picks /\ seForm \in Forms
         /\ Select!SelectedTerm = sePicked.term
         /\ Select!SelectedStrike = sePicked.strike
         /\ Select!StrikeChoices = Select!StrikesFor(seForm, seLimits, seOffers, seAccount, sePicked.term)
  BY DEF SelectionInv, SelectionIsTyped, FormsAreSettled, Select!SelectedTerm,
     Select!SelectedStrike, Select!StrikeChoices

(* An order is of the term and strike that the form shows, and with limits *)
(* there is always a term they allow.                                      *)
LEMMA SubmitKeeps == ASSUME SelectionInv, Select!Submit PROVE SelectionInv'
  <1>1. seForm # "none"
    BY DEF Select!Submit, Select!CanSubmit
  <1>2. /\ UNCHANGED <<seChart, seLimits, seOffers, seAccount, seForm, sePicked>>
        /\ seOrder' = [kind |-> seForm, known |-> seLimits, ordered |-> Select!Ordered,
                       shown |-> [term |-> Select!SelectedTerm, strike |-> Select!SelectedStrike]]
    BY DEF Select!Submit, Select!data
  <1>3. /\ Select!Ordered = [term |-> sePicked.term, strike |-> sePicked.strike]
        /\ Select!SelectedTerm = sePicked.term /\ Select!SelectedStrike = sePicked.strike
    BY <1>1, ShownIsPicked DEF Select!Ordered
  <1>4. ASSUME seLimits # {}
        PROVE  sePicked.term \in Select!Terms(seLimits)
    <2>1. PICK x \in Limits : seLimits = {x}
      BY <1>4 DEF SelectionInv, SelectionIsTyped
    <2>2. \E d \in TermOptions : x.min <= d /\ d <= x.max
      BY <2>1, TradingAssumption DEF Select!StrikeSelectionAssumption
    <2>3. Select!Terms(seLimits) # {}
      BY <2>1, <2>2 DEF Select!Terms
    <2>4. Select!OnList(sePicked.term, Select!Terms(seLimits)) = sePicked.term
          /\ sePicked.term \in Nat
      BY <1>1 DEF SelectionInv, SelectionIsTyped, FormsAreSettled, Picks
    <2>5. Select!Terms(seLimits) \in SUBSET Nat
      BY OptionsAreNumbers
    <2>6. QED
      BY <2>3, <2>4, <2>5, ListKeeps
  <1>5. Select!OrderedAsShown'
    BY <1>2, <1>3, <1>4 DEF Select!OrderedAsShown
  <1>6. QED
    BY <1>2, <1>5 DEF SelectionInv, SelectionIsTyped, FormsAreSettled

(* Picking, arrivals, pages and orders: every step of the world, the       *)
(* pickers and the flow.                                                   *)
LEMMA SelectionStep ==
  ASSUME SelectionInv, Select!Next \/ UNCHANGED seVars
  PROVE  SelectionInv'
  <1>1. ASSUME NEW l \in Limits, Select!Configure({l})
        PROVE  SelectionInv'
    <2>1. Select!Arrive({l}, seOffers, seAccount) /\ seOffers \in Lists \cup {{}}
      BY <1>1 DEF Select!Configure, SelectionInv, SelectionIsTyped
    <2>2. {l} = {} \/ \E x \in Limits : {l} = {x}
      OBVIOUS
    <2>3. QED
      BY <2>1, <2>2, ArriveKeeps
  <1>2. seLimits = {} \/ \E x \in Limits : seLimits = {x}
    BY DEF SelectionInv, SelectionIsTyped
  <1>3. ASSUME NEW list \in Lists, Select!ListOffers(list)
        PROVE  SelectionInv'
    <2>1. Select!Arrive(seLimits, list, seAccount) /\ list \in Lists \cup {{}}
      BY <1>3 DEF Select!ListOffers
    <2>2. QED
      BY <1>2, <2>1, ArriveKeeps
  <1>4. ASSUME Select!KnowAccount
        PROVE  SelectionInv'
    <2>1. Select!Arrive(seLimits, seOffers, TRUE) /\ seOffers \in Lists \cup {{}}
      BY <1>4 DEF Select!KnowAccount, SelectionInv, SelectionIsTyped
    <2>2. QED
      BY <1>2, <2>1, ArriveKeeps
  <1>5. ASSUME NEW f \in Forms, Select!Enter(f)
        PROVE  SelectionInv'
    BY <1>5, EnterKeeps
  <1>6. ASSUME NEW t \in TermOptions, Select!PickTerm(t)
        PROVE  SelectionInv'
    <2>1. seForm # "none" /\ t \in Nat
      BY <1>6, TradingAssumption DEF Select!PickTerm, Select!Picking, Select!StrikeSelectionAssumption
    <2>2. seChart = sePicked /\ sePicked \in Picks
      BY <2>1, ShownIsPicked
    <2>3. Select!Choose([seChart EXCEPT !.term = t], [sePicked EXCEPT !.term = t])
      BY <1>6 DEF Select!PickTerm
    <2>4. [sePicked EXCEPT !.term = t] \in Picks
      BY <2>1, <2>2 DEF Picks
    <2>5. QED
      BY <2>1, <2>2, <2>3, <2>4, ChooseKeeps
  <1>7. ASSUME NEW d \in {-1, 1}, Select!PickStrike(d)
        PROVE  SelectionInv'
    <2> DEFINE at == Select!IndexIn(Select!Values, Select!Values[Select!Position + d])
               strike == Select!Ascending(Select!StrikeChoices)[at]
    <2>1. seForm # "none"
      BY <1>7 DEF Select!PickStrike, Select!Picking
    <2>2. seChart = sePicked /\ sePicked \in Picks
      BY <2>1, ShownIsPicked
    <2>3. Select!Choose([seChart EXCEPT !.strike = strike], [sePicked EXCEPT !.strike = strike])
      BY <1>7 DEF Select!PickStrike
    <2>4. strike \in Nat
      BY <1>7, <2>1, StrikeAt DEF Select!PickStrike
    <2> HIDE DEF strike
    <2>5. [sePicked EXCEPT !.strike = strike] \in Picks
      BY <2>2, <2>4 DEF Picks
    <2>6. QED
      BY <2>1, <2>2, <2>3, <2>5, ChooseKeeps
  <1>8. CASE Select!Submit
    BY <1>8, SubmitKeeps
  <1>9. CASE Select!Leave
    BY <1>9 DEF Select!Leave, Select!data, SelectionInv, SelectionIsTyped, FormsAreSettled,
       Select!OrderedAsShown
  <1>10. CASE Select!Close
    BY <1>10 DEF Select!Close, Select!data, SelectionInv, SelectionIsTyped, FormsAreSettled,
       Select!OrderedAsShown
  <1>11. CASE \/ Select!KnowPrice \/ Select!GoNext \/ Select!GoBack \/ Select!Progress
              \/ Select!TryAgain \/ UNCHANGED seVars
    <2>1. UNCHANGED <<seChart, seLimits, seOffers, seAccount, seForm, sePicked, seOrder>>
      BY <1>11 DEF Select!KnowPrice, Select!GoNext, Select!GoBack, Select!Progress,
         Select!TryAgain, Select!data, seVars
    <2>2. QED
      BY <2>1 DEF SelectionInv, SelectionIsTyped, FormsAreSettled, Select!OrderedAsShown
  <1>12. QED
    BY <1>1, <1>3, <1>4, <1>5, <1>6, <1>7, <1>8, <1>9, <1>10, <1>11 DEF Select!Next, Forms

(* With a price, the picker stands on the strike selected: dollars differ  *)
(* where strikes do, so the place of the one is that of the other.         *)
LEMMA PickerStands == ASSUME SelectionInv PROVE Select!PickerStandsOnItsStrike
  <1> DEFINE S == Select!StrikeChoices
             seq == Select!Ascending(S)
             x == Select!SelectedStrike
  <1>1. SUFFICES ASSUME seForm # "none", sePriced, S # {}
                 PROVE  x \in S /\ seq[Select!Position] = x
    BY DEF Select!PickerStandsOnItsStrike
  <1>2. S \in SUBSET Nat /\ IsFiniteSet(S)
    BY <1>1, StrikesAreFinite
  <1>3. x \in S
    <2>1. /\ x = sePicked.strike /\ sePicked.strike \in Nat
          /\ S = Select!StrikesFor(seForm, seLimits, seOffers, seAccount, sePicked.term)
      BY <1>1, ShownIsPicked DEF Picks
    <2>2. Select!OnList(sePicked.strike, S) = sePicked.strike
      BY <1>1, <2>1 DEF SelectionInv, FormsAreSettled
    <2>3. QED
      BY <1>1, <1>2, <2>1, <2>2, ListKeeps
  <1>4. /\ seq \in Seq(S) /\ \A s \in S : \E k \in DOMAIN seq : seq[k] = s
    BY <1>2, StrikesInOrder
  <1>5. PICK k \in DOMAIN seq : seq[k] = x
    BY <1>3, <1>4
  <1>6. Select!Values = [i \in DOMAIN seq |-> Select!Usd(seq[i])]
    BY DEF Select!Values
  <1>7. \A s \in Nat : Select!Usd(s) = 100 + s
    BY <1>1 DEF Select!Usd
  <1> DEFINE at == {i \in DOMAIN Select!Values : Select!Values[i] = Select!Usd(x)}
  <1>8. at = {i \in DOMAIN seq : seq[i] = x}
    <2>1. \A i \in DOMAIN seq : seq[i] \in Nat
      <3> HIDE DEF seq, S
      <3>1. \A i \in DOMAIN seq : seq[i] \in S
        BY <1>4
      <3>2. QED
        BY <1>2, <3>1
    <2>2. x \in Nat
      BY <1>2, <1>3
    <2> HIDE DEF seq, x, S
    <2>3. QED
      BY <1>6, <1>7, <2>1, <2>2
  <1>9. at # {} /\ at \in SUBSET Nat /\ \A i \in at : i >= 1 /\ seq[i] = x
    <2>1. DOMAIN seq \subseteq Nat \ {0}
      BY <1>4
    <2> HIDE DEF seq, x, S
    <2>2. QED
      BY <1>5, <1>8, <2>1
  <1>10. Select!IndexIn(Select!Values, Select!Usd(x)) = Select!Min(at)
    BY <1>9 DEF Select!IndexIn
  <1>11. Select!Min(at) \in at
    <2> HIDE DEF at
    <2>1. QED
      BY <1>9, HasSmallest
  <1> DEFINE m == Select!Min(at)
  <1>12. m \in Nat /\ m >= 1 /\ seq[m] = x
    <2> HIDE DEF at, seq, x
    <2>1. QED
      BY <1>9, <1>11
  <1>13. Select!Max({1, m}) = m
    <2> HIDE DEF m
    <2>1. QED
      BY <1>12 DEF Select!Max
  <1>14. Select!Position = m
    BY <1>10, <1>13 DEF Select!Position
  <1> HIDE DEF m, seq, x
  <1>15. QED
    BY <1>3, <1>12, <1>14

(* The chart, the order and the picker: what is shown is what is ordered.  *)
LEMMA ShownIsOrdered == SelectionInv => WhatIsShownIsOrdered
  <1>1. ASSUME SelectionInv
        PROVE  Select!ChartShowsTheForm
    BY <1>1, ShownIsPicked DEF Select!ChartShowsTheForm, Picks
  <1>2. QED
    BY <1>1, PickerStands DEF SelectionInv, WhatIsShownIsOrdered

-----------------------------------------------------------------------------
(* Both sides of the market, side by side.                                 *)

TradingInv == IInv /\ WritingInv /\ SelectionInv

(* Nothing a buyer, a writer, the pickers or the network do disturbs what  *)
(* holds of orders, requests and offers.                                   *)
THEOREM TradingInductive == UnionSpec => []TradingInv
  <1>1. UnionInit => TradingInv
    BY InitIsGood, WritingInit, SelectionInit DEF UnionInit, TradingInv
  <1>2. ASSUME TradingInv, [UnionNext]_unionVars
        PROVE  TradingInv'
    <2>1. Next \/ UNCHANGED vars
      BY <1>2 DEF UnionNext, unionVars
    <2>2. Write!Next \/ UNCHANGED wrVars
      BY <1>2 DEF UnionNext, unionVars
    <2>3. IInv'
      BY <1>2, <2>1, BuyingStep DEF TradingInv
    <2>4. WritingInv'
      BY <1>2, <2>2, WritingStep DEF TradingInv
    <2>5. Select!Next \/ UNCHANGED seVars
      BY <1>2 DEF UnionNext, unionVars
    <2>6. SelectionInv'
      BY <1>2, <2>5, SelectionStep DEF TradingInv
    <2>7. QED
      BY <2>3, <2>4, <2>6 DEF TradingInv
  <1>3. QED
    BY <1>1, <1>2, PTL DEF UnionSpec

(* However late, or however often, requests reach the canister: no two     *)
(* operations of the buyer, and no two offers of the writer, come from one *)
(* signature.                                                              *)
THEOREM OneTradePerSignature == UnionSpec => []OneSignatureOneTrade
  <1>1. TradingInv => OneSignatureOneTrade
    BY DEF TradingInv, IInv, NoncesAreUsedUp, WritingInv, OffersAreMadeOnce,
       OneSignatureOneTrade
  <1>2. QED
    BY <1>1, TradingInductive, PTL

(* The success screens tell of an option that was bought with the order on *)
(* the screen, and of an offer made on the terms that were reviewed.       *)
THEOREM SuccessTellsTheTruth == UnionSpec => []SuccessIsTrue
  <1>1. ASSUME TradingInv
        PROVE  SuccessIsTrue
    <2>1. SuccessIsBought
      BY <1>1, BoughtIsShown DEF TradingInv
    <2>2. Write!Screen = "success" => wrStep = "success"
      BY <1>1 DEF Write!Screen, Write!Pages, TradingInv, WritingInv, WritersFormIsTyped
    <2>3. QED
      BY <1>1, <2>1, <2>2 DEF TradingInv, WritingInv, OffersAreMadeOnce, Write!SuccessIsMade,
         SuccessIsTrue
  <1>2. QED
    BY <1>1, TradingInductive, PTL

(* With an up-to-date list, the rank a writer is shown is the one his      *)
(* offer gets, "best" and "largest" are matched to buyers as they say, and *)
(* cards and list agree on what is backed; what was cancelled stays away.  *)
THEOREM WhatWritersAreTold == UnionSpec => []WritersAreToldTheTruth
  <1>1. TradingInv => WritersAreToldTheTruth
    BY WritersAreTold DEF TradingInv
  <1>2. QED
    BY <1>1, TradingInductive, PTL

(* Whatever limits, offers, account and price arrive, and whatever form    *)
(* wrote to the store before: the chart draws term and strike of the form, *)
(* the pickers stand on them, and they are what is ordered.                *)
THEOREM ShownAsOrdered == UnionSpec => []WhatIsShownIsOrdered
  <1>1. TradingInv => WhatIsShownIsOrdered
    BY ShownIsOrdered DEF TradingInv
  <1>2. QED
    BY <1>1, TradingInductive, PTL
-----------------------------------------------------------------------------
(* The pages.  First the panel of pending deposits.                        *)

TrackerType ==
  [address : Watchers, stopped : BOOLEAN, timer : BOOLEAN, delay : Nat,
   socket : {"none", "connecting", "open", "closing"}]

Quiet(t) == t.stopped /\ ~t.timer /\ t.socket \in {"none", "closing"}

(* What the window keeps of an address is its user's: what is stored,      *)
(* what the effects last saw, what is cached for them; and the rows the    *)
(* server told of a user are of his deposits.                              *)
WindowIsOneUsers ==
  /\ peUser \in Watchers \cup {Pending!Nobody} /\ peAsked \subseteq Watchers
  /\ DOMAIN peStored = Watchers /\ Pending!StoredIsOwn
  /\ peRan.user \in Watchers \cup {Pending!Nobody}
  /\ peRan.server \in {peRan.user, Pending!Nobody}
  /\ peRan.address \in Watchers \cup {Pending!Nobody}
  /\ peCached \in {peRan.user, Pending!Nobody}

RowsAreTheirUsers ==
  DOMAIN peRows = Watchers
  /\ \A u \in Watchers : \A d \in Arrivals : peRows[u][d] > 0 => To[d] = u

PanelInv ==
  /\ WindowIsOneUsers /\ RowsAreTheirUsers
  /\ peTrackers \in Seq(TrackerType) /\ Pending!OneTracker

(* A window opens without a wallet, a row or a tracker.                    *)
LEMMA PanelInit == Pending!Init => PanelInv
  <1>1. SUFFICES ASSUME Pending!Init PROVE PanelInv
    OBVIOUS
  <1>2. peTrackers \in Seq(TrackerType) /\ DOMAIN peTrackers = {}
    BY <1>1 DEF Pending!Init
  <1>3. Pending!OneTracker
    BY <1>2 DEF Pending!OneTracker
  <1>4. RowsAreTheirUsers
    BY <1>1 DEF Pending!Init, RowsAreTheirUsers
  <1>5. WindowIsOneUsers
    BY <1>1 DEF Pending!Init, Pending!Away, Pending!StoredIsOwn, WindowIsOneUsers
  <1>6. QED
    BY <1>2, <1>3, <1>4, <1>5 DEF PanelInv

(* A window in which neither accounts nor trackers change.                 *)
LEMMA WindowRests ==
  ASSUME PanelInv, UNCHANGED <<peUser, peAsked, peStored, peCached, peRan, peRows>>,
         peTrackers' \in Seq(TrackerType), Pending!OneTracker'
  PROVE  PanelInv'
  BY DEF PanelInv, WindowIsOneUsers, RowsAreTheirUsers, Pending!StoredIsOwn

(* Trackers that rest, in a window where the address stays.                *)
LEMMA TrackersRest ==
  ASSUME PanelInv, UNCHANGED <<peRan, peTrackers>>
  PROVE  peTrackers' \in Seq(TrackerType) /\ Pending!OneTracker'
  BY DEF PanelInv, Pending!OneTracker

(* A tracker that is disconnected is quiet.                                *)
LEMMA KeptAreQuiet ==
  ASSUME NEW s \in Seq(TrackerType), NEW k,
         \A i \in DOMAIN s : i = Len(s) \/ Quiet(s[i]),
         k = IF Len(s) = 0 THEN s ELSE [s EXCEPT ![Len(s)] = Pending!Disconnect(s[Len(s)])]
  PROVE  k \in Seq(TrackerType) /\ Len(k) = Len(s) /\ \A i \in DOMAIN k : Quiet(k[i])
  <1>1. CASE Len(s) = 0
    BY <1>1
  <1>2. CASE Len(s) # 0
    <2> DEFINE t == s[Len(s)]
               d == Pending!Disconnect(t)
    <2>1. t \in TrackerType
      BY <1>2
    <2>2. d \in TrackerType /\ Quiet(d)
      BY <2>1 DEF Pending!Disconnect, TrackerType, Quiet
    <2>3. k = [s EXCEPT ![Len(s)] = d]
      BY <1>2
    <2> HIDE DEF d, t
    <2>4. QED
      BY <1>2, <2>2, <2>3
  <1>3. QED
    BY <1>1, <1>2

(* The effects: the cache and the store take the address of the account    *)
(* that is connected, and the tracker follows the address on the screen.   *)
LEMMA EffectsKeep == ASSUME PanelInv, Pending!RunEffects PROVE PanelInv'
  <1> DEFINE answer == Pending!Answer(peUser)
             address == Pending!Address
             answered == /\ peUser # Pending!Nobody /\ answer # Pending!Nobody
                         /\ <<peUser, answer>> # <<peRan.user, peRan.server>>
             kept == IF Len(peTrackers) = 0 THEN peTrackers
                     ELSE [peTrackers EXCEPT ![Len(peTrackers)] =
                             Pending!Disconnect(peTrackers[Len(peTrackers)])]
  <1>1. /\ answer \in {peUser, Pending!Nobody}
        /\ address \in Watchers \cup {Pending!Nobody}
    BY PagesAssumption DEF Pending!Answer, Pending!Address, PanelInv, WindowIsOneUsers
  <1>2. /\ peRan' = [user |-> peUser, server |-> answer, address |-> address]
        /\ peCached' = IF answered THEN answer
                       ELSE IF peUser # peRan.user THEN Pending!FromStorage(peUser) ELSE peCached
        /\ peStored' = IF answered THEN [peStored EXCEPT ![peUser] = answer] ELSE peStored
        /\ peTrackers' = IF address = peRan.address THEN peTrackers
                         ELSE IF address = Pending!Nobody THEN kept
                         ELSE Append(kept, Pending!Connect(address))
        /\ UNCHANGED <<peUser, peAsked, peRows>>
    BY DEF Pending!RunEffects, Pending!Dependencies, Pending!queries
  <1> HIDE DEF answer, address
  <1>3. Pending!FromStorage(peUser) \in {peUser, Pending!Nobody}
    BY DEF Pending!FromStorage, PanelInv, WindowIsOneUsers, Pending!StoredIsOwn
  <1>4. peRan'.user = peUser /\ peRan'.server = answer /\ peRan'.address = address
    BY <1>2
  <1>5. peCached' \in {peUser, Pending!Nobody}
    BY <1>1, <1>2, <1>3 DEF PanelInv, WindowIsOneUsers
  <1>6. DOMAIN peStored' = Watchers /\ Pending!StoredIsOwn'
    BY <1>1, <1>2 DEF PanelInv, WindowIsOneUsers, Pending!StoredIsOwn
  <1>7. WindowIsOneUsers'
    BY <1>1, <1>2, <1>4, <1>5, <1>6 DEF PanelInv, WindowIsOneUsers
  <1>8. RowsAreTheirUsers'
    BY <1>2 DEF PanelInv, RowsAreTheirUsers
  <1>9. /\ peTrackers \in Seq(TrackerType)
        /\ \A i \in DOMAIN peTrackers : i = Len(peTrackers) \/ Quiet(peTrackers[i])
    BY DEF PanelInv, Pending!OneTracker, Quiet
  <1>10. kept \in Seq(TrackerType) /\ \A i \in DOMAIN kept : Quiet(kept[i])
    BY <1>9, KeptAreQuiet
  <1> HIDE DEF kept
  <1>11. peTrackers' \in Seq(TrackerType) /\ Pending!OneTracker'
    <2>1. CASE address = peRan.address
      BY <1>2, <1>4, <2>1 DEF PanelInv, Pending!OneTracker
    <2>2. CASE address # peRan.address /\ address = Pending!Nobody
      BY <1>2, <1>10, <2>2 DEF Pending!OneTracker, Quiet
    <2>3. CASE address # peRan.address /\ address # Pending!Nobody
      <3> DEFINE new == Pending!Connect(address)
      <3>1. new \in TrackerType /\ new.address = address
        BY <1>1, <2>3 DEF Pending!Connect, TrackerType
      <3>2. peTrackers' = Append(kept, new)
        BY <1>2, <2>3
      <3> HIDE DEF new
      <3>3. /\ peTrackers' \in Seq(TrackerType) /\ Len(peTrackers') = Len(kept) + 1
            /\ DOMAIN peTrackers' = 1 .. Len(kept) + 1 /\ DOMAIN kept = 1 .. Len(kept)
            /\ peTrackers'[Len(kept) + 1] = new
            /\ \A i \in 1 .. Len(kept) : peTrackers'[i] = kept[i]
        BY <1>10, <3>1, <3>2
      <3>4. ASSUME NEW i \in DOMAIN peTrackers'
            PROVE  \/ i = Len(peTrackers') /\ peTrackers'[i].address = peRan'.address
                   \/ Quiet(peTrackers'[i])
        BY <1>4, <1>10, <3>1, <3>3, <3>4
      <3>5. QED
        BY <3>3, <3>4 DEF Pending!OneTracker, Quiet
    <2>4. QED
      BY <2>1, <2>2, <2>3
  <1>12. QED
    BY <1>7, <1>8, <1>11 DEF PanelInv

(* What is fetched is kept under the user it was fetched for.              *)
LEMMA FetchKeeps ==
  ASSUME PanelInv, Pending!FetchAddress \/ Pending!FetchMempool \/ Pending!FetchRows
  PROVE  PanelInv'
  <1>1. UNCHANGED <<peUser, peStored, peCached, peRan, peTrackers>>
    BY DEF Pending!FetchAddress, Pending!FetchMempool, Pending!FetchRows, Pending!state
  <1>2. peTrackers' \in Seq(TrackerType) /\ Pending!OneTracker'
    BY <1>1, TrackersRest
  <1>3. peAsked' \subseteq Watchers
    BY DEF Pending!FetchAddress, Pending!FetchMempool, Pending!FetchRows, PanelInv,
       WindowIsOneUsers
  <1>4. WindowIsOneUsers'
    BY <1>1, <1>3 DEF PanelInv, WindowIsOneUsers, Pending!StoredIsOwn
  <1>5. CASE UNCHANGED peRows
    BY <1>2, <1>4, <1>5 DEF PanelInv, RowsAreTheirUsers
  <1>6. CASE Pending!FetchRows
    <2>1. peUser \in Watchers
      BY <1>6 DEF Pending!FetchRows, PanelInv, WindowIsOneUsers
    <2> DEFINE told == [d \in Arrivals |->
                          IF To[d] = peUser /\ d \notin peCredited THEN peTable[d] ELSE 0]
    <2>2. peRows' = [peRows EXCEPT ![peUser] = told]
      BY <1>6 DEF Pending!FetchRows
    <2>3. \A d \in Arrivals : told[d] > 0 => To[d] = peUser
      OBVIOUS
    <2> HIDE DEF told
    <2>4. RowsAreTheirUsers'
      BY <2>1, <2>2, <2>3 DEF PanelInv, RowsAreTheirUsers
    <2>5. QED
      BY <1>2, <1>4, <2>4 DEF PanelInv
  <1>7. QED
    BY <1>5, <1>6 DEF Pending!FetchAddress, Pending!FetchMempool

(* A tracker whose socket has closed is one still; quiet if it was stopped. *)
LEMMA ReconnectedIsTracker ==
  ASSUME NEW t \in TrackerType
  PROVE  /\ Pending!Reconnect(t) \in TrackerType
         /\ Pending!Reconnect(t).address = t.address
         /\ Quiet(t) => Quiet(Pending!Reconnect(t))
  <1> DEFINE delay == IF 2 * t.delay < MaxDelay THEN 2 * t.delay ELSE MaxDelay
  <1>1. delay \in Nat
    BY PagesAssumption DEF Pending!PendingPanelAssumption, TrackerType
  <1>2. CASE t.stopped
    BY <1>2 DEF Pending!Reconnect, TrackerType, Quiet
  <1>3. CASE ~t.stopped
    <2>1. Pending!Reconnect(t) = [t EXCEPT !.socket = "none", !.timer = TRUE, !.delay = delay]
      BY <1>3 DEF Pending!Reconnect
    <2> HIDE DEF delay
    <2>2. QED
      BY <1>1, <1>3, <2>1 DEF TrackerType, Quiet
  <1>4. QED
    BY <1>2, <1>3

(* The socket of a tracker that is stopped only ever closes.               *)
LEMMA SocketsKeep ==
  ASSUME PanelInv, NEW i \in DOMAIN peTrackers,
         Pending!Open(i) \/ Pending!Lose(i) \/ Pending!Closed(i) \/ Pending!Fire(i)
  PROVE  PanelInv'
  <1> DEFINE t == peTrackers[i]
  <1>1. t \in TrackerType /\ ((i = Len(peTrackers) /\ t.address = peRan.address) \/ Quiet(t))
    BY DEF PanelInv, Pending!OneTracker, Quiet
  <1>2. UNCHANGED <<peUser, peAsked, peStored, peCached, peRan, peRows>>
    BY DEF Pending!Open, Pending!Lose, Pending!Closed, Pending!Fire, Pending!SocketStep,
       Pending!queries
  <1>3. PICK u \in TrackerType :
          /\ peTrackers' = [peTrackers EXCEPT ![i] = u]
          /\ u.address = t.address /\ (Quiet(t) => Quiet(u))
    <2>1. CASE Pending!Open(i)
      BY <1>1, <2>1 DEF Pending!Open, Pending!SocketStep, TrackerType, Quiet
    <2>2. CASE Pending!Lose(i)
      <3> DEFINE u == Pending!Reconnect(t)
      <3>1. u \in TrackerType /\ u.address = t.address /\ t.socket \in {"connecting", "open"}
        BY <1>1, <2>2, ReconnectedIsTracker DEF Pending!Lose, Pending!SocketStep
      <3>2. QED
        BY <1>1, <2>2, <3>1 DEF Pending!Lose, Pending!SocketStep, Quiet
    <2>3. CASE Pending!Closed(i)
      <3> DEFINE u == Pending!Reconnect(t)
      <3>1. u \in TrackerType /\ u.address = t.address /\ (Quiet(t) => Quiet(u))
        BY <1>1, ReconnectedIsTracker
      <3>2. QED
        BY <2>3, <3>1 DEF Pending!Closed, Pending!SocketStep
    <2>4. CASE Pending!Fire(i)
      <3> DEFINE u == [t EXCEPT !.timer = FALSE,
                          !.socket = IF t.stopped THEN t.socket ELSE "connecting"]
      <3>1. u \in TrackerType /\ u.address = t.address /\ t.timer
        BY <1>1, <2>4 DEF Pending!Fire, TrackerType
      <3>2. peTrackers' = [peTrackers EXCEPT ![i] = u]
        BY <1>1, <2>4 DEF Pending!Fire, TrackerType, PanelInv
      <3> HIDE DEF u
      <3>3. QED
        BY <3>1, <3>2 DEF Quiet
    <2>5. QED
      BY <2>1, <2>2, <2>3, <2>4
  <1>4. peTrackers' \in Seq(TrackerType) /\ Len(peTrackers') = Len(peTrackers)
        /\ DOMAIN peTrackers' = DOMAIN peTrackers /\ peTrackers'[i] = u
        /\ \A j \in DOMAIN peTrackers \ {i} : peTrackers'[j] = peTrackers[j]
    BY <1>3 DEF PanelInv
  <1>5. Pending!OneTracker'
    BY <1>1, <1>2, <1>3, <1>4 DEF PanelInv, Pending!OneTracker, Quiet
  <1>6. QED
    BY <1>2, <1>4, <1>5, WindowRests

(* The window keeps to its rule; what else moves does not touch it.        *)
LEMMA PanelStep == ASSUME PanelInv, Pending!Next \/ UNCHANGED peVars PROVE PanelInv'
  <1>1. CASE Pending!RunEffects
    BY <1>1, EffectsKeep
  <1>2. CASE Pending!FetchAddress \/ Pending!FetchMempool \/ Pending!FetchRows
    BY <1>2, FetchKeeps
  <1>3. ASSUME NEW i \in DOMAIN peTrackers,
               Pending!Open(i) \/ Pending!Lose(i) \/ Pending!Closed(i) \/ Pending!Fire(i)
        PROVE  PanelInv'
    BY <1>3, SocketsKeep
  <1>4. ASSUME NEW u \in Watchers \cup {Pending!Nobody}, Pending!Switch(u) PROVE PanelInv'
    <2>1. UNCHANGED <<peAsked, peStored, peCached, peRan, peRows, peTrackers>> /\ peUser' = u
      BY <1>4 DEF Pending!Switch, Pending!queries, Pending!state
    <2>2. QED
      BY <2>1, TrackersRest DEF PanelInv, WindowIsOneUsers, RowsAreTheirUsers,
         Pending!StoredIsOwn
  <1>5. CASE UNCHANGED <<peUser, peAsked, peStored, peCached, peRan, peRows, peTrackers>>
    BY <1>5, TrackersRest, WindowRests
  <1>6. CASE Pending!Look \/ (\E d \in Arrivals : Pending!Send(d)) \/ Pending!Block
             \/ Pending!SyncDeposits \/ UNCHANGED peVars
    BY <1>5, <1>6 DEF Pending!Look, Pending!Send, Pending!Block, Pending!SyncDeposits, peVars,
       Pending!queries, Pending!state
  <1>7. QED
    BY <1>1, <1>2, <1>3, <1>4, <1>6 DEF Pending!Next

(* Once the effects have run, nothing on the screen is another user's.     *)
LEMMA PanelShows == PanelInv => AccountsDoNotMix
  <1>1. SUFFICES ASSUME PanelInv PROVE Pending!OnlyOwnShown
    BY DEF AccountsDoNotMix, PanelInv, WindowIsOneUsers
  <1>2. SUFFICES ASSUME Pending!Settled, NEW x \in Pending!Shown PROVE peUser = To[x[1]]
    BY DEF Pending!OnlyOwnShown
  <1>3. peUser = peRan.user /\ Pending!Answer(peUser) = peRan.server
    BY <1>2 DEF Pending!Settled, Pending!Dependencies
  <1>4. Pending!Address \in {peUser, Pending!Nobody}
    BY <1>1, <1>3 DEF Pending!Address, PanelInv, WindowIsOneUsers
  <1>5. CASE Pending!Address # Pending!Nobody
             /\ \E d \in {y \in peMempool[Pending!Address] : To[y] = Pending!Address} : x = <<d, 0>>
    BY <1>4, <1>5
  <1>6. CASE peUser # Pending!Nobody
             /\ \E d \in {y \in Arrivals : peRows[peUser][y] > 0} : x = <<d, peRows[peUser][d]>>
    BY <1>1, <1>6 DEF PanelInv, WindowIsOneUsers, RowsAreTheirUsers
  <1>7. QED
    BY <1>2, <1>5, <1>6 DEF Pending!Shown
-----------------------------------------------------------------------------
(* The account panel.                                                      *)

RequestFields == {"kind", "value", "panel", "at", "nonce", "order", "done"}

(* A request has the nonce it was told, and its place in the order of the  *)
(* signatures once it is signed; what is done has been accepted.           *)
RequestsAreTyped ==
  /\ \E S : acRequests \in Seq(S)
  /\ acNonce \in Nat /\ acSignatures \in Nat /\ acPanel \in Nat
  /\ acAccepted \in Seq(Nat)
  /\ \A r \in DOMAIN acRequests :
       LET q == acRequests[r] IN
       /\ DOMAIN q = RequestFields /\ {q.order, q.nonce, q.panel} \subseteq Nat
       /\ q.at \in {"asked", "wallet"} => q.order = 0
       /\ q.order <= acSignatures /\ q.nonce <= acNonce /\ q.panel <= acPanel
       /\ q.done = "yes" => \E i \in DOMAIN acAccepted : acAccepted[i] = r

(* One that may still be carried out was signed after all that were.       *)
AcceptedInOrder ==
  /\ \A i \in DOMAIN acAccepted :
       /\ acAccepted[i] \in DOMAIN acRequests
       /\ acRequests[acAccepted[i]].order > 0
       /\ acRequests[acAccepted[i]].nonce < acNonce
       /\ \A r \in DOMAIN acRequests :
            (acRequests[r].order > 0 /\ acRequests[r].nonce = acNonce) =>
              acRequests[acAccepted[i]].order < acRequests[r].order
  /\ Account!InOrderSigned

(* A request of this panel that is not over is the one its modal waits     *)
(* for, and the wallet works on the deposit of the last click.             *)
ModalsFollow ==
  /\ DOMAIN acWithdraw = {"step", "amount", "run"}
  /\ DOMAIN acDeposit = {"step", "amount", "click", "txid"}
  /\ \A r \in DOMAIN acRequests :
       LET q == acRequests[r] IN
       (q.kind = "withdraw" /\ q.panel = acPanel /\ q.at # "over") =>
         acWithdraw.run = r /\ acWithdraw.step \in {"signing", "submitting"}
  /\ acCalls \subseteq [click : Nat, panel : Nat] /\ acClicks \in Nat
  /\ \A c \in acCalls :
       /\ c.panel <= acPanel
       /\ c.panel = acPanel => acDeposit.step = "sending" /\ c.click = acDeposit.click

AccountInv ==
  /\ RequestsAreTyped /\ AcceptedInOrder /\ ModalsFollow
  /\ Account!WaitingShowsItsOwn /\ Account!SuccessIsItsOwn

(* Nothing was asked for when the page opens.                              *)
LEMMA AccountInit == Account!Init => AccountInv
  <1>1. SUFFICES ASSUME Account!Init PROVE AccountInv
    OBVIOUS
  <1>2. /\ acRequests \in Seq({}) /\ DOMAIN acRequests = {}
        /\ acAccepted \in Seq(Nat) /\ DOMAIN acAccepted = {}
    BY <1>1 DEF Account!Init
  <1>3. RequestsAreTyped
    BY <1>1, <1>2 DEF Account!Init, RequestsAreTyped
  <1>4. AcceptedInOrder
    BY <1>2 DEF AcceptedInOrder, Account!InOrderSigned
  <1>5. /\ ModalsFollow /\ Account!WaitingShowsItsOwn /\ Account!SuccessIsItsOwn
    BY <1>1, <1>2 DEF Account!Init, Account!NoDeposit, Account!NoWithdraw, ModalsFollow,
       Account!WaitingShowsItsOwn, Account!SuccessIsItsOwn
  <1>6. QED
    BY <1>3, <1>4, <1>5 DEF AccountInv

(* While the requests rest, so does what was accepted of them.             *)
LEMMA RequestsRest ==
  ASSUME AccountInv,
         UNCHANGED <<acNonce, acAccepted, acRequests, acSignatures, acPanel>>
  PROVE  RequestsAreTyped' /\ AcceptedInOrder'
  BY DEF AccountInv, RequestsAreTyped, AcceptedInOrder, Account!InOrderSigned

(* The deposit modal and the wallet's answers: an answer finds the modal   *)
(* that waits for it, or none.                                             *)
LEMMA DepositsKeep ==
  ASSUME AccountInv,
         \/ Account!HandleDeposit \/ Account!CloseDeposit \/ Account!DepositAgain
         \/ (\E a \in MoveAmounts : Account!EnterDeposit(a))
         \/ (\E c \in acCalls : Account!DepositAnswer(c))
  PROVE  AccountInv'
  <1>1. UNCHANGED <<acNonce, acAccepted, acRequests, acSignatures, acPanel, acWithdraw>>
    BY DEF Account!HandleDeposit, Account!CloseDeposit, Account!DepositAgain,
       Account!EnterDeposit, Account!DepositAnswer, Account!canister, Account!net
  <1>2. RequestsAreTyped' /\ AcceptedInOrder'
    BY <1>1, RequestsRest
  <1>3. Account!SuccessIsItsOwn'
    BY <1>1 DEF AccountInv, Account!SuccessIsItsOwn
  <1>4. /\ DOMAIN acDeposit = {"step", "amount", "click", "txid"} /\ acPanel \in Nat
        /\ acCalls \subseteq [click : Nat, panel : Nat] /\ acClicks \in Nat
        /\ \A c \in acCalls :
             /\ c.panel <= acPanel
             /\ c.panel = acPanel => acDeposit.step = "sending" /\ c.click = acDeposit.click
    BY DEF AccountInv, ModalsFollow, RequestsAreTyped
  <1>5. SUFFICES /\ DOMAIN acDeposit' = {"step", "amount", "click", "txid"}
                 /\ acCalls' \subseteq [click : Nat, panel : Nat] /\ acClicks' \in Nat
                 /\ \A c \in acCalls' :
                      /\ c.panel <= acPanel
                      /\ c.panel = acPanel =>
                           acDeposit'.step = "sending" /\ c.click = acDeposit'.click
                 /\ acDeposit'.step = "waiting" => acDeposit'.txid = acDeposit'.click
    BY <1>1, <1>2, <1>3 DEF AccountInv, ModalsFollow, Account!WaitingShowsItsOwn
  <1>6. CASE Account!HandleDeposit
    BY <1>4, <1>6 DEF Account!HandleDeposit
  <1>7. CASE Account!CloseDeposit \/ Account!DepositAgain
             \/ (\E a \in MoveAmounts : Account!EnterDeposit(a))
    BY <1>4, <1>7 DEF Account!CloseDeposit, Account!DepositAgain, Account!EnterDeposit,
       Account!NoDeposit
  <1>8. ASSUME NEW c \in acCalls, Account!DepositAnswer(c)
        PROVE  /\ DOMAIN acDeposit' = {"step", "amount", "click", "txid"}
               /\ acCalls' \subseteq [click : Nat, panel : Nat] /\ acClicks' \in Nat
               /\ \A d \in acCalls' :
                    /\ d.panel <= acPanel
                    /\ d.panel = acPanel =>
                         acDeposit'.step = "sending" /\ d.click = acDeposit'.click
               /\ acDeposit'.step = "waiting" => acDeposit'.txid = acDeposit'.click
    <2>1. acCalls' = acCalls \ {c} /\ acClicks' = acClicks
      BY <1>8 DEF Account!DepositAnswer
    <2>2. CASE c.panel # acPanel
      BY <1>4, <1>8, <2>1, <2>2 DEF Account!DepositAnswer, AccountInv, Account!WaitingShowsItsOwn
    <2>3. CASE c.panel = acPanel
      <3>1. \A d \in acCalls' : d.panel # acPanel
        BY <1>4, <2>1, <2>3
      <3>2. /\ DOMAIN acDeposit' = {"step", "amount", "click", "txid"}
            /\ acDeposit'.step = "waiting" => acDeposit'.txid = acDeposit'.click
        BY <1>4, <1>8, <2>3 DEF Account!DepositAnswer
      <3>3. QED
        BY <1>4, <2>1, <3>1, <3>2
    <2>4. QED
      BY <2>2, <2>3
  <1>9. QED
    BY <1>6, <1>7, <1>8

(* Typing, closing and starting over; a modal on whose withdrawal one      *)
(* waits is neither closed nor typed into.                                 *)
LEMMA TypingKeeps ==
  ASSUME AccountInv,
         \/ Account!CloseWithdraw \/ Account!WithdrawAgain \/ Account!Refetch
         \/ (\E a \in MoveAmounts : Account!EnterWithdraw(a))
         \/ (\E n \in Names : Account!EnterName(n))
         \/ UNCHANGED acVars
  PROVE  AccountInv'
  <1>1. UNCHANGED <<acNonce, acAccepted, acRequests, acSignatures, acPanel, acDeposit, acCalls,
                    acClicks>>
    BY DEF Account!CloseWithdraw, Account!WithdrawAgain, Account!Refetch,
       Account!EnterWithdraw, Account!EnterName, Account!canister, Account!net, Account!modals,
       acVars
  <1>2. RequestsAreTyped' /\ AcceptedInOrder' /\ Account!WaitingShowsItsOwn'
    BY <1>1, RequestsRest DEF AccountInv, Account!WaitingShowsItsOwn
  <1>3. CASE UNCHANGED acWithdraw
    BY <1>1, <1>2, <1>3 DEF AccountInv, ModalsFollow, Account!SuccessIsItsOwn
  <1>4. CASE Account!CloseWithdraw \/ Account!WithdrawAgain
             \/ (\E a \in MoveAmounts : Account!EnterWithdraw(a))
    <2>1. acWithdraw.step \notin {"signing", "submitting"}
      BY <1>4 DEF Account!CloseWithdraw, Account!WithdrawAgain, Account!EnterWithdraw
    <2>2. DOMAIN acWithdraw' = {"step", "amount", "run"} /\ acWithdraw'.step # "success"
      BY <1>4 DEF Account!CloseWithdraw, Account!WithdrawAgain, Account!EnterWithdraw,
         Account!NoWithdraw, AccountInv, ModalsFollow
    <2>3. QED
      BY <1>1, <1>2, <2>1, <2>2 DEF AccountInv, ModalsFollow, Account!SuccessIsItsOwn
  <1>5. QED
    BY <1>3, <1>4 DEF Account!Refetch, Account!EnterName, Account!modals, acVars

(* A new request comes last, and is signed and carried out later.          *)
LEMMA AskKeeps ==
  ASSUME AccountInv, Account!HandleWithdraw \/ Account!SaveName
  PROVE  AccountInv'
  <1> DEFINE n == Len(acRequests) + 1
             fits(q) == /\ DOMAIN q = RequestFields /\ q.panel = acPanel /\ q.nonce = 0
                        /\ q.order = 0 /\ q.done = "no"
  <1>1. PICK S : acRequests \in Seq(S)
    BY DEF AccountInv, RequestsAreTyped
  <1>2. PICK q : /\ acRequests' = Append(acRequests, q) /\ fits(q)
                 /\ q.kind = "withdraw" => Account!HandleWithdraw
    <2>1. CASE Account!HandleWithdraw
      BY <2>1 DEF Account!HandleWithdraw, Account!Ask, RequestFields
    <2>2. CASE Account!SaveName
      BY <2>2 DEF Account!SaveName, Account!Ask, RequestFields
    <2>3. QED
      BY <2>1, <2>2
  <1>3. /\ acRequests' \in Seq(S \cup {q}) /\ DOMAIN acRequests' = DOMAIN acRequests \cup {n}
        /\ n \notin DOMAIN acRequests /\ acRequests'[n] = q
        /\ \A r \in DOMAIN acRequests : acRequests'[r] = acRequests[r]
    <2>1. acRequests \in Seq(S \cup {q})
      BY <1>1
    <2>2. QED
      BY <1>2, <2>1
  <1>4. UNCHANGED <<acNonce, acAccepted, acSignatures, acPanel, acDeposit, acCalls, acClicks>>
    BY DEF Account!HandleWithdraw, Account!SaveName, Account!Ask, Account!canister
  <1> HIDE DEF n
  <1>5. RequestsAreTyped'
    <2>1. \E T : acRequests' \in Seq(T)
      BY <1>3
    <2>2. QED
      BY <1>2, <1>3, <1>4, <2>1 DEF AccountInv, RequestsAreTyped
  <1>6. AcceptedInOrder'
    BY <1>2, <1>3, <1>4 DEF AccountInv, AcceptedInOrder, Account!InOrderSigned
  <1>7. ModalsFollow' /\ Account!SuccessIsItsOwn'
    <2>1. CASE q.kind = "withdraw"
      <3>1. acWithdraw.step = "idle" /\ DOMAIN acWithdraw' = {"step", "amount", "run"}
            /\ acWithdraw'.step = "signing" /\ acWithdraw'.run = n
        BY <1>2, <2>1 DEF Account!HandleWithdraw, AccountInv, ModalsFollow, n
      <3>2. QED
        BY <1>2, <1>3, <1>4, <3>1 DEF AccountInv, ModalsFollow, Account!SuccessIsItsOwn
    <2>2. CASE q.kind # "withdraw"
      <3>1. UNCHANGED acWithdraw
        <4>1. Account!SaveName
          BY <1>2, <1>3, <2>2 DEF Account!HandleWithdraw, Account!Ask
        <4>2. QED
          BY <4>1 DEF Account!SaveName
      <3>2. QED
        BY <1>2, <1>3, <1>4, <2>2, <3>1 DEF AccountInv, ModalsFollow, Account!SuccessIsItsOwn
    <2>3. QED
      BY <2>1, <2>2
  <1>8. QED
    BY <1>4, <1>5, <1>6, <1>7 DEF AccountInv, Account!WaitingShowsItsOwn

(* A request that changes in place.                                        *)
LEMMA RequestInPlace ==
  ASSUME AccountInv, NEW r \in DOMAIN acRequests, NEW q,
         acRequests' = [acRequests EXCEPT ![r] = q]
  PROVE  /\ \E S : acRequests' \in Seq(S)
         /\ DOMAIN acRequests' = DOMAIN acRequests /\ acRequests'[r] = q
         /\ \A s \in DOMAIN acRequests \ {r} : acRequests'[s] = acRequests[s]
  <1>1. PICK S : acRequests \in Seq(S)
    BY DEF AccountInv, RequestsAreTyped
  <1>2. acRequests \in Seq(S \cup {q})
    BY <1>1
  <1>3. acRequests' \in Seq(S \cup {q})
    BY <1>2
  <1>4. QED
    BY <1>2, <1>3

(* One that changes to what a request may be leaves the requests typed.    *)
LEMMA RequestStaysTyped ==
  ASSUME AccountInv, NEW r \in DOMAIN acRequests, NEW q,
         acRequests' = [acRequests EXCEPT ![r] = q],
         DOMAIN q = RequestFields, {q.order, q.nonce, q.panel} \subseteq Nat,
         q.at \in {"asked", "wallet"} => q.order = 0,
         q.order <= acSignatures', q.nonce <= acNonce', q.panel <= acPanel,
         q.done = "yes" => \E i \in DOMAIN acAccepted' : acAccepted'[i] = r,
         acNonce' \in Nat, acNonce <= acNonce', acSignatures' \in Nat,
         acSignatures <= acSignatures', acPanel' = acPanel, acAccepted' \in Seq(Nat),
         \A i \in DOMAIN acAccepted : i \in DOMAIN acAccepted' /\ acAccepted'[i] = acAccepted[i]
  PROVE  RequestsAreTyped'
  <1>1. /\ \E S : acRequests' \in Seq(S)
        /\ DOMAIN acRequests' = DOMAIN acRequests /\ acRequests'[r] = q
        /\ \A s \in DOMAIN acRequests \ {r} : acRequests'[s] = acRequests[s]
    BY RequestInPlace
  <1>2. acPanel \in Nat /\ acNonce \in Nat /\ acSignatures \in Nat
    BY DEF AccountInv, RequestsAreTyped
  <1>3. ASSUME NEW s \in DOMAIN acRequests, s # r, NEW o, o = acRequests[s]
        PROVE  /\ DOMAIN o = RequestFields /\ {o.order, o.nonce, o.panel} \subseteq Nat
               /\ o.at \in {"asked", "wallet"} => o.order = 0
               /\ o.order <= acSignatures' /\ o.nonce <= acNonce' /\ o.panel <= acPanel'
               /\ o.done = "yes" => \E i \in DOMAIN acAccepted' : acAccepted'[i] = s
    <2>1. /\ DOMAIN o = RequestFields /\ {o.order, o.nonce, o.panel} \subseteq Nat
          /\ o.at \in {"asked", "wallet"} => o.order = 0
          /\ o.order <= acSignatures /\ o.nonce <= acNonce /\ o.panel <= acPanel
          /\ o.done = "yes" => \E i \in DOMAIN acAccepted : acAccepted[i] = s
      BY <1>3 DEF AccountInv, RequestsAreTyped
    <2>2. QED
      BY <1>2, <2>1
  <1>4. QED
    BY <1>1, <1>2, <1>3 DEF RequestsAreTyped

(* The message is told: the request has the nonce of this moment.          *)
LEMMA TellKeeps ==
  ASSUME AccountInv, NEW r \in DOMAIN acRequests, Account!TellMessage(r)
  PROVE  AccountInv'
  <1> DEFINE q == [acRequests[r] EXCEPT !.at = "wallet", !.nonce = acNonce]
             p == acRequests[r]
  <1>1. acRequests' = [acRequests EXCEPT ![r] = q] /\ p.at = "asked"
    BY DEF Account!TellMessage, Account!At
  <1>2. /\ DOMAIN q = RequestFields /\ q.at = "wallet" /\ q.nonce = acNonce
        /\ q.order = p.order /\ q.panel = p.panel /\ q.done = p.done /\ q.kind = p.kind
        /\ p.order = 0
    BY <1>1 DEF AccountInv, RequestsAreTyped, RequestFields
  <1> HIDE DEF q
  <1>3. /\ \E S : acRequests' \in Seq(S)
        /\ DOMAIN acRequests' = DOMAIN acRequests /\ acRequests'[r] = q
        /\ \A s \in DOMAIN acRequests \ {r} : acRequests'[s] = acRequests[s]
    BY <1>1, RequestInPlace
  <1>4. UNCHANGED <<acNonce, acAccepted, acSignatures, acPanel, acDeposit, acWithdraw, acCalls,
                    acClicks>>
    BY DEF Account!TellMessage, Account!canister, Account!modals
  <1>5. RequestsAreTyped'
    <2>1. /\ acAccepted \in Seq(Nat) /\ acNonce \in Nat /\ acSignatures \in Nat /\ p.panel <= acPanel
          /\ {p.order, p.nonce, p.panel} \subseteq Nat /\ p.order <= acSignatures
          /\ p.nonce <= acNonce /\ (p.done = "yes" => \E i \in DOMAIN acAccepted : acAccepted[i] = r)
      BY DEF AccountInv, RequestsAreTyped
    <2>2. /\ {q.order, q.nonce, q.panel} \subseteq Nat
          /\ (q.at \in {"asked", "wallet"} => q.order = 0)
          /\ q.order <= acSignatures' /\ q.nonce <= acNonce' /\ q.panel <= acPanel
          /\ (q.done = "yes" => \E i \in DOMAIN acAccepted' : acAccepted'[i] = r)
          /\ acNonce' \in Nat /\ acNonce <= acNonce' /\ acSignatures' \in Nat
          /\ acSignatures <= acSignatures' /\ acAccepted' \in Seq(Nat)
          /\ acPanel' = acPanel
          /\ \A i \in DOMAIN acAccepted :
               i \in DOMAIN acAccepted' /\ acAccepted'[i] = acAccepted[i]
      BY <1>1, <1>2, <1>4, <2>1
    <2> HIDE DEF p
    <2>3. QED
      BY <1>1, <1>2, <2>2, RequestStaysTyped
  <1>6. AcceptedInOrder'
    BY <1>2, <1>3, <1>4 DEF AccountInv, AcceptedInOrder, Account!InOrderSigned
  <1>7. ModalsFollow'
    BY <1>1, <1>2, <1>3, <1>4 DEF AccountInv, ModalsFollow
  <1>8. QED
    BY <1>4, <1>5, <1>6, <1>7 DEF AccountInv, Account!WaitingShowsItsOwn,
       Account!SuccessIsItsOwn

(* It is signed, after all that were carried out.                          *)
LEMMA SignRequestKeeps ==
  ASSUME AccountInv, NEW r \in DOMAIN acRequests, Account!SignRequest(r)
  PROVE  AccountInv'
  <1> DEFINE q == [acRequests[r] EXCEPT !.at = "sent", !.order = acSignatures + 1]
             p == acRequests[r]
  <1>1. acRequests' = [acRequests EXCEPT ![r] = q] /\ p.at = "wallet"
    BY DEF Account!SignRequest, Account!At
  <1>2. /\ DOMAIN q = RequestFields /\ q.at = "sent" /\ q.nonce = p.nonce
        /\ q.order = acSignatures + 1 /\ q.panel = p.panel /\ q.done = p.done /\ q.kind = p.kind
        /\ p.order = 0
    BY <1>1 DEF AccountInv, RequestsAreTyped, RequestFields
  <1> HIDE DEF q
  <1>3. /\ \E S : acRequests' \in Seq(S)
        /\ DOMAIN acRequests' = DOMAIN acRequests /\ acRequests'[r] = q
        /\ \A s \in DOMAIN acRequests \ {r} : acRequests'[s] = acRequests[s]
    BY <1>1, RequestInPlace
  <1>4. UNCHANGED <<acNonce, acAccepted, acPanel, acDeposit, acCalls, acClicks>>
        /\ acSignatures' = acSignatures + 1
    BY DEF Account!SignRequest, Account!canister
  <1>5. RequestsAreTyped'
    <2>1. /\ acAccepted \in Seq(Nat) /\ acNonce \in Nat /\ acSignatures \in Nat /\ p.panel <= acPanel
          /\ {p.order, p.nonce, p.panel} \subseteq Nat /\ p.order <= acSignatures
          /\ p.nonce <= acNonce /\ (p.done = "yes" => \E i \in DOMAIN acAccepted : acAccepted[i] = r)
      BY DEF AccountInv, RequestsAreTyped
    <2>2. /\ {q.order, q.nonce, q.panel} \subseteq Nat
          /\ (q.at \in {"asked", "wallet"} => q.order = 0)
          /\ q.order <= acSignatures' /\ q.nonce <= acNonce' /\ q.panel <= acPanel
          /\ (q.done = "yes" => \E i \in DOMAIN acAccepted' : acAccepted'[i] = r)
          /\ acNonce' \in Nat /\ acNonce <= acNonce' /\ acSignatures' \in Nat
          /\ acSignatures <= acSignatures' /\ acAccepted' \in Seq(Nat)
          /\ acPanel' = acPanel
          /\ \A i \in DOMAIN acAccepted :
               i \in DOMAIN acAccepted' /\ acAccepted'[i] = acAccepted[i]
      BY <1>1, <1>2, <1>4, <2>1
    <2> HIDE DEF p
    <2>3. QED
      BY <1>1, <1>2, <2>2, RequestStaysTyped
  <1>6. AcceptedInOrder'
    <2>1. \A i \in DOMAIN acAccepted :
            /\ acAccepted[i] # r /\ acAccepted[i] \in DOMAIN acRequests
            /\ acRequests'[acAccepted[i]] = acRequests[acAccepted[i]]
            /\ acRequests[acAccepted[i]].order < acSignatures + 1
      <3>1. TAKE i \in DOMAIN acAccepted
      <3> DEFINE b == acAccepted[i]
      <3>2. b \in DOMAIN acRequests /\ acRequests[b].order > 0
        BY DEF AccountInv, AcceptedInOrder
      <3>3. b # r
        BY <1>2, <3>2
      <3>4. acRequests'[b] = acRequests[b]
        BY <1>3, <3>2, <3>3
      <3>5. /\ {acRequests[b].order, acRequests[b].nonce} \subseteq Nat
            /\ acRequests[b].order <= acSignatures /\ acSignatures \in Nat
        BY <3>2 DEF AccountInv, RequestsAreTyped
      <3>6. acRequests[b].order < acSignatures + 1
        BY <3>5
      <3>7. QED
        BY <3>2, <3>3, <3>4, <3>6
    <2>2. Account!InOrderSigned'
      BY <1>4, <2>1 DEF AccountInv, AcceptedInOrder, Account!InOrderSigned
    <2>3. QED
      BY <1>2, <1>3, <1>4, <2>1, <2>2 DEF AccountInv, AcceptedInOrder
  <1>7. DOMAIN acWithdraw' = {"step", "amount", "run"} /\ acWithdraw'.run = acWithdraw.run
        /\ IF p.kind = "withdraw" /\ p.panel = acPanel THEN acWithdraw'.step = "submitting"
           ELSE acWithdraw' = acWithdraw
    BY DEF Account!SignRequest, Account!WithdrawStep, AccountInv, ModalsFollow
  <1>8. ModalsFollow' /\ Account!SuccessIsItsOwn'
    BY <1>1, <1>2, <1>3, <1>4, <1>7 DEF AccountInv, ModalsFollow, Account!SuccessIsItsOwn
  <1>9. QED
    BY <1>4, <1>5, <1>6, <1>8 DEF AccountInv, Account!WaitingShowsItsOwn

(* It is carried out, or costs its nonce: no other has the nonce after.    *)
LEMMA ReceiveKeeps ==
  ASSUME AccountInv, NEW r \in DOMAIN acRequests, Account!Receive(r)
  PROVE  AccountInv'
  <1> DEFINE p == acRequests[r]
             q == [acRequests[r] EXCEPT !.done = "yes"]
  <1>1. /\ p.order > 0 /\ p.nonce = acNonce /\ acNonce' = acNonce + 1
        /\ UNCHANGED <<acSignatures, acPanel, acDeposit, acWithdraw, acCalls, acClicks>>
    BY DEF Account!Receive, Account!Fresh, Account!modals
  <1>2. acNonce \in Nat /\ \A s \in DOMAIN acRequests :
                             acRequests[s].nonce \in Nat /\ acRequests[s].nonce <= acNonce
    BY DEF AccountInv, RequestsAreTyped
  <1>3. CASE UNCHANGED <<acAccepted, acRequests>>
    <2>1. RequestsAreTyped'
      BY <1>1, <1>2, <1>3 DEF AccountInv, RequestsAreTyped
    <2>2. AcceptedInOrder'
      BY <1>1, <1>2, <1>3 DEF AccountInv, AcceptedInOrder, Account!InOrderSigned
    <2>3. QED
      BY <1>1, <1>3, <2>1, <2>2 DEF AccountInv, ModalsFollow, Account!WaitingShowsItsOwn,
         Account!SuccessIsItsOwn
  <1>4. CASE acAccepted' = Append(acAccepted, r) /\ acRequests' = [acRequests EXCEPT ![r] = q]
    <2> DEFINE n == Len(acAccepted) + 1
    <2>1. /\ DOMAIN q = RequestFields /\ q.done = "yes" /\ q.at = p.at /\ q.nonce = p.nonce
          /\ q.order = p.order /\ q.panel = p.panel /\ q.kind = p.kind
      BY DEF AccountInv, RequestsAreTyped, RequestFields
    <2> HIDE DEF q
    <2>2. /\ \E S : acRequests' \in Seq(S)
          /\ DOMAIN acRequests' = DOMAIN acRequests /\ acRequests'[r] = q
          /\ \A s \in DOMAIN acRequests \ {r} : acRequests'[s] = acRequests[s]
      BY <1>4, RequestInPlace
    <2>3. r \in Nat
      BY DEF AccountInv, RequestsAreTyped
    <2>4. acAccepted \in Seq(Nat)
      BY DEF AccountInv, RequestsAreTyped
    <2>5. /\ acAccepted' \in Seq(Nat) /\ DOMAIN acAccepted' = DOMAIN acAccepted \cup {n}
          /\ n \notin DOMAIN acAccepted /\ acAccepted'[n] = r
          /\ \A i \in DOMAIN acAccepted : i < n /\ acAccepted'[i] = acAccepted[i]
      BY <1>4, <2>3, <2>4
    <2>6. n \in Nat /\ DOMAIN acAccepted \subseteq Nat
      BY <2>4
    <2> HIDE DEF n
    <2>7. RequestsAreTyped'
      <3>1. /\ acSignatures \in Nat /\ {p.order, p.panel} \subseteq Nat
            /\ p.order <= acSignatures /\ p.panel <= acPanel
            /\ (p.at \in {"asked", "wallet"} => p.order = 0)
        BY DEF AccountInv, RequestsAreTyped
      <3>3. \E i \in DOMAIN acAccepted' : acAccepted'[i] = r
        BY <2>5
      <3>4. /\ {q.order, q.nonce, q.panel} \subseteq Nat
            /\ (q.at \in {"asked", "wallet"} => q.order = 0)
            /\ q.order <= acSignatures' /\ q.nonce <= acNonce' /\ q.panel <= acPanel
            /\ (q.done = "yes" => \E i \in DOMAIN acAccepted' : acAccepted'[i] = r)
            /\ acNonce' \in Nat /\ acNonce <= acNonce' /\ acSignatures' \in Nat
            /\ acSignatures <= acSignatures' /\ acAccepted' \in Seq(Nat)
            /\ acPanel' = acPanel
            /\ \A i \in DOMAIN acAccepted :
                 i \in DOMAIN acAccepted' /\ acAccepted'[i] = acAccepted[i]
        BY <1>1, <1>2, <1>4, <2>1, <2>5, <3>1, <3>3
      <3> HIDE DEF p
      <3>5. QED
        BY <1>4, <2>1, <3>4, RequestStaysTyped
    <2>8. \A s \in DOMAIN acRequests :
            /\ acRequests'[s].order = acRequests[s].order
            /\ acRequests'[s].nonce = acRequests[s].nonce
            /\ acRequests'[s].kind = acRequests[s].kind /\ acRequests'[s].at = acRequests[s].at
            /\ acRequests'[s].panel = acRequests[s].panel
      BY <2>1, <2>2
    <2>9. Account!InOrderSigned'
      <3>1. \A i \in DOMAIN acAccepted :
              acAccepted[i] \in DOMAIN acRequests
              /\ acRequests[acAccepted[i]].order < acRequests[r].order
        BY <1>1 DEF AccountInv, AcceptedInOrder
      <3>2. \A i, j \in DOMAIN acAccepted :
              i < j => acRequests[acAccepted[i]].order < acRequests[acAccepted[j]].order
        BY DEF AccountInv, AcceptedInOrder, Account!InOrderSigned
      <3>3. ASSUME NEW i \in DOMAIN acAccepted', NEW j \in DOMAIN acAccepted', i < j
            PROVE  acRequests'[acAccepted'[i]].order < acRequests'[acAccepted'[j]].order
        <4>1. i \in DOMAIN acAccepted
          BY <2>5, <2>6, <3>3
        <4>2. CASE j = n
          BY <2>5, <2>8, <3>1, <4>1, <4>2
        <4>3. CASE j # n
          BY <2>5, <2>8, <3>1, <3>2, <3>3, <4>1, <4>3
        <4>4. QED
          BY <4>2, <4>3
      <3>4. QED
        BY <3>3 DEF Account!InOrderSigned
    <2>10. AcceptedInOrder'
      <3>1. \A s \in DOMAIN acRequests : acRequests'[s].nonce # acNonce'
        BY <1>1, <1>2, <2>8
      <3>2. ASSUME NEW i \in DOMAIN acAccepted'
            PROVE  /\ acAccepted'[i] \in DOMAIN acRequests'
                   /\ acRequests'[acAccepted'[i]].order > 0
                   /\ acRequests'[acAccepted'[i]].nonce < acNonce'
        <4>1. CASE i = n
          BY <1>1, <1>2, <2>2, <2>5, <2>8, <4>1
        <4>2. CASE i # n
          <5>1. /\ acAccepted'[i] = acAccepted[i] /\ acAccepted[i] \in DOMAIN acRequests
                /\ acRequests[acAccepted[i]].order > 0
                /\ acRequests[acAccepted[i]].nonce < acNonce
            BY <2>5, <4>2 DEF AccountInv, AcceptedInOrder
          <5>2. QED
            BY <1>1, <1>2, <2>2, <2>8, <5>1
        <4>3. QED
          BY <4>1, <4>2
      <3>3. QED
        BY <2>2, <2>9, <3>1, <3>2 DEF AcceptedInOrder
    <2>11. ModalsFollow'
      BY <1>1, <2>2, <2>8 DEF AccountInv, ModalsFollow
    <2>12. QED
      BY <1>1, <2>5, <2>7, <2>10, <2>11 DEF AccountInv, Account!WaitingShowsItsOwn,
         Account!SuccessIsItsOwn
  <1>5. QED
    BY <1>3, <1>4 DEF Account!Receive

(* It is over, and the modal that is still there for it says how it ended. *)
LEMMA FinishKeeps ==
  ASSUME AccountInv, NEW r \in DOMAIN acRequests, NEW outcome \in {"success", "error"},
         Account!Finish(r, outcome)
  PROVE  AccountInv'
  <1> DEFINE p == acRequests[r]
             q == [acRequests[r] EXCEPT !.at = "over"]
  <1>1. /\ p.at # "over" /\ (outcome = "success" => p.done = "yes")
        /\ acRequests' = [acRequests EXCEPT ![r] = q]
    BY DEF Account!Finish
  <1>2. /\ DOMAIN q = RequestFields /\ q.at = "over" /\ q.nonce = p.nonce
        /\ q.order = p.order /\ q.panel = p.panel /\ q.done = p.done /\ q.kind = p.kind
    BY DEF AccountInv, RequestsAreTyped, RequestFields
  <1> HIDE DEF q
  <1>3. /\ \E S : acRequests' \in Seq(S)
        /\ DOMAIN acRequests' = DOMAIN acRequests /\ acRequests'[r] = q
        /\ \A s \in DOMAIN acRequests \ {r} : acRequests'[s] = acRequests[s]
    BY <1>1, RequestInPlace
  <1>4. UNCHANGED <<acNonce, acAccepted, acSignatures, acPanel, acDeposit, acCalls, acClicks>>
    BY DEF Account!Finish, Account!canister
  <1>5. RequestsAreTyped'
    <2>1. /\ acAccepted \in Seq(Nat) /\ acNonce \in Nat /\ acSignatures \in Nat /\ p.panel <= acPanel
          /\ {p.order, p.nonce, p.panel} \subseteq Nat /\ p.order <= acSignatures
          /\ p.nonce <= acNonce /\ (p.at \in {"asked", "wallet"} => p.order = 0)
          /\ (p.done = "yes" => \E i \in DOMAIN acAccepted : acAccepted[i] = r)
      BY DEF AccountInv, RequestsAreTyped
    <2>2. /\ {q.order, q.nonce, q.panel} \subseteq Nat
          /\ (q.at \in {"asked", "wallet"} => q.order = 0)
          /\ q.order <= acSignatures' /\ q.nonce <= acNonce' /\ q.panel <= acPanel
          /\ (q.done = "yes" => \E i \in DOMAIN acAccepted' : acAccepted'[i] = r)
          /\ acNonce' \in Nat /\ acNonce <= acNonce' /\ acSignatures' \in Nat
          /\ acSignatures <= acSignatures' /\ acAccepted' \in Seq(Nat)
          /\ acPanel' = acPanel
          /\ \A i \in DOMAIN acAccepted :
               i \in DOMAIN acAccepted' /\ acAccepted'[i] = acAccepted[i]
      BY <1>1, <1>2, <1>4, <2>1
    <2> HIDE DEF p
    <2>3. QED
      BY <1>1, <1>2, <2>2, RequestStaysTyped
  <1>6. AcceptedInOrder'
    <2>1. \A s \in DOMAIN acRequests :
            /\ acRequests'[s].order = acRequests[s].order
            /\ acRequests'[s].nonce = acRequests[s].nonce
      BY <1>2, <1>3
    <2>2. Account!InOrderSigned'
      BY <1>4, <2>1 DEF AccountInv, AcceptedInOrder, Account!InOrderSigned
    <2>3. QED
      BY <1>3, <1>4, <2>1, <2>2 DEF AccountInv, AcceptedInOrder
  <1>7. DOMAIN acWithdraw' = {"step", "amount", "run"} /\ acWithdraw'.run = acWithdraw.run
        /\ IF p.kind = "withdraw" /\ p.panel = acPanel THEN acWithdraw'.step = outcome
           ELSE acWithdraw' = acWithdraw
    BY DEF Account!Finish, Account!WithdrawStep, AccountInv, ModalsFollow
  <1>8. ModalsFollow'
    BY <1>1, <1>2, <1>3, <1>4, <1>7 DEF AccountInv, ModalsFollow
  <1>9. Account!SuccessIsItsOwn'
    BY <1>1, <1>4, <1>7 DEF AccountInv, ModalsFollow, RequestsAreTyped, Account!SuccessIsItsOwn
  <1>10. QED
    BY <1>4, <1>5, <1>6, <1>8, <1>9 DEF AccountInv, Account!WaitingShowsItsOwn

(* The wallet disconnects: nothing on its way is of the new panel.         *)
LEMMA DisconnectKeeps == ASSUME AccountInv, Account!Disconnect PROVE AccountInv'
  <1>1. /\ UNCHANGED <<acNonce, acAccepted, acRequests, acSignatures, acCalls, acClicks>>
        /\ acPanel' = acPanel + 1 /\ acPanel \in Nat
        /\ acDeposit' = Account!NoDeposit /\ acWithdraw' = Account!NoWithdraw
    BY DEF Account!Disconnect, Account!canister, Account!net, AccountInv, RequestsAreTyped
  <1>2. RequestsAreTyped'
    BY <1>1 DEF AccountInv, RequestsAreTyped
  <1>3. AcceptedInOrder'
    BY <1>1 DEF AccountInv, AcceptedInOrder, Account!InOrderSigned
  <1>4. /\ \A r \in DOMAIN acRequests : acRequests[r].panel # acPanel'
        /\ \A c \in acCalls : c.panel <= acPanel' /\ c.panel # acPanel'
    BY <1>1 DEF AccountInv, RequestsAreTyped, ModalsFollow
  <1>5. ModalsFollow' /\ Account!SuccessIsItsOwn' /\ Account!WaitingShowsItsOwn'
    BY <1>1, <1>4 DEF AccountInv, ModalsFollow, Account!NoDeposit, Account!NoWithdraw,
       Account!SuccessIsItsOwn, Account!WaitingShowsItsOwn
  <1>6. QED
    BY <1>2, <1>3, <1>5 DEF AccountInv

(* Whatever the panel, the wallet or the network does next.                *)
LEMMA AccountStep == ASSUME AccountInv, Account!Next \/ UNCHANGED acVars PROVE AccountInv'
  BY DepositsKeep, TypingKeeps, AskKeeps, TellKeeps, SignRequestKeeps, ReceiveKeeps,
     FinishKeeps, DisconnectKeeps DEF Account!Next
-----------------------------------------------------------------------------
(* The onboarding.                                                         *)

RunType ==
  [user : Newcomers, connection : Nat, code : Codes \cup {Onboard!NoCode},
   at : {"checking", "signing", "sent", "over"}, gate : {"closed", "open"},
   done : {"no", "yes", "refused"}]

OnboardingIsTyped ==
  /\ onWallet \in Newcomers \cup {Onboard!Nobody} /\ onConnection \in Nat
  /\ onSession \in Codes \cup {Onboard!NoCode}
  /\ onRuns \in Seq(RunType)
  /\ onKnown \in [Newcomers -> {"unknown", "none", "account", "failed"}]

(* A wallet for which there was a run is not tried again while it stays    *)
(* connected: it is the one attempted, or is known to have an account.     *)
AttemptsAreRemembered ==
  /\ \A u \in Newcomers : onKnown[u] = "account" => u \in Onboard!Registered
  /\ \A r \in DOMAIN onRuns :
       /\ onRuns[r].connection <= onConnection
       /\ onRuns[r].connection = onConnection =>
            onWallet = Onboard!Nobody \/ onAttempted = onWallet \/ onKnown[onWallet] = "account"
  /\ Onboard!OneAttemptPerConnection

(* A code that was named or given is in the registry, where it stays.      *)
CodesAreKept ==
  /\ \A r \in DOMAIN onRuns :
       (onRuns[r].done = "yes" /\ onRuns[r].code # Onboard!NoCode) =>
         onRuns[r].code \in DOMAIN onRegistry
  /\ DOMAIN onInviteCode = Onboard!Registered
  /\ \A u \in Onboard!Registered :
       onInviteCode[u] # Onboard!NoCode => onInviteCode[u] \in DOMAIN onRegistry
  /\ Onboard!ReferralAsSigned /\ Onboard!InviteCodesAgree

OnboardingInv == OnboardingIsTyped /\ AttemptsAreRemembered /\ CodesAreKept

(* At the start the friend has the first of his codes, and nobody else.    *)
LEMMA OnboardingStarts == Onboard!Init => OnboardingInv
  <1>1. SUFFICES ASSUME Onboard!Init PROVE OnboardingInv
    OBVIOUS
  <1>2. onRuns \in Seq(RunType) /\ DOMAIN onRuns = {}
    BY <1>1 DEF Onboard!Init
  <1>3. Friend \in Newcomers
    BY PagesAssumption DEF Onboard!OnboardingAssumption
  <1>4. OnboardingIsTyped
    BY <1>1, <1>2 DEF Onboard!Init, OnboardingIsTyped
  <1>5. AttemptsAreRemembered
    BY <1>1, <1>2 DEF Onboard!Init, AttemptsAreRemembered, Onboard!OneAttemptPerConnection
  <1>6. CodesAreKept
    <2> DEFINE code == Candidates[Friend][1]
    <2>1. /\ onReferrer = [u \in {Friend} |-> Onboard!Nobody]
          /\ onInviteCode = [u \in {Friend} |-> code]
          /\ onRegistry = [c \in {code} |-> Friend]
      BY <1>1 DEF Onboard!Init
    <2> HIDE DEF code
    <2>2. QED
      BY <1>2, <2>1 DEF CodesAreKept, Onboard!Registered, Onboard!ReferralAsSigned,
         Onboard!InviteCodesAgree
  <1>7. QED
    BY <1>4, <1>5, <1>6 DEF OnboardingInv

(* While the canister and what its runs came to rest, so do the codes.     *)
LEMMA CodesRest ==
  ASSUME CodesAreKept, UNCHANGED <<onReferrer, onInviteCode, onRegistry>>,
         DOMAIN onRuns' = DOMAIN onRuns,
         \A r \in DOMAIN onRuns :
           /\ onRuns'[r].user = onRuns[r].user /\ onRuns'[r].code = onRuns[r].code
           /\ onRuns'[r].done = "yes" => onRuns[r].done = "yes"
  PROVE  CodesAreKept'
  <1>1. Onboard!InviteCodesAgree' /\ Onboard!Registered' = Onboard!Registered
    BY DEF CodesAreKept, Onboard!InviteCodesAgree, Onboard!Registered
  <1>2. Onboard!ReferralAsSigned'
    BY <1>1 DEF CodesAreKept, Onboard!ReferralAsSigned
  <1>3. QED
    BY <1>1, <1>2 DEF CodesAreKept

(* Wallet, links and the flag: another wallet is another connection.       *)
LEMMA WalletKeeps ==
  ASSUME OnboardingInv,
         \/ (\E u \in Newcomers : Onboard!Connect(u)) \/ Onboard!Disconnect \/ Onboard!Close
         \/ (\E c \in Codes : Onboard!FollowLink(c))
         \/ Onboard!FetchPauseMode \/ Onboard!TogglePause \/ UNCHANGED onVars
  PROVE  OnboardingInv'
  <1>1. UNCHANGED <<onReferrer, onInviteCode, onRegistry, onRuns, onKnown, onAttempted>>
    BY DEF Onboard!Connect, Onboard!Disconnect, Onboard!Close, Onboard!FollowLink,
       Onboard!FetchPauseMode, Onboard!TogglePause, Onboard!canister, Onboard!queries,
       Onboard!hook, onVars
  <1>2. CodesAreKept'
    BY <1>1, CodesRest DEF OnboardingInv
  <1>3. /\ onSession' \in Codes \cup {Onboard!NoCode}
        /\ onWallet' \in Newcomers \cup {Onboard!Nobody}
        /\ \/ onWallet' \in {onWallet, Onboard!Nobody} /\ onConnection' = onConnection
           \/ onConnection' = onConnection + 1
    BY DEF Onboard!Connect, Onboard!Disconnect, Onboard!Close, Onboard!FollowLink,
       Onboard!FetchPauseMode, Onboard!TogglePause, Onboard!link, onVars, OnboardingInv,
       OnboardingIsTyped
  <1>4. OnboardingIsTyped'
    BY <1>1, <1>3 DEF OnboardingInv, OnboardingIsTyped
  <1>5. \A r \in DOMAIN onRuns : onRuns[r].connection \in Nat
    <2>1. \A r \in DOMAIN onRuns : onRuns[r] \in RunType
      BY DEF OnboardingInv, OnboardingIsTyped
    <2>2. QED
      BY <2>1 DEF RunType
  <1>6. AttemptsAreRemembered'
    BY <1>1, <1>3, <1>5 DEF OnboardingInv, OnboardingIsTyped, AttemptsAreRemembered,
       Onboard!Registered, Onboard!OneAttemptPerConnection
  <1>7. QED
    BY <1>2, <1>4, <1>6 DEF OnboardingInv

(* A query forgets an account only of a user who has none.                 *)
LEMMA QueriesKeep ==
  ASSUME OnboardingInv, Onboard!FetchAccount \/ Onboard!FetchFails
  PROVE  OnboardingInv'
  <1>1. /\ UNCHANGED <<onReferrer, onInviteCode, onRegistry, onRuns, onAttempted, onWallet,
                       onConnection, onSession>>
        /\ onWallet # Onboard!Nobody
    BY DEF Onboard!FetchAccount, Onboard!FetchFails, Onboard!Known, Onboard!canister,
       Onboard!hook, Onboard!link
  <1>2. onWallet \in Newcomers
    BY <1>1 DEF OnboardingInv, OnboardingIsTyped
  <1>3. PICK answer :
          /\ onKnown' = [onKnown EXCEPT ![onWallet] = answer]
          /\ answer \in {"none", "account", "failed"}
          /\ answer = "account" => onWallet \in Onboard!Registered
          /\ answer = "account" \/ onKnown[onWallet] # "account"
             \/ onWallet \notin Onboard!Registered
    BY <1>1 DEF Onboard!FetchAccount, Onboard!FetchFails, Onboard!Known
  <1>4. CodesAreKept'
    BY <1>1, CodesRest DEF OnboardingInv
  <1>5. OnboardingIsTyped'
    BY <1>1, <1>3 DEF OnboardingInv, OnboardingIsTyped
  <1>6. AttemptsAreRemembered'
    BY <1>1, <1>2, <1>3 DEF OnboardingInv, AttemptsAreRemembered, Onboard!Registered,
       Onboard!OneAttemptPerConnection
  <1>7. QED
    BY <1>4, <1>5, <1>6 DEF OnboardingInv

(* The effect forgets an attempt only when there is nobody, or somebody    *)
(* who has an account; and tries a wallet that it has not tried.           *)
LEMMA EffectKeeps == ASSUME OnboardingInv, Onboard!Effect PROVE OnboardingInv'
  <1>1. UNCHANGED <<onReferrer, onInviteCode, onRegistry, onKnown, onConnection, onSession>>
    BY DEF Onboard!Effect, Onboard!canister, Onboard!queries, Onboard!link
  <1>2. onRuns \in Seq(RunType) /\ onConnection \in Nat
    BY DEF OnboardingInv, OnboardingIsTyped
  <1>3. CASE UNCHANGED onRuns
    <2>1. /\ onWallet' \in {onWallet, Onboard!Nobody}
          /\ \/ onAttempted' = onAttempted
             \/ onWallet' \in {onAttempted', Onboard!Nobody}
             \/ onKnown[onWallet'] = "account"
      <3>1. CASE Onboard!NothingToDo
        BY <3>1 DEF Onboard!NothingToDo, Onboard!hook
      <3>2. CASE Onboard!Settle
        BY <3>2 DEF Onboard!Settle, Onboard!Known, OnboardingInv, OnboardingIsTyped
      <3>3. CASE Onboard!TurnAway
        BY <3>3 DEF Onboard!TurnAway
      <3>4. CASE Onboard!StartRun
        BY <1>2, <1>3, <3>4 DEF Onboard!StartRun
      <3>5. QED
        BY <3>1, <3>2, <3>3, <3>4 DEF Onboard!Effect
    <2>2. CodesAreKept'
      BY <1>1, <1>3, CodesRest DEF OnboardingInv
    <2>3. OnboardingIsTyped'
      BY <1>1, <1>3, <2>1 DEF OnboardingInv, OnboardingIsTyped
    <2>4. AttemptsAreRemembered'
      BY <1>1, <1>3, <2>1 DEF OnboardingInv, AttemptsAreRemembered, Onboard!Registered,
         Onboard!OneAttemptPerConnection
    <2>5. QED
      BY <2>2, <2>3, <2>4 DEF OnboardingInv
  <1>4. CASE Onboard!StartRun
    <2> DEFINE n == Len(onRuns) + 1
               run == [user |-> onWallet, connection |-> onConnection, code |-> onSession,
                       at |-> "checking", gate |-> "closed", done |-> "no"]
    <2>1. /\ onWallet' = onWallet /\ onAttempted' = onWallet /\ onRuns' = Append(onRuns, run)
          /\ Onboard!Known \in {"none", "failed"} /\ onAttempted # onWallet
      BY <1>4 DEF Onboard!StartRun, Onboard!ShouldCreate
    <2>2. onWallet # Onboard!Nobody /\ onKnown[onWallet] # "account"
      BY <2>1 DEF Onboard!Known
    <2>3. run \in RunType /\ run.connection = onConnection /\ run.done = "no"
      BY <2>2 DEF OnboardingInv, OnboardingIsTyped, RunType
    <2> HIDE DEF run
    <2>4. /\ onRuns' \in Seq(RunType) /\ DOMAIN onRuns' = DOMAIN onRuns \cup {n}
          /\ n \notin DOMAIN onRuns /\ onRuns'[n] = run
          /\ \A r \in DOMAIN onRuns : onRuns'[r] = onRuns[r]
      BY <1>2, <2>1, <2>3
    <2> HIDE DEF n
    <2>5. \A r \in DOMAIN onRuns : onRuns[r].connection # onConnection
      BY <2>1, <2>2 DEF OnboardingInv, AttemptsAreRemembered
    <2>6. OnboardingIsTyped'
      BY <1>1, <2>1, <2>4 DEF OnboardingInv, OnboardingIsTyped
    <2>7. AttemptsAreRemembered'
      <3>1. Onboard!OneAttemptPerConnection'
        BY <1>1, <2>3, <2>4, <2>5 DEF OnboardingInv, AttemptsAreRemembered,
           Onboard!OneAttemptPerConnection
      <3>2. QED
        BY <1>1, <1>2, <2>1, <2>3, <2>4, <3>1 DEF OnboardingInv, AttemptsAreRemembered,
           Onboard!Registered
    <2>8. CodesAreKept'
      <3>1. Onboard!InviteCodesAgree' /\ Onboard!Registered' = Onboard!Registered
        BY <1>1 DEF OnboardingInv, CodesAreKept, Onboard!InviteCodesAgree, Onboard!Registered
      <3>2. Onboard!ReferralAsSigned'
        BY <1>1, <2>3, <2>4, <3>1 DEF OnboardingInv, CodesAreKept, Onboard!ReferralAsSigned
      <3>3. QED
        BY <1>1, <2>3, <2>4, <3>1, <3>2 DEF OnboardingInv, CodesAreKept
    <2>9. QED
      BY <2>6, <2>7, <2>8 DEF OnboardingInv
  <1>5. QED
    BY <1>3, <1>4 DEF Onboard!Effect, Onboard!NothingToDo, Onboard!Settle, Onboard!TurnAway

(* A run goes its way: whose it is and what it came to stay as they are.   *)
LEMMA RunKeeps ==
  ASSUME OnboardingInv, NEW r \in DOMAIN onRuns,
         \/ Onboard!ValidateInviteCode(r) \/ Onboard!RejectInviteCode(r) \/ Onboard!Sign(r)
         \/ Onboard!Fail(r) \/ Onboard!Succeed(r) \/ Onboard!AssertNotPaused(r)
  PROVE  OnboardingInv'
  <1>1. /\ UNCHANGED <<onReferrer, onInviteCode, onRegistry, onKnown, onAttempted, onWallet,
                       onConnection>>
        /\ onSession' \in {onSession, Onboard!NoCode}
    BY DEF Onboard!ValidateInviteCode, Onboard!RejectInviteCode, Onboard!Sign, Onboard!Fail,
       Onboard!Succeed, Onboard!AssertNotPaused, Onboard!canister, Onboard!queries,
       Onboard!link, Onboard!hook
  <1>2. onRuns \in Seq(RunType) /\ onRuns[r] \in RunType
    BY DEF OnboardingInv, OnboardingIsTyped
  <1>3. PICK q \in RunType :
          /\ onRuns' = [onRuns EXCEPT ![r] = q]
          /\ q.user = onRuns[r].user /\ q.connection = onRuns[r].connection
          /\ q.code = onRuns[r].code /\ q.done = onRuns[r].done
    <2>1. CASE Onboard!AssertNotPaused(r)
      <3> DEFINE q == [onRuns[r] EXCEPT !.gate = "open"]
      <3>1. onRuns' = [onRuns EXCEPT ![r] = q]
        BY <2>1 DEF Onboard!AssertNotPaused
      <3>2. /\ q \in RunType /\ q.user = onRuns[r].user
            /\ q.connection = onRuns[r].connection
            /\ q.code = onRuns[r].code /\ q.done = onRuns[r].done
        BY <1>2 DEF RunType
      <3> HIDE DEF q
      <3>3. QED
        BY <3>1, <3>2
    <2>2. ASSUME NEW at \in {"signing", "sent", "over"}, Onboard!Move(r, at)
          PROVE  \E q \in RunType :
                   /\ onRuns' = [onRuns EXCEPT ![r] = q]
                   /\ q.user = onRuns[r].user /\ q.connection = onRuns[r].connection
                   /\ q.code = onRuns[r].code /\ q.done = onRuns[r].done
      <3> DEFINE q == [onRuns[r] EXCEPT !.at = at]
      <3>1. onRuns' = [onRuns EXCEPT ![r] = q]
        BY <2>2 DEF Onboard!Move
      <3>2. /\ q \in RunType /\ q.user = onRuns[r].user
            /\ q.connection = onRuns[r].connection
            /\ q.code = onRuns[r].code /\ q.done = onRuns[r].done
        BY <1>2 DEF RunType
      <3> HIDE DEF q
      <3>3. QED
        BY <3>1, <3>2
    <2>3. QED
      BY <2>1, <2>2 DEF Onboard!ValidateInviteCode, Onboard!RejectInviteCode, Onboard!Sign,
         Onboard!Fail, Onboard!Succeed
  <1>4. /\ onRuns' \in Seq(RunType) /\ DOMAIN onRuns' = DOMAIN onRuns
        /\ \A s \in DOMAIN onRuns :
             /\ onRuns'[s].user = onRuns[s].user /\ onRuns'[s].code = onRuns[s].code
             /\ onRuns'[s].connection = onRuns[s].connection
             /\ onRuns'[s].done = onRuns[s].done
    BY <1>2, <1>3
  <1>5. CodesAreKept'
    BY <1>1, <1>4, CodesRest DEF OnboardingInv
  <1>6. OnboardingIsTyped'
    BY <1>1, <1>4 DEF OnboardingInv, OnboardingIsTyped
  <1>7. AttemptsAreRemembered'
    BY <1>1, <1>4 DEF OnboardingInv, AttemptsAreRemembered, Onboard!Registered,
       Onboard!OneAttemptPerConnection
  <1>8. QED
    BY <1>5, <1>6, <1>7 DEF OnboardingInv

(* A code that is drawn is a free one.                                     *)
LEMMA DrawnIsFree ==
  ASSUME NEW u \in Newcomers, Onboard!FreeCandidate(u) # 0
  PROVE  Candidates[u][Onboard!FreeCandidate(u)] \notin DOMAIN onRegistry
  <1> DEFINE free == {i \in DOMAIN Candidates[u] : Candidates[u][i] \notin DOMAIN onRegistry}
  <1>1. free \subseteq Nat
    BY PagesAssumption DEF Onboard!OnboardingAssumption
  <1>2. free # {} /\ Onboard!FreeCandidate(u) = Select!Min(free)
    BY DEF Onboard!FreeCandidate, Select!Min
  <1>3. Select!Min(free) \in free
    BY <1>1, <1>2, HasSmallest
  <1>4. QED
    BY <1>2, <1>3

(* create_account: the account, its referrer and its code come together,   *)
(* of a user who had none and a code that nobody had.                      *)
LEMMA CreateAccountKeeps ==
  ASSUME OnboardingInv, NEW r \in DOMAIN onRuns, Onboard!CreateAccount(r)
  PROVE  OnboardingInv'
  <1> DEFINE u == onRuns[r].user
             code == onRuns[r].code
             i == Onboard!FreeCandidate(u)
             drawn == Candidates[u][i]
  <1>1. UNCHANGED <<onKnown, onAttempted, onWallet, onConnection, onSession>>
    BY DEF Onboard!CreateAccount, Onboard!queries, Onboard!link, Onboard!hook
  <1>2. /\ onRuns \in Seq(RunType) /\ u \in Newcomers /\ onRuns[r] \in RunType
        /\ onRuns[r].done = "no"
    <2>1. onRuns \in Seq(RunType) /\ onRuns[r] \in RunType
      BY DEF OnboardingInv, OnboardingIsTyped
    <2>2. QED
      BY <2>1 DEF RunType, Onboard!CreateAccount
  <1>3. PICK done \in {"yes", "refused"} :
          /\ onRuns' = [onRuns EXCEPT ![r] = [onRuns[r] EXCEPT !.done = done]]
          /\ done = "yes" <=> Onboard!Acceptable(r)
    BY DEF Onboard!CreateAccount
  <1> DEFINE q == [onRuns[r] EXCEPT !.done = done]
  <1>4. /\ q \in RunType /\ q.user = u /\ q.connection = onRuns[r].connection
        /\ q.code = code /\ q.done = done
    BY <1>2 DEF RunType
  <1>5. onRuns' = [onRuns EXCEPT ![r] = q]
    BY <1>3
  <1> HIDE DEF q
  <1>6. /\ onRuns' \in Seq(RunType) /\ DOMAIN onRuns' = DOMAIN onRuns /\ onRuns'[r] = q
        /\ \A s \in DOMAIN onRuns \ {r} : onRuns'[s] = onRuns[s]
    BY <1>2, <1>4, <1>5
  <1>7. \A s \in DOMAIN onRuns :
          /\ onRuns'[s].user = onRuns[s].user /\ onRuns'[s].code = onRuns[s].code
          /\ onRuns'[s].connection = onRuns[s].connection
          /\ s # r => onRuns'[s].done = onRuns[s].done
    BY <1>4, <1>6
  <1>8. OnboardingIsTyped'
    BY <1>1, <1>6 DEF OnboardingInv, OnboardingIsTyped
  <1>9. CASE ~Onboard!Acceptable(r)
    <2>1. UNCHANGED <<onReferrer, onInviteCode, onRegistry>> /\ onRuns'[r].done # "yes"
      BY <1>3, <1>4, <1>6, <1>9 DEF Onboard!CreateAccount, Onboard!canister
    <2>2. CodesAreKept'
      BY <1>6, <1>7, <2>1, CodesRest DEF OnboardingInv
    <2>3. AttemptsAreRemembered'
      BY <1>1, <1>6, <1>7, <2>1 DEF OnboardingInv, AttemptsAreRemembered, Onboard!Registered,
         Onboard!OneAttemptPerConnection
    <2>4. QED
      BY <1>8, <2>2, <2>3 DEF OnboardingInv
  <1>10. CASE Onboard!Acceptable(r)
    <2> DEFINE by == IF code = Onboard!NoCode THEN Onboard!Nobody ELSE onRegistry[code]
               given == IF i = 0 THEN Onboard!NoCode ELSE drawn
    <2>1. /\ u \notin Onboard!Registered
          /\ code # Onboard!NoCode => code \in DOMAIN onRegistry
      BY <1>10 DEF Onboard!Acceptable, Onboard!Valid
    <2>2. /\ onReferrer' = Onboard!Extended(onReferrer, u, by)
          /\ onInviteCode' = Onboard!Extended(onInviteCode, u, given)
          /\ onRegistry' = IF i = 0 THEN onRegistry ELSE Onboard!Extended(onRegistry, drawn, u)
      BY <1>10 DEF Onboard!CreateAccount
    <2>3. i # 0 => drawn \notin DOMAIN onRegistry
      BY <1>2, DrawnIsFree
    <2>4. DOMAIN onInviteCode = Onboard!Registered
      BY DEF OnboardingInv, CodesAreKept
    <2>5. /\ Onboard!Registered' = Onboard!Registered \cup {u}
          /\ onReferrer'[u] = by
          /\ \A v \in Onboard!Registered : onReferrer'[v] = onReferrer[v]
      BY <2>1, <2>2 DEF Onboard!Registered, Onboard!Extended
    <2>6. /\ DOMAIN onInviteCode' = Onboard!Registered \cup {u}
          /\ onInviteCode'[u] = given
          /\ \A v \in Onboard!Registered : onInviteCode'[v] = onInviteCode[v]
      BY <2>1, <2>2, <2>4 DEF Onboard!Extended
    <2>7. /\ DOMAIN onRegistry' = DOMAIN onRegistry \cup (IF i = 0 THEN {} ELSE {drawn})
          /\ \A c \in DOMAIN onRegistry : onRegistry'[c] = onRegistry[c]
          /\ i # 0 => onRegistry'[drawn] = u
      BY <2>2, <2>3 DEF Onboard!Extended
    <2> HIDE DEF u, i, drawn, by, code
    <2>8. AttemptsAreRemembered'
      BY <1>1, <1>6, <1>7, <2>5 DEF OnboardingInv, AttemptsAreRemembered,
         Onboard!OneAttemptPerConnection
    <2>9. Onboard!InviteCodesAgree'
      <3>1. ASSUME NEW v \in Onboard!Registered', onInviteCode'[v] # Onboard!NoCode
            PROVE  onInviteCode'[v] \in DOMAIN onRegistry'
                   /\ onRegistry'[onInviteCode'[v]] = v
        <4>1. CASE v = u
          BY <2>6, <2>7, <3>1, <4>1
        <4>2. CASE v # u
          BY <2>5, <2>6, <2>7, <3>1, <4>2 DEF OnboardingInv, CodesAreKept,
             Onboard!InviteCodesAgree
        <4>3. QED
          BY <4>1, <4>2
      <3>2. ASSUME NEW c \in DOMAIN onRegistry'
            PROVE  onRegistry'[c] \in Onboard!Registered' /\ onInviteCode'[onRegistry'[c]] = c
        <4>1. CASE c \in DOMAIN onRegistry
          BY <2>5, <2>6, <2>7, <4>1 DEF OnboardingInv, CodesAreKept, Onboard!InviteCodesAgree
        <4>2. CASE c \notin DOMAIN onRegistry
          BY <2>5, <2>6, <2>7, <3>2, <4>2
        <4>3. QED
          BY <4>1, <4>2
      <3>3. QED
        BY <3>1, <3>2 DEF Onboard!InviteCodesAgree
    <2>10. ASSUME NEW s \in DOMAIN onRuns, onRuns'[s].done = "yes"
           PROVE  LET c == onRuns'[s].code  v == onRuns'[s].user IN
                  /\ c # Onboard!NoCode => c \in DOMAIN onRegistry'
                  /\ v \in Onboard!Registered'
                  /\ onReferrer'[v] = IF c = Onboard!NoCode THEN Onboard!Nobody
                                      ELSE onRegistry'[c]
      <3>1. CASE s = r
        BY <1>7, <2>1, <2>5, <2>7, <3>1 DEF u, by, code
      <3>2. CASE s # r
        <4> DEFINE c == onRuns[s].code
                   v == onRuns[s].user
        <4>1. /\ c # Onboard!NoCode => c \in DOMAIN onRegistry
              /\ v \in Onboard!Registered
              /\ onReferrer[v] = IF c = Onboard!NoCode THEN Onboard!Nobody ELSE onRegistry[c]
          BY <1>7, <2>10, <3>2 DEF OnboardingInv, CodesAreKept, Onboard!ReferralAsSigned
        <4>2. onRuns'[s].code = c /\ onRuns'[s].user = v
          BY <1>7
        <4> HIDE DEF c, v
        <4>3. QED
          BY <2>5, <2>7, <4>1, <4>2
      <3>3. QED
        BY <3>1, <3>2
    <2>11. CodesAreKept'
      <3>1. \A v \in Onboard!Registered' :
              onInviteCode'[v] # Onboard!NoCode => onInviteCode'[v] \in DOMAIN onRegistry'
        BY <2>5, <2>6, <2>7 DEF OnboardingInv, CodesAreKept
      <3>2. Onboard!ReferralAsSigned'
        BY <1>6, <2>10 DEF Onboard!ReferralAsSigned
      <3>3. QED
        BY <1>6, <2>5, <2>6, <2>9, <2>10, <3>1, <3>2 DEF CodesAreKept
    <2>12. QED
      BY <1>8, <2>8, <2>11 DEF OnboardingInv
  <1>11. QED
    BY <1>9, <1>10

(* Whatever the user, the browser, the server or the canister does next.   *)
LEMMA OnboardingStep ==
  ASSUME OnboardingInv, Onboard!Next \/ UNCHANGED onVars PROVE OnboardingInv'
  BY WalletKeeps, QueriesKeep, EffectKeeps, RunKeeps, CreateAccountKeeps DEF Onboard!Next
-----------------------------------------------------------------------------
(* The chart.                                                              *)

(* The hours that begin in the last days before a moment.                  *)
LastHours(days, at) ==
  {h \in Int : at - days * Chart!DayTicks <= h * HourTicks /\ h * HourTicks <= at}

Moments == {t \in Nat : Start <= t /\ t <= chNow}

ChartIsTyped ==
  /\ chNow \in Moments /\ chNow <= MaxNow /\ chClock \in Clocks
  /\ chChosen \in [term : Terms, strike : Strikes] /\ chPrice \in Nat /\ chWidth \in Sizes
  /\ chChart \in {"none", "overlay", "plain"}
  /\ chWatched \in BOOLEAN

(* What there is of the history was fetched, all of it.                    *)
HistoryIsFetched ==
  /\ chAsked \subseteq [days : MinDays .. MaxDays, at : Moments]
  /\ DOMAIN chHistory = MinDays .. MaxDays
  /\ \A d \in MinDays .. MaxDays :
       /\ DOMAIN chHistory[d] = {"status", "candles"}
       /\ chHistory[d].candles = {} \/ \E at \in Moments : chHistory[d].candles = LastHours(d, at)

(* A chart that is there is watched, and known in its size.                *)
ContainerIsWatched ==
  /\ (chChart # "none" /\ ~Chart!Loading(chChart, chChosen.term, chHistory, chAsked)) => chWatched
  /\ chWatched => chMeasured = chWidth

(* A review is of the term on the chart, and of a moment that has passed.  *)
ReviewIsOfTheChart ==
  /\ chChart = "none" => chReview = {}
  /\ \A r \in chReview :
       DOMAIN r = {"at", "term"} /\ r.at \in Moments /\ r.term = chChosen.term

(* The expiry that a browser with this clock foretells.                    *)
Foretold(clock, at, term) ==
  LET begin == ((at - clock.offset) \div HourTicks + 1) * HourTicks + clock.offset
  IN  begin + term * Chart!DayTicks - clock.shift * HourTicks

(* An order says what its review said, of the clock and of the chart.      *)
OrderIsOfTheReview ==
  \A o \in chOrder :
    /\ DOMAIN o = {"term", "rendered", "told", "day", "marked", "at", "expiry"}
    /\ o.term \in Terms /\ o.at \in Moments /\ o.rendered \in Moments /\ o.rendered <= o.at
    /\ o.told = Foretold(chClock, o.rendered, o.term)
    /\ o.day = Chart!HeadlineDay(o.rendered, o.term)
    /\ \A h \in o.marked : h \in Int /\ h <= Chart!Hour(o.at) + o.term * DayHours
    /\ o.expiry \in {0, Chart!ExpiryOf(o.at, o.term)}

ChartInv ==
  /\ ChartIsTyped /\ HistoryIsFetched /\ ContainerIsWatched /\ ReviewIsOfTheChart
  /\ OrderIsOfTheReview

(* What is assumed of the chart's constants, said of the project's own     *)
(* sets.                                                                   *)
LEMMA ChartConstants ==
  /\ HourTicks \in Nat \ {0} /\ DayHours \in Nat \ {0} /\ WindowHours \in Nat \ {0}
  /\ {MinDays, MaxDays, MaxCandles, Left, Right, Top, Height, Start, MaxNow} \subseteq Nat
  /\ 1 <= MinDays /\ MinDays <= MaxDays
  /\ IsFiniteSet(Terms) /\ Terms # {} /\ Terms \in SUBSET (Nat \ {0})
  /\ IsFiniteSet(Strikes) /\ Strikes # {} /\ Strikes \in SUBSET Nat
  /\ Prices \subseteq Nat /\ \A h \in 0 .. MaxNow \div HourTicks : ClosingPrice[h] \in Nat
  /\ Clocks \subseteq [offset : Int, shift : Int]
  /\ Start >= MaxDays * DayHours * HourTicks /\ Start <= MaxNow
  /\ Sizes \subseteq Nat
  /\ \A n \in Sizes, t \in Terms : n >= Left + Right + MaxDays + t + 3
  <1>1. \A S : Chart!IsFiniteSet(S) = IsFiniteSet(S)
    BY DEF Chart!IsFiniteSet, IsFiniteSet
  <1>2. QED
    BY <1>1, PagesAssumption DEF Chart!TermChartAssumption

(* Products with a positive number keep the order.                         *)
LEMMA TimesKeepsOrder ==
  ASSUME NEW x \in Int, NEW y \in Int, NEW m \in Nat \ {0}
  PROVE  /\ x * m \in Int /\ y * m \in Int
         /\ x <= y <=> x * m <= y * m
         /\ (x + y) * m = x * m + y * m /\ (x - y) * m = x * m - y * m
         /\ (x + 1) * m = x * m + m
  <1>1. x * m \in Int /\ y * m \in Int
    OBVIOUS
  <1>2. (x + y) * m = x * m + y * m /\ (x - y) * m = x * m - y * m /\ (x + 1) * m = x * m + m
    BY SMTT(30)
  <1>3. x <= y => x * m <= y * m
    BY SMTT(30)
  <1>4. x * m <= y * m => x <= y
    <2>1. SUFFICES ASSUME y < x PROVE y * m < x * m
      BY <1>1
    <2>2. QED
      BY <2>1, SMTT(30)
  <1>5. QED
    BY <1>1, <1>2, <1>3, <1>4

(* Least and largest of two, and of a range.                               *)
LEMMA EdgesOfTwo ==
  ASSUME NEW a \in Int, NEW b \in Int
  PROVE  /\ Chart!Min({a, b}) = IF a <= b THEN a ELSE b
         /\ Chart!Max({a, b}) = IF a <= b THEN b ELSE a
  BY DEF Chart!Min, Chart!Max

(* A range of numbers begins at its smallest and ends at its largest.      *)
LEMMA EdgesOfRange ==
  ASSUME NEW lo \in Int, NEW hi \in Int, lo <= hi
  PROVE  Chart!Min(lo .. hi) = lo /\ Chart!Max(lo .. hi) = hi
  BY DEF Chart!Min, Chart!Max

(* The hour of a moment began then or before, and is not over.             *)
LEMMA HourBounds ==
  ASSUME NEW t \in Nat
  PROVE  /\ Chart!Hour(t) \in Nat
         /\ Chart!Hour(t) * HourTicks <= t /\ t < Chart!Hour(t) * HourTicks + HourTicks
         /\ \A h \in Int : h * HourTicks <= t <=> h <= Chart!Hour(t)
  <1> DEFINE q == Chart!Hour(t)
  <1>1. q \in Nat /\ q * HourTicks <= t /\ t < q * HourTicks + HourTicks
    BY QuotientIsClose, ChartConstants DEF Chart!Hour
  <1>2. HourTicks \in Nat \ {0}
    BY ChartConstants
  <1> HIDE DEF q
  <1>3. ASSUME NEW h \in Int
        PROVE  h * HourTicks <= t <=> h <= q
    <2>1. h * HourTicks \in Int /\ (h <= q <=> h * HourTicks <= q * HourTicks)
      BY <1>1, <1>2, TimesKeepsOrder
    <2>2. CASE h <= q
      BY <1>1, <1>2, <2>1, <2>2
    <2>3. CASE q + 1 <= h
      <3>1. (q + 1) * HourTicks <= h * HourTicks
        BY <1>1, <1>2, <2>3, TimesKeepsOrder
      <3>2. (q + 1) * HourTicks = q * HourTicks + HourTicks
        BY <1>1, <1>2, TimesKeepsOrder
      <3>3. QED
        BY <1>1, <1>2, <2>1, <2>3, <3>1, <3>2
    <2>4. QED
      BY <1>1, <2>2, <2>3
  <1>4. QED
    BY <1>1, <1>3 DEF q

(* Later is no earlier an hour.                                            *)
LEMMA HoursFollow ==
  ASSUME NEW s \in Nat, NEW t \in Nat, s <= t
  PROVE  Chart!Hour(s) <= Chart!Hour(t)
  <1>1. Chart!Hour(s) \in Nat /\ Chart!Hour(s) * HourTicks <= s
    BY HourBounds
  <1>2. HourTicks \in Nat
    BY ChartConstants
  <1>3. Chart!Hour(s) * HourTicks <= t
    BY <1>1, <1>2
  <1>4. QED
    BY <1>1, <1>3, HourBounds

(* The days before a moment, in hours and in ticks: they all have been.    *)
LEMMA DaysBefore ==
  ASSUME NEW d \in MinDays .. MaxDays, NEW at \in Moments
  PROVE  /\ d * DayHours \in Nat \ {0}
         /\ d * Chart!DayTicks = (d * DayHours) * HourTicks
         /\ (d * DayHours) * HourTicks \in Nat \ {0} /\ (d * DayHours) * HourTicks <= at
  <1>1. /\ DayHours \in Nat \ {0} /\ HourTicks \in Nat \ {0} /\ MaxDays \in Nat
        /\ d \in Nat \ {0} /\ d <= MaxDays /\ at \in Nat
        /\ MaxDays * DayHours * HourTicks <= at
    BY ChartConstants DEF Moments
  <1>2. d * DayHours \in Nat \ {0}
    BY <1>1, SMTT(30)
  <1>3. d * DayHours <= MaxDays * DayHours /\ MaxDays * DayHours \in Nat
    BY <1>1, TimesKeepsOrder
  <1>4. (d * DayHours) * HourTicks <= (MaxDays * DayHours) * HourTicks
    BY <1>1, <1>2, <1>3, TimesKeepsOrder
  <1>5. d * (DayHours * HourTicks) = (d * DayHours) * HourTicks
    BY <1>1, SMTT(30)
  <1>6. (d * DayHours) * HourTicks \in Nat \ {0}
    <2> DEFINE n == d * DayHours
    <2>1. n \in Nat \ {0}
      BY <1>2
    <2> HIDE DEF n
    <2>2. n * HourTicks \in Nat \ {0}
      BY <1>1, <2>1, SMTT(30)
    <2>3. QED
      BY <2>2 DEF n
  <1>7. QED
    BY <1>1, <1>2, <1>4, <1>5, <1>6 DEF Chart!DayTicks

(* The last hours are one range, as long as the days, or longer by the     *)
(* hour that begins as they end.                                           *)
LEMMA LastHoursAre ==
  ASSUME NEW d \in MinDays .. MaxDays, NEW at \in Moments
  PROVE  \E lo \in Nat :
           /\ lo <= Chart!Hour(at) /\ LastHours(d, at) = lo .. Chart!Hour(at)
           /\ Chart!Hour(at) - lo \in {d * DayHours - 1, d * DayHours}
  <1> DEFINE n == d * DayHours
             a == Chart!Hour(at)
             lo == IF a * HourTicks = at THEN a - n ELSE a - n + 1
  <1>1. /\ n \in Nat \ {0} /\ n * HourTicks \in Nat /\ n * HourTicks <= at
        /\ d * Chart!DayTicks = n * HourTicks
    BY DaysBefore
  <1>2. /\ a \in Nat /\ a * HourTicks <= at /\ at < a * HourTicks + HourTicks
        /\ \A h \in Int : h * HourTicks <= at <=> h <= a
    BY HourBounds DEF Moments
  <1>3. at \in Nat /\ HourTicks \in Nat \ {0}
    BY ChartConstants DEF Moments
  <1> HIDE DEF n, a
  <1>4. n <= a
    BY <1>1, <1>2
  <1>5. lo \in Nat /\ lo <= a /\ a - lo \in {n - 1, n}
    BY <1>1, <1>2, <1>4
  <1>6. ASSUME NEW h \in Int
        PROVE  at - n * HourTicks <= h * HourTicks <=> lo <= h
    <2>1. /\ (h + n) * HourTicks = h * HourTicks + n * HourTicks
          /\ (h + n) * HourTicks \in Int /\ h * HourTicks \in Int
      BY <1>1, <1>3, TimesKeepsOrder
    <2>2. /\ a <= h + n <=> a * HourTicks <= (h + n) * HourTicks
          /\ h + n <= a <=> (h + n) * HourTicks <= a * HourTicks
          /\ a * HourTicks \in Int
      BY <1>1, <1>2, <1>3, TimesKeepsOrder
    <2>3. /\ a + 1 <= h + n <=> (a + 1) * HourTicks <= (h + n) * HourTicks
          /\ (a + 1) * HourTicks = a * HourTicks + HourTicks
      BY <1>1, <1>2, <1>3, TimesKeepsOrder
    <2> DEFINE x == (h + n) * HourTicks
               y == a * HourTicks
               z == n * HourTicks
               w == h * HourTicks
    <2>4. /\ x = w + z /\ x \in Int /\ w \in Int /\ z \in Nat /\ y \in Int
          /\ y <= at /\ at < y + HourTicks
          /\ (a <= h + n <=> y <= x) /\ (h + n <= a <=> x <= y)
          /\ (a + 1 <= h + n <=> y + HourTicks <= x)
      BY <1>1, <1>2, <2>1, <2>2, <2>3
    <2>5. lo = IF y = at THEN a - n ELSE a - n + 1
      OBVIOUS
    <2> HIDE DEF x, y, z, w, lo
    <2>6. at - z <= w <=> lo <= h
      BY <1>1, <1>2, <1>3, <2>4, <2>5
    <2>7. QED
      BY <2>6 DEF z, w
  <1> HIDE DEF lo
  <1>7. LastHours(d, at) = lo .. a
    BY <1>1, <1>2, <1>5, <1>6 DEF LastHours
  <1>8. QED
    BY <1>5, <1>7 DEF n, a

(* The windows of a request hold together: every hour of the days is in    *)
(* one of them, and they reach no further.                                 *)
LEMMA WindowsCover ==
  ASSUME NEW d \in MinDays .. MaxDays, NEW at \in Moments
  PROVE  Chart!Fetched(d, at) \in {{}, LastHours(d, at)}
  <1> DEFINE from == at - d * Chart!DayTicks
             span == WindowHours * HourTicks
             windows == Chart!Windows(from, at)
             end(k) == Chart!Min({from + (k + 1) * span, at})
             window(k) == [from |-> from + k * span, to |-> end(k)]
  <1>1. from \in Nat /\ at \in Nat /\ from < at
    BY DaysBefore, ChartConstants DEF Moments
  <1>2. span \in Nat \ {0} /\ HourTicks \in Nat \ {0}
    <2>1. HourTicks \in Nat \ {0} /\ WindowHours \in Nat \ {0}
      BY ChartConstants
    <2>2. QED
      BY <2>1, SMTT(30)
  <1>3. windows = {window(k) : k \in {k \in 0 .. (at - from) \div span : from + k * span < at}}
    BY DEF Chart!Windows
  <1>4. LastHours(d, at) = {h \in Int : from <= h * HourTicks /\ h * HourTicks <= at}
    BY DEF LastHours
  <1> HIDE DEF from, span, windows
  <1>5. ASSUME NEW k \in Nat
        PROVE  /\ k * span \in Nat /\ (k + 1) * span = k * span + span
               /\ end(k) = IF from + k * span + span <= at THEN from + k * span + span ELSE at
    <2>1. k * span \in Nat /\ (k + 1) * span = k * span + span
      BY <1>2, TimesKeepsOrder
    <2>2. from + (k + 1) * span = from + k * span + span /\ from + k * span + span \in Int
      BY <1>1, <1>2, <2>1
    <2>3. QED
      BY <1>1, <2>1, <2>2, EdgesOfTwo
  <1> HIDE DEF end
  <1>6. ASSUME NEW h \in UNION {Chart!CandlesOf(w) : w \in windows}
        PROVE  h \in LastHours(d, at)
    <2>1. PICK k \in {k \in 0 .. (at - from) \div span : from + k * span < at} :
            h \in Chart!CandlesOf(window(k))
      BY <1>3, <1>6
    <2>2. k \in Nat
      BY <2>1
    <2>3. /\ h \in Chart!Hour(from + k * span) .. Chart!Hour(end(k))
          /\ from + k * span <= h * HourTicks /\ h * HourTicks <= end(k)
      BY <2>1 DEF Chart!CandlesOf
    <2>4. k * span \in Nat /\ end(k) \in Int /\ end(k) <= at
      BY <1>1, <1>2, <1>5, <2>2
    <2>5. h \in Int
      BY <2>3
    <2>6. h * HourTicks \in Int
      BY <1>2, <2>5
    <2>7. from <= h * HourTicks /\ h * HourTicks <= at
      BY <1>1, <2>3, <2>4, <2>6
    <2>8. QED
      BY <1>4, <2>5, <2>7
  <1>7. ASSUME NEW h \in LastHours(d, at)
        PROVE  h \in UNION {Chart!CandlesOf(w) : w \in windows}
    <2> DEFINE t == h * HourTicks
               k == (t - from) \div span
    <2>1. h \in Int /\ t \in Nat /\ from <= t /\ t <= at
      BY <1>1, <1>2, <1>4
    <2>2. k \in Nat /\ k * span <= t - from /\ t - from < k * span + span
      BY <1>2, <2>1, <1>1, QuotientIsClose
    <2>3. ASSUME NEW j \in Nat, from + j * span < at, from + j * span <= t, t <= end(j)
          PROVE  h \in UNION {Chart!CandlesOf(w) : w \in windows}
      <3>1. j * span \in Nat /\ end(j) \in Nat /\ end(j) <= at
        BY <1>1, <1>2, <1>5
      <3>2. j \in 0 .. (at - from) \div span
        <4> DEFINE q == (at - from) \div span
        <4>1. q \in Nat /\ at - from < q * span + span
          BY <1>1, <1>2, QuotientIsClose
        <4> HIDE DEF q
        <4>2. (q + 1) * span = q * span + span /\ q * span \in Int
          BY <1>2, <4>1, TimesKeepsOrder
        <4>3. j * span < (q + 1) * span
          BY <1>1, <1>2, <2>3, <3>1, <4>1, <4>2
        <4>4. ~(q + 1 <= j)
          BY <1>2, <3>1, <4>1, <4>2, <4>3, TimesKeepsOrder
        <4>5. QED
          BY <4>1, <4>4 DEF q
      <3>3. window(j) \in windows
        BY <1>3, <2>3, <3>2
      <3>4. /\ Chart!Hour(from + j * span) \in Nat /\ Chart!Hour(end(j)) \in Nat
            /\ Chart!Hour(from + j * span) * HourTicks <= from + j * span
            /\ h <= Chart!Hour(end(j))
        BY <1>1, <2>1, <2>3, <3>1, HourBounds
      <3>5. Chart!Hour(from + j * span) <= h
        <4> DEFINE x == Chart!Hour(from + j * span)
        <4>1. x \in Nat /\ x * HourTicks <= t
          BY <1>1, <1>2, <2>1, <2>3, <3>1, <3>4
        <4> HIDE DEF x
        <4>2. x <= h
          BY <1>2, <2>1, <4>1, TimesKeepsOrder
        <4>3. QED
          BY <4>2 DEF x
      <3>6. h \in Chart!CandlesOf(window(j))
        BY <2>1, <2>3, <3>4, <3>5 DEF Chart!CandlesOf
      <3>7. QED
        BY <3>3, <3>6
    <2> HIDE DEF t, k
    <2>4. CASE from + k * span < at
      <3>1. k * span \in Nat /\ end(k) = IF from + k * span + span <= at
                                         THEN from + k * span + span ELSE at
        BY <1>5, <2>2
      <3>2. from + k * span <= t /\ t <= end(k)
        BY <1>1, <1>2, <2>1, <2>2, <3>1
      <3>3. QED
        BY <2>2, <2>3, <2>4, <3>2
    <2>5. CASE at <= from + k * span
      <3>1. k * span \in Nat /\ t = at /\ k * span = at - from
        <4> DEFINE x == k * span
        <4>1. x \in Nat
          BY <1>5, <2>2
        <4>2. x <= t - from /\ at <= from + x
          BY <2>2, <2>5
        <4> HIDE DEF x
        <4>3. t = at /\ x = at - from
          BY <1>1, <2>1, <4>1, <4>2
        <4>4. QED
          BY <4>1, <4>3 DEF x
      <3>2. k # 0
        BY <1>1, <1>2, <3>1
      <3>3. k - 1 \in Nat /\ (k - 1) + 1 = k
        BY <2>2, <3>2
      <3>4. /\ (k - 1) * span \in Nat /\ k * span = (k - 1) * span + span
            /\ end(k - 1) = IF from + (k - 1) * span + span <= at
                            THEN from + (k - 1) * span + span ELSE at
        BY <1>5, <3>3
      <3>5. from + (k - 1) * span < at /\ from + (k - 1) * span <= t /\ t <= end(k - 1)
        BY <1>1, <1>2, <3>1, <3>4
      <3>6. QED
        BY <2>3, <3>3, <3>5
    <2>6. QED
      BY <1>1, <1>5, <2>2, <2>4, <2>5
  <1>8. UNION {Chart!CandlesOf(w) : w \in windows} = LastHours(d, at)
    BY <1>6, <1>7
  <1>9. QED
    BY <1>8 DEF Chart!Fetched, from, windows

-----------------------------------------------------------------------------
(* Steps of the chart.                                                     *)

(* The term and the strike chosen at the start are among the options.      *)
LEMMA LongestIsATerm == Chart!Max(Terms) \in Terms /\ Chart!Max(Strikes) \in Strikes
  <1>1. Terms \in SUBSET Nat /\ Strikes \in SUBSET Nat
    BY ChartConstants
  <1>2. \E x \in Terms : \A y \in Terms : x >= y
    BY <1>1, ChartConstants, HasLargest
  <1>3. \E x \in Strikes : \A y \in Strikes : x >= y
    BY <1>1, ChartConstants, HasLargest
  <1>4. QED
    BY <1>2, <1>3 DEF Chart!Max

(* The days a chart asks for are among those that are kept.                *)
LEMMA DaysAreKept ==
  ASSUME NEW term \in Terms, NEW kind
  PROVE  Chart!HistoryDays(kind, term) \in MinDays .. MaxDays
  <1> DEFINE days == IF kind = "plain" THEN MaxDays ELSE (3 * term + 1) \div 2
             m == Chart!Max({MinDays, days})
  <1>1. /\ MinDays \in Nat /\ MaxDays \in Nat /\ MinDays <= MaxDays
        /\ term \in Nat
    BY ChartConstants
  <1>2. days \in Int
    BY <1>1
  <1>3. Chart!HistoryDays(kind, term) = Chart!Min({MaxDays, m})
    BY DEF Chart!HistoryDays
  <1> HIDE DEF days
  <1>4. m \in Int /\ MinDays <= m
    <2>1. MinDays \in Int
      BY <1>1
    <2>2. m = IF MinDays <= days THEN days ELSE MinDays
      BY <1>2, <2>1, EdgesOfTwo
    <2> HIDE DEF m
    <2>3. QED
      BY <1>2, <2>1, <2>2
  <1> HIDE DEF m
  <1>5. Chart!Min({MaxDays, m}) = IF MaxDays <= m THEN MaxDays ELSE m
    BY <1>1, <1>4, EdgesOfTwo
  <1>6. QED
    BY <1>1, <1>3, <1>4, <1>5

(* At the start there is no chart and nothing was fetched.                 *)
LEMMA ChartStarts == Chart!Init => ChartInv
  <1>1. SUFFICES ASSUME Chart!Init PROVE ChartInv
    OBVIOUS
  <1>2. ChartIsTyped
    <2>1. chNow \in Moments /\ chNow <= MaxNow
      BY <1>1, ChartConstants DEF Chart!Init, Moments
    <2>2. QED
      BY <1>1, <2>1, LongestIsATerm DEF Chart!Init, ChartIsTyped
  <1>3. HistoryIsFetched
    BY <1>1 DEF Chart!Init, HistoryIsFetched
  <1>4. ContainerIsWatched /\ ReviewIsOfTheChart /\ OrderIsOfTheReview
    BY <1>1 DEF Chart!Init, ContainerIsWatched, ReviewIsOfTheChart, OrderIsOfTheReview
  <1>5. QED
    BY <1>2, <1>3, <1>4 DEF ChartInv

(* Once it has shown itself, a chart that does not load is watched, and    *)
(* known in the size of its container.                                     *)
LEMMA ShownIsWatched ==
  ASSUME NEW kind, NEW term, NEW h, NEW q, Chart!Show(kind, term, h, q),
         chWatched \in BOOLEAN, chWatched => chMeasured = chWidth, chWidth' = chWidth
  PROVE  /\ chWatched' \in BOOLEAN
         /\ (kind # "none" /\ ~Chart!Loading(kind, term, h, q)) => chWatched'
         /\ chWatched' => chMeasured' = chWidth'
  BY DEF Chart!Show

(* While clock and orders rest.                                            *)
LEMMA OrderStays ==
  ASSUME OrderIsOfTheReview, UNCHANGED <<chOrder, chClock, chNow>>
  PROVE  OrderIsOfTheReview' /\ Moments' = Moments
  <1>1. Moments' = Moments
    BY DEF Moments
  <1>2. QED
    BY <1>1 DEF OrderIsOfTheReview

(* More requests leave the history as it is.                               *)
LEMMA HistoryRests ==
  ASSUME HistoryIsFetched, UNCHANGED <<chHistory, chNow>>,
         chAsked' \subseteq [days : MinDays .. MaxDays, at : Moments]
  PROVE  HistoryIsFetched'
  <1>1. Moments' = Moments
    BY DEF Moments
  <1>2. QED
    BY <1>1 DEF HistoryIsFetched, LastHours

(* The chart comes up, goes, or turns to another term.                     *)
LEMMA TurnKeeps ==
  ASSUME ChartInv, NEW kind \in {"none", "overlay", "plain"},
         NEW c \in [term : Terms, strike : Strikes], Chart!Turn(kind, c)
  PROVE  /\ ChartIsTyped' /\ HistoryIsFetched' /\ ContainerIsWatched' /\ OrderIsOfTheReview'
         /\ chChart' = kind /\ chChosen' = c /\ UNCHANGED chNow
  <1>1. /\ UNCHANGED <<chNow, chClock, chPrice, chWidth, chHistory, chOrder>>
        /\ chChart' = kind /\ chChosen' = c
        /\ chAsked' = chAsked \cup Chart!Asks(kind, c.term)
        /\ Chart!Show(kind, c.term, chHistory, chAsked')
    BY DEF Chart!Turn
  <1>2. /\ chWatched \in BOOLEAN /\ (chWatched => chMeasured = chWidth)
        /\ chNow \in Moments /\ c.term \in Terms
    BY DEF ChartInv, ChartIsTyped, ContainerIsWatched
  <1>3. /\ chWatched' \in BOOLEAN
        /\ (kind # "none" /\ ~Chart!Loading(kind, c.term, chHistory, chAsked')) => chWatched'
        /\ chWatched' => chMeasured' = chWidth'
    BY <1>1, <1>2, ShownIsWatched
  <1>4. Moments' = Moments /\ OrderIsOfTheReview'
    BY <1>1, OrderStays DEF ChartInv
  <1>5. ChartIsTyped'
    BY <1>1, <1>3, <1>4 DEF ChartInv, ChartIsTyped
  <1>6. ContainerIsWatched'
    BY <1>1, <1>3 DEF ContainerIsWatched
  <1>7. chAsked' \subseteq [days : MinDays .. MaxDays, at : Moments]
    <2>1. Chart!HistoryDays(kind, c.term) \in MinDays .. MaxDays
      BY <1>2, DaysAreKept
    <2>2. Chart!Asks(kind, c.term) \subseteq [days : MinDays .. MaxDays, at : Moments]
      BY <1>2, <2>1 DEF Chart!Asks
    <2>3. QED
      BY <1>1, <2>2 DEF ChartInv, HistoryIsFetched
  <1>8. HistoryIsFetched'
    BY <1>1, <1>7, HistoryRests DEF ChartInv
  <1>9. QED
    BY <1>1, <1>4, <1>5, <1>6, <1>8

(* Charts that come and go, and the pickers.                               *)
LEMMA PickersKeep ==
  ASSUME ChartInv,
         \/ Chart!Unmount \/ (\E kind \in {"overlay", "plain"} : Chart!Mount(kind))
         \/ (\E term \in Terms, strike \in Strikes : Chart!Choose(term, strike))
  PROVE  ChartInv'
  <1>1. /\ chChosen \in [term : Terms, strike : Strikes] /\ chNow \in Moments
        /\ chChart \in {"none", "overlay", "plain"}
    BY DEF ChartInv, ChartIsTyped
  <1>2. CASE Chart!Unmount
    <2>1. Chart!Turn("none", chChosen) /\ chReview' = {}
      BY <1>2 DEF Chart!Unmount
    <2>2. ReviewIsOfTheChart'
      BY <2>1 DEF ReviewIsOfTheChart
    <2>3. QED
      BY <1>1, <2>1, <2>2, TurnKeeps DEF ChartInv
  <1>3. ASSUME NEW kind \in {"overlay", "plain"}, Chart!Mount(kind)
        PROVE  ChartInv'
    <2>1. Chart!Turn(kind, chChosen) /\ chReview' = {}
      BY <1>3 DEF Chart!Mount, ChartInv, ReviewIsOfTheChart
    <2>2. ReviewIsOfTheChart'
      BY <2>1 DEF ReviewIsOfTheChart
    <2>3. QED
      BY <1>1, <2>1, <2>2, TurnKeeps DEF ChartInv
  <1>4. ASSUME NEW term \in Terms, NEW strike \in Strikes, Chart!Choose(term, strike)
        PROVE  ChartInv'
    <2> DEFINE c == [term |-> term, strike |-> strike]
    <2>1. /\ Chart!Turn(chChart, c) /\ c \in [term : Terms, strike : Strikes]
          /\ chReview' = {[at |-> chNow, term |-> term] : r \in chReview}
      BY <1>4 DEF Chart!Choose
    <2>2. /\ ChartIsTyped' /\ HistoryIsFetched' /\ ContainerIsWatched' /\ OrderIsOfTheReview'
          /\ chChart' = chChart /\ chChosen' = c /\ UNCHANGED chNow
      BY <1>1, <2>1, TurnKeeps
    <2>3. Moments' = Moments
      BY <2>2 DEF Moments
    <2>4. ReviewIsOfTheChart'
      BY <1>1, <2>1, <2>2, <2>3 DEF ChartInv, ReviewIsOfTheChart
    <2>5. QED
      BY <2>2, <2>4 DEF ChartInv
  <1>5. QED
    BY <1>2, <1>3, <1>4

(* An answer brings the hours of its days, or leaves what there is.        *)
LEMMA AnswerKeeps ==
  ASSUME ChartInv, NEW r \in chAsked, NEW ok \in BOOLEAN, Chart!Answer(r, ok)
  PROVE  ChartInv'
  <1> DEFINE old == chHistory[r.days]
             failed == [old EXCEPT !.status = IF old.status = "success" THEN "success"
                                              ELSE "error"]
             candles == Chart!Fetched(r.days, r.at)
             new == IF ok /\ candles # {} THEN [status |-> "success", candles |-> candles]
                    ELSE failed
  <1>1. /\ UNCHANGED <<chNow, chClock, chChosen, chPrice, chChart, chWidth, chReview, chOrder>>
        /\ chAsked' = chAsked \ {r} /\ chHistory' = [chHistory EXCEPT ![r.days] = new]
        /\ Chart!Show(chChart, chChosen.term, chHistory', chAsked')
    BY DEF Chart!Answer
  <1>2. r.days \in MinDays .. MaxDays /\ r.at \in Moments
    BY DEF ChartInv, HistoryIsFetched
  <1>3. Moments' = Moments /\ OrderIsOfTheReview'
    BY <1>1, OrderStays DEF ChartInv
  <1>4. /\ DOMAIN old = {"status", "candles"}
        /\ old.candles = {} \/ \E at \in Moments : old.candles = LastHours(r.days, at)
    BY <1>2 DEF ChartInv, HistoryIsFetched
  <1>5. candles \in {{}, LastHours(r.days, r.at)}
    BY <1>2, WindowsCover
  <1> HIDE DEF candles, old
  <1>6. /\ DOMAIN new = {"status", "candles"}
        /\ new.candles = {} \/ \E at \in Moments : new.candles = LastHours(r.days, at)
    BY <1>2, <1>4, <1>5
  <1> HIDE DEF new
  <1>7. HistoryIsFetched'
    BY <1>1, <1>2, <1>3, <1>6 DEF ChartInv, HistoryIsFetched, LastHours
  <1>8. chWatched \in BOOLEAN /\ (chWatched => chMeasured = chWidth)
    BY DEF ChartInv, ChartIsTyped, ContainerIsWatched
  <1>9. /\ chWatched' \in BOOLEAN
        /\ (chChart # "none" /\ ~Chart!Loading(chChart, chChosen.term, chHistory', chAsked'))
             => chWatched'
        /\ chWatched' => chMeasured' = chWidth'
    BY <1>1, <1>8, ShownIsWatched
  <1>10. ContainerIsWatched'
    BY <1>1, <1>9 DEF ContainerIsWatched
  <1>11. ChartIsTyped'
    BY <1>1, <1>3, <1>9 DEF ChartInv, ChartIsTyped
  <1>12. ReviewIsOfTheChart'
    BY <1>1, <1>3 DEF ChartInv, ReviewIsOfTheChart
  <1>13. QED
    BY <1>3, <1>7, <1>10, <1>11, <1>12 DEF ChartInv

(* Sizes, prices, repeated requests and reviews: what is asked for again   *)
(* is not loading.                                                         *)
LEMMA LookingKeeps ==
  ASSUME ChartInv,
         \/ Chart!Refetch \/ Chart!Review \/ (\E w \in Sizes : Chart!Resize(w))
         \/ (\E p \in Prices : Chart!Price(p)) \/ UNCHANGED chVars
  PROVE  ChartInv'
  <1>1. UNCHANGED <<chNow, chClock, chChosen, chChart, chHistory, chOrder, chWatched>>
    BY DEF Chart!Refetch, Chart!Review, Chart!Resize, Chart!Price, Chart!page, chVars
  <1>2. Moments' = Moments /\ OrderIsOfTheReview'
    BY <1>1, OrderStays DEF ChartInv
  <1>3. /\ chNow \in Moments /\ chChosen.term \in Terms
        /\ Chart!HistoryDays(chChart, chChosen.term) \in MinDays .. MaxDays
    BY DaysAreKept DEF ChartInv, ChartIsTyped
  <1>4. /\ chWidth' \in Sizes /\ chPrice' \in Nat
        /\ chWatched => chMeasured' = chWidth'
    BY ChartConstants DEF Chart!Refetch, Chart!Review, Chart!Resize, Chart!Price, Chart!page,
       chVars, ChartInv, ChartIsTyped, ContainerIsWatched
  <1>5. ChartIsTyped'
    BY <1>1, <1>2, <1>4 DEF ChartInv, ChartIsTyped
  <1>6. ReviewIsOfTheChart'
    <2>1. CASE chReview' = chReview
      BY <1>1, <1>2, <2>1 DEF ChartInv, ReviewIsOfTheChart
    <2>2. CASE Chart!Review
      BY <1>1, <1>2, <1>3, <2>2 DEF Chart!Review, ReviewIsOfTheChart
    <2>3. ASSUME NEW p \in Prices, Chart!Price(p) PROVE ReviewIsOfTheChart'
      BY <1>1, <1>2, <1>3, <2>3 DEF Chart!Price, ChartInv, ReviewIsOfTheChart
    <2>4. QED
      BY <2>1, <2>2, <2>3 DEF Chart!Refetch, Chart!Resize, chVars
  <1>7. /\ chAsked' \subseteq [days : MinDays .. MaxDays, at : Moments]
        /\ Chart!Loading(chChart, chChosen.term, chHistory, chAsked') <=>
             Chart!Loading(chChart, chChosen.term, chHistory, chAsked)
    <2>1. CASE UNCHANGED chAsked
      BY <2>1 DEF ChartInv, HistoryIsFetched
    <2>2. CASE Chart!Refetch
      BY <1>3, <2>2 DEF Chart!Refetch, Chart!Loading
    <2>3. QED
      BY <2>1, <2>2 DEF Chart!Review, Chart!Resize, Chart!Price, chVars
  <1>8. HistoryIsFetched'
    BY <1>1, <1>7, HistoryRests DEF ChartInv
  <1>9. ContainerIsWatched'
    BY <1>1, <1>4, <1>7 DEF ChartInv, ContainerIsWatched
  <1>10. QED
    BY <1>2, <1>5, <1>6, <1>8, <1>9 DEF ChartInv

(* The candles of a chart that has some: the hours up to one that has been. *)
LEMMA CandlesAre ==
  ASSUME ChartInv, NEW d \in MinDays .. MaxDays, chHistory[d].candles # {}
  PROVE  \E lo \in Nat, hi \in Nat :
           /\ lo <= hi /\ hi <= Chart!Hour(chNow) /\ chHistory[d].candles = lo .. hi
           /\ hi - lo \in {d * DayHours - 1, d * DayHours}
  <1>1. PICK at \in Moments : chHistory[d].candles = LastHours(d, at)
    BY DEF ChartInv, HistoryIsFetched
  <1>2. PICK lo \in Nat :
          /\ lo <= Chart!Hour(at) /\ LastHours(d, at) = lo .. Chart!Hour(at)
          /\ Chart!Hour(at) - lo \in {d * DayHours - 1, d * DayHours}
    BY LastHoursAre
  <1>3. at \in Nat /\ chNow \in Nat /\ at <= chNow
    BY DEF Moments, ChartInv, ChartIsTyped
  <1>4. Chart!Hour(at) \in Nat /\ Chart!Hour(at) <= Chart!Hour(chNow)
    BY <1>3, HourBounds, HoursFollow
  <1>5. QED
    BY <1>1, <1>2, <1>4

(* The chart's history is one of those that are kept.                      *)
LEMMA ChartsCandles ==
  ASSUME ChartInv
  PROVE  /\ Chart!HistoryDays(chChart, chChosen.term) \in MinDays .. MaxDays
         /\ chChosen.term \in Terms
  BY DaysAreKept DEF ChartInv, ChartIsTyped

(* The mark of the expiry is the term from an hour that has been.          *)
LEMMA ExpiryIsMarked ==
  ASSUME ChartInv, Chart!Candles # {}
  PROVE  Chart!Expiry \in Int /\ Chart!Expiry <= Chart!Hour(chNow) + chChosen.term * DayHours
  <1>1. PICK lo \in Nat, hi \in Nat :
          lo <= hi /\ hi <= Chart!Hour(chNow) /\ Chart!Candles = lo .. hi
    BY ChartsCandles, CandlesAre DEF Chart!Candles
  <1>2. Chart!Today = hi
    BY <1>1, EdgesOfRange DEF Chart!Today
  <1>3. chChosen.term * DayHours \in Int /\ Chart!Hour(chNow) \in Nat
    <2>1. chChosen.term \in Nat /\ DayHours \in Nat
      BY ChartsCandles, ChartConstants
    <2>2. chNow \in Nat
      BY DEF ChartInv, ChartIsTyped, Moments
    <2>3. QED
      BY <2>1, <2>2, HourBounds
  <1>4. QED
    BY <1>1, <1>2, <1>3 DEF Chart!Expiry, Chart!Days

(* Ordering and accepting: the order keeps what was on the screen.         *)
LEMMA OrderKeeps == ASSUME ChartInv, Chart!Order \/ Chart!Accept PROVE ChartInv'
  <1>1. UNCHANGED <<chNow, chClock, chChosen, chPrice, chHistory, chAsked, chChart, chWidth,
                    chMeasured, chWatched, chReview>>
    BY DEF Chart!Order, Chart!Accept, Chart!page
  <1>2. Moments' = Moments
    BY <1>1 DEF Moments
  <1>3. chNow \in Moments /\ chNow \in Nat /\ \A t \in Moments : t \in Nat /\ t <= chNow
    BY DEF ChartInv, ChartIsTyped, Moments
  <1>4. ChartIsTyped' /\ ContainerIsWatched' /\ ReviewIsOfTheChart'
    BY <1>1, <1>2 DEF ChartInv, ChartIsTyped, ContainerIsWatched, ReviewIsOfTheChart
  <1>5. HistoryIsFetched'
    BY <1>1, HistoryRests DEF ChartInv, HistoryIsFetched
  <1>6. ASSUME NEW r \in chReview,
               chOrder' = {[term |-> r.term, rendered |-> r.at,
                            told |-> Chart!Estimate(r.at, r.term),
                            day |-> Chart!HeadlineDay(r.at, r.term),
                            marked |-> IF Chart!Drawn /\ Chart!Overlay THEN {Chart!Expiry}
                                       ELSE {},
                            at |-> chNow, expiry |-> 0]}
        PROVE  OrderIsOfTheReview'
    <2> DEFINE told == Chart!Estimate(r.at, r.term)
               marked == IF Chart!Drawn /\ Chart!Overlay THEN {Chart!Expiry} ELSE {}
               day == Chart!HeadlineDay(r.at, r.term)
    <2>1. r.at \in Moments /\ r.term = chChosen.term /\ r.term \in Terms
      BY ChartsCandles DEF ChartInv, ReviewIsOfTheChart
    <2>2. told = Foretold(chClock, r.at, r.term)
      BY DEF Chart!Estimate, Foretold
    <2>3. \A h \in marked : h \in Int /\ h <= Chart!Hour(chNow) + r.term * DayHours
      BY <2>1, ExpiryIsMarked DEF Chart!Drawn
    <2> DEFINE p == [term |-> r.term, rendered |-> r.at, told |-> told, day |-> day,
                     marked |-> marked, at |-> chNow, expiry |-> 0]
    <2>4. chOrder' = {p}
      BY <1>6
    <2> HIDE DEF told, marked
    <2>5. /\ DOMAIN p = {"term", "rendered", "told", "day", "marked", "at", "expiry"}
          /\ p.term = r.term /\ p.at = chNow /\ p.rendered = r.at /\ p.told = told
          /\ p.day = Chart!HeadlineDay(r.at, r.term) /\ p.marked = marked /\ p.expiry = 0
      OBVIOUS
    <2>6. r.at <= chNow
      BY <1>3, <2>1
    <2> HIDE DEF p
    <2>7. QED
      BY <1>1, <1>2, <1>3, <2>1, <2>2, <2>3, <2>4, <2>5, <2>6 DEF OrderIsOfTheReview
  <1>7. ASSUME NEW o \in chOrder, o.expiry = 0,
               chOrder' = {[o EXCEPT !.at = chNow, !.expiry = Chart!ExpiryOf(chNow, o.term)]}
        PROVE  OrderIsOfTheReview'
    <2> DEFINE expiry == Chart!ExpiryOf(chNow, o.term)
               p == [o EXCEPT !.at = chNow, !.expiry = expiry]
    <2>1. /\ DOMAIN o = {"term", "rendered", "told", "day", "marked", "at", "expiry"}
          /\ o.term \in Terms /\ o.at \in Moments /\ o.rendered \in Moments
          /\ o.rendered <= o.at
          /\ o.told = Foretold(chClock, o.rendered, o.term)
          /\ o.day = Chart!HeadlineDay(o.rendered, o.term)
          /\ \A h \in o.marked : h \in Int /\ h <= Chart!Hour(o.at) + o.term * DayHours
      BY DEF ChartInv, OrderIsOfTheReview
    <2>2. /\ DOMAIN p = {"term", "rendered", "told", "day", "marked", "at", "expiry"}
          /\ p.term = o.term /\ p.at = chNow /\ p.rendered = o.rendered /\ p.told = o.told
          /\ p.day = o.day /\ p.marked = o.marked /\ p.expiry = expiry
      BY <2>1
    <2>3. /\ Chart!Hour(o.at) <= Chart!Hour(chNow)
          /\ Chart!Hour(o.at) \in Nat /\ Chart!Hour(chNow) \in Nat
      BY <1>3, <2>1, HoursFollow, HourBounds
    <2>4. o.term * DayHours \in Int
      <3>1. o.term \in Nat /\ DayHours \in Nat
        BY <2>1, ChartConstants
      <3>2. QED
        BY <3>1
    <2>5. \A h \in o.marked : h \in Int /\ h <= Chart!Hour(chNow) + o.term * DayHours
      BY <2>1, <2>3, <2>4
    <2>6. o.rendered <= chNow
      BY <1>3, <2>1
    <2>7. chOrder' = {p}
      BY <1>7
    <2> HIDE DEF p
    <2>8. QED
      BY <1>1, <1>2, <1>3, <2>1, <2>2, <2>5, <2>6, <2>7 DEF OrderIsOfTheReview
  <1>8. OrderIsOfTheReview'
    BY <1>6, <1>7 DEF Chart!Order, Chart!Accept
  <1>9. QED
    BY <1>4, <1>5, <1>8 DEF ChartInv

(* Time passes.                                                            *)
LEMMA TickKeeps == ASSUME ChartInv, Chart!Tick PROVE ChartInv'
  <1>1. /\ UNCHANGED <<chClock, chChosen, chPrice, chHistory, chAsked, chChart, chWidth,
                       chMeasured, chWatched, chReview, chOrder>>
        /\ chNow' = chNow + 1 /\ chNow < MaxNow /\ chNow \in Nat /\ Start <= chNow
    BY DEF Chart!Tick, Chart!page, ChartInv, ChartIsTyped, Moments
  <1>2. MaxNow \in Nat /\ Start \in Nat
    BY ChartConstants
  <1>3. Moments \subseteq Moments' /\ chNow' \in Moments' /\ chNow' <= MaxNow
    BY <1>1, <1>2 DEF Moments
  <1>4. ChartIsTyped' /\ ContainerIsWatched' /\ ReviewIsOfTheChart'
    BY <1>1, <1>3 DEF ChartInv, ChartIsTyped, ContainerIsWatched, ReviewIsOfTheChart
  <1>5. HistoryIsFetched'
    <2>1. \A d, at : LastHours(d, at)' = LastHours(d, at)
      BY DEF LastHours
    <2>2. chAsked' \subseteq [days : MinDays .. MaxDays, at : Moments']
      BY <1>1, <1>3 DEF ChartInv, HistoryIsFetched
    <2>3. QED
      BY <1>1, <1>3, <2>2 DEF ChartInv, HistoryIsFetched, LastHours
  <1>6. OrderIsOfTheReview'
    BY <1>1, <1>3 DEF ChartInv, OrderIsOfTheReview
  <1>7. QED
    BY <1>4, <1>5, <1>6 DEF ChartInv

(* Whatever the user, the exchange, the canister or the clock does next.   *)
LEMMA ChartStep == ASSUME ChartInv, Chart!Next \/ UNCHANGED chVars PROVE ChartInv'
  BY PickersKeep, AnswerKeeps, LookingKeeps, OrderKeeps, TickKeeps DEF Chart!Next

-----------------------------------------------------------------------------
(* What the chart and the reviews tell.                                    *)

(* A range has no hole, and as many hours as it is long.                   *)
LEMMA HistoryIsAllThere == ASSUME ChartInv PROVE Chart!HistoryIsWhole
  <1>1. SUFFICES ASSUME NEW d \in MinDays .. MaxDays, chHistory[d].candles # {}
                 PROVE  LET candles == chHistory[d].candles IN
                        /\ candles = Chart!Min(candles) .. Chart!Max(candles)
                        /\ Chart!Cardinality(candles) \in {d * DayHours, d * DayHours + 1}
    BY DEF ChartInv, HistoryIsFetched, Chart!HistoryIsWhole
  <1>2. PICK lo \in Nat, hi \in Nat :
          /\ lo <= hi /\ chHistory[d].candles = lo .. hi
          /\ hi - lo \in {d * DayHours - 1, d * DayHours}
    BY <1>1, CandlesAre
  <1>3. Chart!Min(lo .. hi) = lo /\ Chart!Max(lo .. hi) = hi
    BY <1>2, EdgesOfRange
  <1>4. Cardinality(lo .. hi) = hi - lo + 1
    <2>1. lo \in Int /\ hi \in Int
      OBVIOUS
    <2>2. Cardinality(lo .. hi) = IF lo > hi THEN 0 ELSE hi - lo + 1
      BY <2>1, FS_Interval
    <2>3. QED
      BY <1>2, <2>2
  <1>5. Chart!Cardinality(lo .. hi) = Cardinality(lo .. hi)
    BY DEF Chart!Cardinality, Cardinality
  <1>6. d * DayHours \in Int
    BY ChartConstants
  <1>7. QED
    BY <1>2, <1>3, <1>4, <1>5, <1>6

(* What is drawn is watched, and so known in its size.                     *)
LEMMA ChartFits == ASSUME ChartInv PROVE Chart!ChartFitsItsContainer
  BY DEF ChartInv, ContainerIsWatched, Chart!ChartFitsItsContainer, Chart!Drawn

(* The whole part, downwards, of a quotient that may be negative.          *)
LEMMA FloorIsClose ==
  ASSUME NEW a \in Int, NEW b \in Nat \ {0}
  PROVE  a \div b \in Int /\ (a \div b) * b <= a /\ a < (a \div b) * b + b
  <1>1. a \div b \in Int
    BY SMTT(30)
  <1>2. (a \div b) * b <= a
    BY SMTT(30)
  <1>3. a < (a \div b) * b + b
    BY SMTT(30)
  <1>4. QED
    BY <1>1, <1>2, <1>3

(* An order that was accepted: its expiry, in ticks.                       *)
LEMMA ExpiryInTicks ==
  ASSUME ChartInv, NEW o \in chOrder, o.expiry # 0
  PROVE  /\ o.term \in Nat \ {0} /\ o.at \in Nat /\ o.rendered \in Nat /\ o.rendered <= o.at
         /\ Chart!Hour(o.at) \in Nat /\ Chart!Hour(o.at) * HourTicks \in Nat
         /\ Chart!DayTicks \in Nat \ {0} /\ o.term * Chart!DayTicks \in Nat
         /\ o.expiry = Chart!Hour(o.at) * HourTicks + HourTicks + o.term * Chart!DayTicks
  <1>1. /\ o.term \in Terms /\ o.at \in Nat /\ o.rendered \in Nat /\ o.rendered <= o.at
        /\ o.expiry = Chart!ExpiryOf(o.at, o.term)
    BY DEF ChartInv, OrderIsOfTheReview, Moments
  <1>2. o.term \in Nat \ {0} /\ HourTicks \in Nat \ {0} /\ DayHours \in Nat \ {0}
    BY <1>1, ChartConstants
  <1>3. Chart!Hour(o.at) \in Nat
    BY <1>1, HourBounds
  <1>4. Chart!DayTicks \in Nat \ {0}
    BY <1>2, SMTT(30) DEF Chart!DayTicks
  <1>5. o.term * Chart!DayTicks \in Nat
    <2> DEFINE n == Chart!DayTicks
    <2>1. n \in Nat
      BY <1>4
    <2> HIDE DEF n
    <2>2. o.term * n \in Nat
      BY <1>2, <2>1
    <2>3. QED
      BY <2>2 DEF n
  <1>6. /\ Chart!Hour(o.at) * HourTicks \in Nat
        /\ (Chart!Hour(o.at) + 1) * HourTicks = Chart!Hour(o.at) * HourTicks + HourTicks
    BY <1>2, <1>3, TimesKeepsOrder
  <1>7. QED
    BY <1>1, <1>2, <1>3, <1>4, <1>5, <1>6 DEF Chart!ExpiryOf

(* Estimate and expiry count from hours that began: of the browser, and of *)
(* UTC.                                                                    *)
LEMMA ReviewForetells == ASSUME ChartInv PROVE Chart!ReviewForetellsExpiry
  <1>1. SUFFICES ASSUME NEW o \in chOrder, o.expiry # 0
                 PROVE  LET late == (Chart!Hour(o.at) - Chart!Hour(o.rendered)) * HourTicks
                            off == o.expiry - late - o.told - chClock.shift * HourTicks
                        IN  /\ -HourTicks < off /\ off < HourTicks
                            /\ chClock.offset = 0 => off = 0
    BY DEF Chart!ReviewForetellsExpiry
  <1> DEFINE a == Chart!Hour(o.at)
             r == Chart!Hour(o.rendered)
             q == (o.rendered - chClock.offset) \div HourTicks
             X == a * HourTicks
             Y == r * HourTicks
             Z == q * HourTicks
             T == o.term * Chart!DayTicks
             S == chClock.shift * HourTicks
  <1>2. HourTicks \in Nat \ {0} /\ chClock.offset \in Int /\ chClock.shift \in Int
    BY ChartConstants DEF ChartInv, ChartIsTyped
  <1>3. /\ o.rendered \in Nat /\ a \in Nat /\ X \in Nat /\ T \in Nat
        /\ o.expiry = X + HourTicks + T
    BY <1>1, ExpiryInTicks
  <1>4. o.told = (q + 1) * HourTicks + chClock.offset + T - S
    BY DEF ChartInv, OrderIsOfTheReview, Foretold
  <1>5. r \in Nat /\ Y <= o.rendered /\ o.rendered < Y + HourTicks
    BY <1>3, HourBounds
  <1>6. /\ q \in Int /\ Z <= o.rendered - chClock.offset
        /\ o.rendered - chClock.offset < Z + HourTicks
    <2>1. o.rendered - chClock.offset \in Int
      BY <1>2, <1>3
    <2>2. QED
      BY <1>2, <2>1, FloorIsClose
  <1>7. chClock.offset = 0 => q = r
    BY <1>3 DEF Chart!Hour
  <1> HIDE DEF a, r, q
  <1>8. /\ (a - r) * HourTicks = X - Y /\ (q + 1) * HourTicks = Z + HourTicks
        /\ Y \in Int /\ Z \in Int
    BY <1>2, <1>3, <1>5, <1>6, TimesKeepsOrder
  <1>9. S \in Int
    BY <1>2
  <1>10. chClock.offset = 0 => Y = Z
    BY <1>7
  <1> HIDE DEF X, Y, Z, T, S
  <1>11. /\ -HourTicks < o.expiry - (X - Y) - o.told - S
         /\ o.expiry - (X - Y) - o.told - S < HourTicks
         /\ chClock.offset = 0 => o.expiry - (X - Y) - o.told - S = 0
    BY <1>2, <1>3, <1>4, <1>5, <1>6, <1>8, <1>9, <1>10
  <1>12. QED
    BY <1>8, <1>11 DEF a, r, S

(* The expiry is the term from an hour to come, the marks are the term     *)
(* from hours that were.                                                   *)
LEMMA NoneIsEarly == ASSUME ChartInv PROVE Chart!NoneExpiresEarly
  <1>1. SUFFICES ASSUME NEW o \in chOrder, o.expiry # 0
                 PROVE  /\ \A h \in o.marked : h * HourTicks < o.expiry
                        /\ o.day <= o.expiry \div Chart!DayTicks
                        /\ o.expiry > o.at + o.term * Chart!DayTicks
    BY DEF Chart!NoneExpiresEarly
  <1> DEFINE a == Chart!Hour(o.at)
             X == a * HourTicks
             D == Chart!DayTicks
             T == o.term * D
  <1>2. HourTicks \in Nat \ {0} /\ DayHours \in Nat \ {0}
    BY ChartConstants
  <1>3. /\ o.term \in Nat \ {0} /\ o.at \in Nat /\ o.rendered \in Nat /\ o.rendered <= o.at
        /\ a \in Nat /\ X \in Nat /\ D \in Nat \ {0} /\ T \in Nat
        /\ o.expiry = X + HourTicks + T
    BY <1>1, ExpiryInTicks
  <1>4. o.at < X + HourTicks
    BY <1>3, HourBounds
  <1>5. ASSUME NEW h \in o.marked PROVE h * HourTicks < o.expiry
    <2> DEFINE n == o.term * DayHours
    <2>1. n \in Int
      BY <1>2, <1>3
    <2>2. h \in Int /\ h <= a + n
      BY DEF ChartInv, OrderIsOfTheReview
    <2>3. n * HourTicks = T
      BY <1>2, <1>3, SMTT(30) DEF Chart!DayTicks
    <2> HIDE DEF n, a
    <2>4. h * HourTicks <= (a + n) * HourTicks /\ h * HourTicks \in Int
      BY <1>2, <1>3, <2>1, <2>2, TimesKeepsOrder
    <2>5. (a + n) * HourTicks = X + n * HourTicks
      BY <1>2, <1>3, <2>1, TimesKeepsOrder
    <2> DEFINE H == h * HourTicks
    <2> HIDE DEF X, T
    <2>6. X \in Nat /\ T \in Nat /\ HourTicks \in Nat \ {0} /\ o.expiry = X + HourTicks + T
      BY <1>2, <1>3
    <2>7. H \in Int /\ H <= X + T
      BY <2>3, <2>4, <2>5
    <2> HIDE DEF H
    <2>8. H < o.expiry
      BY <2>6, <2>7
    <2>9. QED
      BY <2>8 DEF H
  <1>6. o.day <= o.expiry \div D
    <2> DEFINE m == o.rendered \div D
               e == o.expiry \div D
    <2>1. m \in Nat /\ m * D <= o.rendered
      BY <1>3, QuotientIsClose
    <2>2. o.expiry \in Nat
      BY <1>2, <1>3
    <2>3. e \in Nat /\ o.expiry < e * D + D
      BY <1>3, <2>2, QuotientIsClose
    <2>4. o.day = m + o.term
      BY DEF ChartInv, OrderIsOfTheReview, Chart!HeadlineDay
    <2> HIDE DEF m, e, D, X, a
    <2>5. (m + o.term) * D = m * D + T /\ m * D \in Int
      BY <1>3, <2>1, TimesKeepsOrder
    <2>6. (e + 1) * D = e * D + D /\ e * D \in Int
      BY <1>3, <2>3, TimesKeepsOrder
    <2> HIDE DEF T
    <2>7. (m + o.term) * D < (e + 1) * D
      BY <1>2, <1>3, <1>4, <2>1, <2>3, <2>5, <2>6
    <2>8. ~(e + 1 <= m + o.term)
      <3>1. e + 1 \in Int /\ m + o.term \in Int
        BY <1>3, <2>1, <2>3
      <3>2. (e + 1) * D \in Int /\ (m + o.term) * D \in Int
        BY <1>3, <3>1, TimesKeepsOrder
      <3>3. e + 1 <= m + o.term => (e + 1) * D <= (m + o.term) * D
        BY <1>3, <3>1, TimesKeepsOrder
      <3>4. QED
        BY <2>7, <3>2, <3>3
    <2>9. m + o.term <= e
      BY <1>3, <2>1, <2>3, <2>8
    <2>10. QED
      BY <2>4, <2>9 DEF e
  <1>7. o.expiry > o.at + T
    <2> HIDE DEF X, T, a
    <2>1. QED
      BY <1>2, <1>3, <1>4
  <1>8. QED
    BY <1>5, <1>6, <1>7

(* Scaled to a width, a length is no longer than it: nothing is nothing,   *)
(* the whole the whole.                                                    *)
LEMMA Scaled ==
  ASSUME NEW width \in Nat, NEW whole \in Nat \ {0}, NEW n \in 0 .. whole
  PROVE  /\ (n * width) \div whole \in 0 .. width
         /\ n = 0 => (n * width) \div whole = 0
         /\ n = whole => (n * width) \div whole = width
  <1> DEFINE p == n * width
             q == p \div whole
  <1>1. p \in Nat
    BY SMTT(30)
  <1>2. q \in Nat /\ q * whole <= p /\ p < q * whole + whole
    BY <1>1, QuotientIsClose
  <1>3. p <= width * whole /\ width * whole \in Nat /\ whole \in Nat
    BY SMTT(30)
  <1>4. n = 0 => p = 0
    OBVIOUS
  <1>5. n = whole => p = width * whole
    OBVIOUS
  <1> HIDE DEF p, q
  <1>6. q * whole \in Int /\ (q + 1) * whole = q * whole + whole
        /\ (q <= width <=> q * whole <= width * whole)
    BY <1>2, TimesKeepsOrder
  <1>7. q <= width
    BY <1>1, <1>2, <1>3, <1>6
  <1>8. n = 0 => q = 0
    <2>1. SUFFICES ASSUME p = 0, q >= 1 PROVE FALSE
      BY <1>2, <1>4
    <2>2. 1 * whole <= q * whole
      BY <1>2, <2>1, TimesKeepsOrder
    <2>3. QED
      BY <1>2, <1>6, <2>1, <2>2
  <1>9. n = whole => q = width
    <2>1. SUFFICES ASSUME p = width * whole PROVE width <= q
      BY <1>2, <1>5, <1>7
    <2>2. q + 1 <= width <=> (q + 1) * whole <= width * whole
      BY <1>2, TimesKeepsOrder
    <2>3. QED
      BY <1>2, <1>3, <1>6, <2>1, <2>2
  <1>10. QED
    BY <1>2, <1>7, <1>8, <1>9 DEF p, q

(* Lengths that differ by a unit of the width or more stay apart.          *)
LEMMA ScaledApart ==
  ASSUME NEW width \in Nat, NEW whole \in Nat \ {0}, NEW n \in Nat, NEW k \in Nat,
         whole <= k * width
  PROVE  (n * width) \div whole < ((n + k) * width) \div whole
  <1> DEFINE p == n * width
             d == k * width
             q == p \div whole
             r == ((n + k) * width) \div whole
  <1>1. p \in Nat /\ d \in Nat /\ whole <= d
    BY SMTT(30)
  <1>2. (n + k) * width = p + d
    BY SMTT(30)
  <1>3. r = (p + d) \div whole
    BY <1>2
  <1> HIDE DEF p, d, r
  <1>4. q \in Nat /\ q * whole <= p
    BY <1>1, QuotientIsClose
  <1>5. r \in Nat /\ p + d < r * whole + whole
    <2>1. p + d \in Nat
      BY <1>1
    <2>2. QED
      BY <1>3, <2>1, QuotientIsClose
  <1> HIDE DEF q
  <1>6. /\ (q + 1) * whole = q * whole + whole /\ q * whole \in Int
        /\ (r <= q <=> r * whole <= q * whole) /\ r * whole \in Int
    BY <1>4, <1>5, TimesKeepsOrder
  <1>7. q < r
    BY <1>1, <1>4, <1>5, <1>6
  <1>8. QED
    BY <1>7 DEF p, q, r

(* A chart that is drawn: the hours of its candles, and its size.          *)
LEMMA DrawnChart ==
  ASSUME ChartInv, Chart!Drawn
  PROVE  \E lo \in Nat, hi \in Nat, days \in MinDays .. MaxDays :
           /\ lo <= hi /\ Chart!Candles = lo .. hi /\ hi - lo <= days * DayHours
           /\ hi <= MaxNow \div HourTicks
           /\ Chart!Min(Chart!Candles) = lo /\ Chart!Today = hi
           /\ chMeasured - Left - Right \in Nat
           /\ chMeasured - Left - Right >= MaxDays + chChosen.term + 3
           /\ chChosen.term \in Nat \ {0} /\ chMeasured \in Nat
  <1> DEFINE days == Chart!HistoryDays(chChart, chChosen.term)
  <1>1. days \in MinDays .. MaxDays /\ chChosen.term \in Terms
    BY ChartsCandles
  <1>2. chHistory[days].candles = Chart!Candles /\ Chart!Candles # {}
    BY DEF Chart!Candles, Chart!Drawn
  <1> HIDE DEF days
  <1>3. PICK lo \in Nat, hi \in Nat :
          /\ lo <= hi /\ hi <= Chart!Hour(chNow) /\ Chart!Candles = lo .. hi
          /\ hi - lo \in {days * DayHours - 1, days * DayHours}
    BY <1>1, <1>2, CandlesAre
  <1>4. Chart!Min(Chart!Candles) = lo /\ Chart!Today = hi
    BY <1>3, EdgesOfRange DEF Chart!Today
  <1>5. Chart!Hour(chNow) \in Nat /\ Chart!Hour(chNow) <= MaxNow \div HourTicks
        /\ Chart!Hour(MaxNow) \in Nat
    <2>1. chNow \in Nat /\ chNow <= MaxNow /\ MaxNow \in Nat
      BY ChartConstants DEF ChartInv, ChartIsTyped, Moments
    <2>2. Chart!Hour(chNow) <= Chart!Hour(MaxNow) /\ Chart!Hour(chNow) \in Nat
          /\ Chart!Hour(MaxNow) \in Nat
      BY <2>1, HoursFollow, HourBounds
    <2>3. QED
      BY <2>2 DEF Chart!Hour
  <1>6. MaxNow \div HourTicks \in Nat
    BY <1>5 DEF Chart!Hour
  <1>7. /\ chMeasured \in Sizes /\ Sizes \subseteq Nat
        /\ chMeasured >= Left + Right + MaxDays + chChosen.term + 3
    <2>1. chMeasured = chWidth /\ chWidth \in Sizes
      BY ChartFits DEF Chart!ChartFitsItsContainer, ChartInv, ChartIsTyped
    <2>2. QED
      BY <1>1, <2>1, ChartConstants
  <1>8. chChosen.term \in Nat \ {0} /\ Left \in Nat /\ Right \in Nat /\ MaxDays \in Nat
    BY <1>1, ChartConstants
  <1>9. /\ chMeasured \in Nat /\ chMeasured - Left - Right \in Nat
        /\ chMeasured - Left - Right >= MaxDays + chChosen.term + 3
    BY <1>7, <1>8
  <1>10. hi - lo <= days * DayHours
    <2>1. days * DayHours \in Int
      BY <1>1, ChartConstants
    <2>2. QED
      BY <1>3, <2>1
  <1>11. hi <= MaxNow \div HourTicks
    BY <1>3, <1>5, <1>6
  <1>12. QED
    BY <1>1, <1>3, <1>4, <1>8, <1>9, <1>10, <1>11

(* Across: the first candle is at the left edge, today behind it, then the *)
(* expiry, and the end of the zone at the right edge.                      *)
LEMMA MarksAcross ==
  ASSUME ChartInv, Chart!Drawn, NEW range
  PROVE  /\ Chart!X(Chart!Min(Chart!Candles)) = Left /\ Left <= Chart!X(Chart!Today)
         /\ Chart!X(Chart!Today) <= chMeasured - Right
         /\ Chart!Overlay =>
              /\ Chart!Marks(range).today < Chart!Marks(range).expiry
              /\ Chart!Marks(range).expiry < Chart!Marks(range).end
              /\ Chart!Marks(range).end = chMeasured - Right
  <1> DEFINE term == chChosen.term
             w == chMeasured - Left - Right
  <1>1. PICK lo \in Nat, hi \in Nat, days \in MinDays .. MaxDays :
          /\ lo <= hi /\ hi - lo <= days * DayHours
          /\ Chart!Min(Chart!Candles) = lo /\ Chart!Today = hi
          /\ w \in Nat /\ w >= MaxDays + term + 3
          /\ term \in Nat \ {0} /\ chMeasured \in Nat
    BY DrawnChart
  <1>2. /\ Left \in Nat /\ Right \in Nat /\ MaxDays \in Nat /\ DayHours \in Nat \ {0}
        /\ days \in Nat /\ days <= MaxDays
    BY ChartConstants
  <1> DEFINE end == Chart!ChartEnd
             whole == end - lo
  <1>3. \A h : Chart!X(h) = IF end <= lo THEN Left ELSE Left + ((h - lo) * w) \div whole
    BY <1>1 DEF Chart!X
  <1>4. w = chMeasured - Left - Right
    OBVIOUS
  <1> HIDE DEF w
  <1>5. end = IF Chart!Overlay THEN hi + (term + 3) * DayHours ELSE hi
    BY <1>1 DEF Chart!ChartEnd, Chart!Days, Chart!Extra
  <1> HIDE DEF end, term
  <1>6. (term + 3) * DayHours \in Nat /\ 3 * DayHours \in Nat /\ term * DayHours \in Nat
        /\ (term + 3) * DayHours = term * DayHours + 3 * DayHours
    BY <1>1, <1>2, TimesKeepsOrder
  <1>7. end \in Nat /\ hi <= end
    BY <1>1, <1>5, <1>6
  <1>8. CASE end <= lo
    <2>1. ~Chart!Overlay
      BY <1>1, <1>2, <1>5, <1>6, <1>8
    <2>2. QED
      BY <1>1, <1>2, <1>3, <1>4, <1>8, <2>1
  <1>9. CASE lo < end
    <2>1. whole \in Nat \ {0} /\ hi - lo \in 0 .. whole
      BY <1>1, <1>7, <1>9
    <2>2. \A h : Chart!X(h) = Left + ((h - lo) * w) \div whole
      BY <1>1, <1>3, <1>7, <1>9
    <2> HIDE DEF whole
    <2>3. Chart!X(lo) = Left
      <3>1. lo - lo = 0 /\ 0 \in 0 .. whole
        BY <2>1
      <3>2. (0 * w) \div whole = 0
        BY <1>1, <2>1, <3>1, Scaled
      <3>3. QED
        BY <1>2, <2>2, <3>1, <3>2
    <2>4. ((hi - lo) * w) \div whole \in 0 .. w
      BY <1>1, <2>1, Scaled
    <2>5. Left <= Chart!X(hi) /\ Chart!X(hi) <= chMeasured - Right
      <3> DEFINE x == ((hi - lo) * w) \div whole
      <3>1. Chart!X(hi) = Left + x /\ x \in 0 .. w
        BY <2>2, <2>4
      <3> HIDE DEF x
      <3>2. QED
        BY <1>1, <1>2, <1>4, <3>1
    <2>6. ASSUME Chart!Overlay
          PROVE  /\ Chart!Marks(range).today < Chart!Marks(range).expiry
                 /\ Chart!Marks(range).expiry < Chart!Marks(range).end
                 /\ Chart!Marks(range).end = chMeasured - Right
      <3> DEFINE n == hi - lo
                 a == term * DayHours
                 b == 3 * DayHours
      <3>1. /\ Chart!Marks(range).today = Chart!X(hi)
            /\ Chart!Marks(range).expiry = Chart!X(hi + a)
            /\ Chart!Marks(range).end = Chart!X(hi + a + b)
        <4>1. Chart!Expiry = hi + a
          BY <1>1 DEF Chart!Expiry, Chart!Days, term
        <4>2. Chart!ZoneEnd = hi + a + b
          <5>1. Chart!Days(term + 3) = end /\ end = hi + a + b
            BY <1>1, <1>5, <1>6, <2>6 DEF Chart!Days
          <5>2. Chart!ZoneEnd = Chart!Min({end, end})
            BY <5>1 DEF Chart!ZoneEnd, Chart!Extra, end, term
          <5>3. Chart!Min({end, end}) = end
            BY <1>7, EdgesOfTwo
          <5>4. QED
            BY <5>1, <5>2, <5>3
        <4>3. QED
          BY <1>1, <4>1, <4>2 DEF Chart!Marks
      <3>2. /\ n \in Nat /\ a \in Nat /\ b \in Nat /\ hi + a - lo = n + a
            /\ hi + a + b - lo = n + a + b /\ whole = n + a + b
        BY <1>1, <1>5, <1>6, <2>6 DEF whole
      <3>3. whole <= a * w /\ whole <= b * w
        <4>1. days * DayHours <= MaxDays * DayHours /\ MaxDays * DayHours \in Nat
          BY <1>2, TimesKeepsOrder
        <4>2. (MaxDays + (term + 3)) * DayHours = MaxDays * DayHours + (term + 3) * DayHours
          BY <1>1, <1>2, TimesKeepsOrder
        <4>3. (MaxDays + (term + 3)) * DayHours <= w * DayHours /\ w * DayHours \in Int
          <5>1. MaxDays + (term + 3) \in Int /\ w \in Int /\ MaxDays + (term + 3) <= w
            BY <1>1, <1>2
          <5>2. QED
            BY <1>2, <5>1, TimesKeepsOrder
        <4>4. days * DayHours \in Int
          BY <1>2
        <4>5. whole <= w * DayHours
          BY <1>1, <1>6, <3>2, <4>1, <4>2, <4>3, <4>4
        <4>6. w * DayHours <= a * w /\ w * DayHours <= b * w
          <5> DEFINE v == w * DayHours
          <5>1. v \in Nat
            BY <1>1, <1>2
          <5>2. a * w = term * v /\ b * w = 3 * v
            BY <1>1, <1>2, SMTT(30)
          <5> HIDE DEF v, a, b
          <5>3. v <= term * v /\ v <= 3 * v
            BY <1>1, <5>1, SMTT(30)
          <5>4. QED
            BY <5>2, <5>3 DEF v
        <4>7. a * w \in Int /\ b * w \in Int
          BY <1>1, <3>2
        <4> HIDE DEF a, b
        <4>8. QED
          BY <2>1, <4>3, <4>5, <4>6, <4>7
      <3> HIDE DEF n, a, b
      <3>4. (n * w) \div whole < ((n + a) * w) \div whole
        BY <1>1, <2>1, <3>2, <3>3, ScaledApart
      <3>5. ((n + a) * w) \div whole < ((n + a + b) * w) \div whole
        <4>1. n + a \in Nat
          BY <3>2
        <4>2. QED
          BY <1>1, <2>1, <3>2, <3>3, <4>1, ScaledApart
      <3>6. ((n + a + b) * w) \div whole = w
        <4>1. n + a + b \in 0 .. whole /\ n + a + b = whole
          BY <2>1, <3>2
        <4>2. QED
          BY <1>1, <2>1, <4>1, Scaled
      <3>7. (n * w) \div whole \in 0 .. w /\ ((n + a) * w) \div whole \in 0 .. w
        <4>1. n \in 0 .. whole /\ n + a \in 0 .. whole
          BY <2>1, <3>2
        <4>2. QED
          BY <1>1, <2>1, <4>1, Scaled
      <3>8. /\ Chart!X(hi) = Left + (n * w) \div whole
            /\ Chart!X(hi + a) = Left + ((n + a) * w) \div whole
            /\ Chart!X(hi + a + b) = Left + ((n + a + b) * w) \div whole
        BY <2>2, <3>2 DEF n
      <3> DEFINE x == (n * w) \div whole
                 y == ((n + a) * w) \div whole
                 z == ((n + a + b) * w) \div whole
      <3>9. /\ x \in 0 .. w /\ y \in 0 .. w /\ z = w /\ x < y /\ y < z
            /\ Chart!X(hi) = Left + x /\ Chart!X(hi + a) = Left + y
            /\ Chart!X(hi + a + b) = Left + z
        BY <3>4, <3>5, <3>6, <3>7, <3>8
      <3> HIDE DEF x, y, z
      <3>10. QED
        BY <1>1, <1>2, <1>4, <3>1, <3>9
    <2>7. QED
      BY <1>1, <2>3, <2>5, <2>6
  <1>10. QED
    BY <1>1, <1>7, <1>8, <1>9

(* A finite set of numbers lies between its smallest and its largest.      *)
LEMMA EdgesOfNumbers ==
  ASSUME NEW S \in SUBSET Nat, IsFiniteSet(S), S # {}
  PROVE  /\ Chart!Min(S) \in Nat /\ Chart!Max(S) \in Nat
         /\ \A p \in S : Chart!Min(S) <= p /\ p <= Chart!Max(S)
  <1>1. Chart!Max(S) \in S /\ \A p \in S : Chart!Max(S) >= p
    BY HasLargest DEF Chart!Max
  <1>2. \E y \in S : \A z \in S : y <= z
    BY HasSmallest
  <1>3. Chart!Min(S) \in S /\ \A p \in S : Chart!Min(S) <= p
    BY <1>2 DEF Chart!Min
  <1>4. QED
    BY <1>1, <1>3

(* The prices on the chart are finitely many numbers.                      *)
LEMMA PlottedAreNumbers ==
  ASSUME ChartInv, Chart!Drawn
  PROVE  Chart!Plotted \in SUBSET Nat /\ IsFiniteSet(Chart!Plotted)
         /\ Chart!Plotted # {}
  <1> DEFINE at == [h \in Chart!Candles |-> 100 * ClosingPrice[h]]
             drawn == {100 * ClosingPrice[h] : h \in Chart!Candles}
  <1>1. PICK lo \in Nat, hi \in Nat : Chart!Candles = lo .. hi /\ hi <= MaxNow \div HourTicks
    BY DrawnChart
  <1>2. \A h \in Chart!Candles : ClosingPrice[h] \in Nat
    <2>1. MaxNow \in Nat /\ HourTicks \in Nat \ {0}
      BY ChartConstants
    <2>2. MaxNow \div HourTicks \in Nat
      BY <2>1, HourBounds DEF Chart!Hour
    <2>3. \A h \in lo .. hi : h \in 0 .. MaxNow \div HourTicks
      BY <1>1, <2>2
    <2>4. QED
      BY <1>1, <2>3, ChartConstants
  <1>3. IsFiniteSet(Chart!Candles)
    BY <1>1, FS_Interval
  <1>4. drawn \in SUBSET Nat
    BY <1>2
  <1>5. IsFiniteSet(drawn)
    <2>1. at \in Surjection(Chart!Candles, drawn)
      BY DEF Surjection
    <2>2. QED
      BY <1>3, <2>1, FS_Surjection
  <1>6. Chart!Strike \in Nat
    <2>1. chPrice \in Nat /\ chChosen.strike \in Nat
      BY ChartConstants DEF ChartInv, ChartIsTyped
    <2>2. QED
      BY <2>1 DEF Chart!Strike
  <1>7. Chart!Plotted = drawn \cup {Chart!Strike}
    BY DEF Chart!Plotted
  <1> HIDE DEF drawn
  <1>8. QED
    BY <1>4, <1>5, <1>6, <1>7, FS_AddElement

(* Upwards: every price of the chart is inside the plot.                   *)
LEMMA MarksUpwards ==
  ASSUME ChartInv, Chart!Drawn, NEW p \in Chart!Plotted
  PROVE  /\ Top <= Chart!Y(p, Chart!PriceRange)
         /\ Chart!Y(p, Chart!PriceRange) <= Top + Height
  <1> DEFINE a == Chart!Min(Chart!Plotted)
             b == Chart!Max(Chart!Plotted)
             c == (15 * (b - a)) \div 100
             range == Chart!PriceRange
             whole == range.max - range.min
             n == range.max - p
             y == (n * Height) \div whole
  <1>1. a \in Nat /\ b \in Nat /\ p \in Nat /\ a <= p /\ p <= b
    BY PlottedAreNumbers, EdgesOfNumbers
  <1>2. range.min = a - c /\ range.max = b + c
    BY DEF Chart!PriceRange
  <1>3. c \in Nat
    <2> HIDE DEF a, b
    <2>1. 15 * (b - a) \in Nat
      BY <1>1
    <2>2. QED
      BY <2>1, Quotient
  <1>4. Top \in Nat /\ Height \in Nat
    BY ChartConstants
  <1>5. Chart!Y(p, range) = IF range.max = range.min THEN Top + Height \div 2 ELSE Top + y
    BY DEF Chart!Y
  <1>6. whole \in Nat /\ n \in 0 .. whole /\ (whole = 0 <=> range.max = range.min)
    <2> HIDE DEF a, b, c, range
    <2>1. QED
      BY <1>1, <1>2, <1>3
  <1> HIDE DEF range, whole, n
  <1>7. whole # 0 => y \in 0 .. Height
    BY <1>4, <1>6, Scaled
  <1>8. Height \div 2 \in 0 .. Height
    BY <1>4
  <1> HIDE DEF y
  <1>9. QED
    BY <1>4, <1>5, <1>6, <1>7, <1>8 DEF range

(* Across and upwards, what is drawn lies in its order on the chart.       *)
LEMMA MarksStand == ASSUME ChartInv PROVE Chart!MarksInOrder
  <1>1. SUFFICES ASSUME Chart!Drawn PROVE Chart!MarksInOrder
    BY DEF Chart!MarksInOrder
  <1> DEFINE range == Chart!PriceRange
  <1>2. \A point \in Chart!Line(range) : Top <= point[2] /\ point[2] <= Top + Height
    <2>1. TAKE point \in Chart!Line(range)
    <2>2. PICK h \in Chart!Candles : point = <<Chart!X(h), Chart!Y(100 * ClosingPrice[h], range)>>
      BY <2>1 DEF Chart!Line
    <2>3. 100 * ClosingPrice[h] \in Chart!Plotted
      BY <2>2 DEF Chart!Plotted
    <2>4. QED
      BY <1>1, <2>2, <2>3, MarksUpwards
  <1>3. Top <= Chart!Marks(range).strike /\ Chart!Marks(range).strike <= Top + Height
    <2>1. Chart!Marks(range).strike = Chart!Y(Chart!Strike, range)
      BY DEF Chart!Marks
    <2>2. Chart!Strike \in Chart!Plotted
      BY DEF Chart!Plotted
    <2>3. QED
      BY <1>1, <2>1, <2>2, MarksUpwards
  <1> HIDE DEF range
  <1>4. /\ Chart!X(Chart!Min(Chart!Candles)) = Left /\ Left <= Chart!X(Chart!Today)
        /\ Chart!X(Chart!Today) <= chMeasured - Right
        /\ Chart!Overlay =>
             /\ Chart!Marks(range).today < Chart!Marks(range).expiry
             /\ Chart!Marks(range).expiry < Chart!Marks(range).end
             /\ Chart!Marks(range).end = chMeasured - Right
    BY <1>1, MarksAcross
  <1>5. QED
    BY <1>2, <1>3, <1>4 DEF Chart!MarksInOrder, range

(* In such a state, what the pages tell of time comes true.                *)
LEMMA ChartTells == ChartInv => PagesForetellExpiry
  BY HistoryIsAllThere, ChartFits, MarksStand, ReviewForetells, NoneIsEarly
     DEF PagesForetellExpiry

-----------------------------------------------------------------------------
(* The pages side by side.                                                 *)

PagesInv == PanelInv /\ AccountInv /\ OnboardingInv /\ ChartInv

(* Each page keeps its own invariant while the others rest.                *)
THEOREM PagesInductive == PagesSpec => []PagesInv
  <1>1. PagesInit => PagesInv
    BY PanelInit, AccountInit, OnboardingStarts, ChartStarts DEF PagesInit, PagesInv
  <1>2. ASSUME PagesInv, [PagesNext]_pagesVars
        PROVE  PagesInv'
    <2>1. PanelInv'
      <3>1. Pending!Next \/ UNCHANGED peVars
        BY <1>2 DEF PagesNext, pagesVars
      <3>2. QED
        BY <1>2, <3>1, PanelStep DEF PagesInv
    <2>2. AccountInv'
      <3>1. Account!Next \/ UNCHANGED acVars
        BY <1>2 DEF PagesNext, pagesVars
      <3>2. QED
        BY <1>2, <3>1, AccountStep DEF PagesInv
    <2>3. OnboardingInv'
      <3>1. Onboard!Next \/ UNCHANGED onVars
        BY <1>2 DEF PagesNext, pagesVars
      <3>2. QED
        BY <1>2, <3>1, OnboardingStep DEF PagesInv
    <2>4. ChartInv'
      <3>1. Chart!Next \/ UNCHANGED chVars
        BY <1>2 DEF PagesNext, pagesVars
      <3>2. QED
        BY <1>2, <3>1, ChartStep DEF PagesInv
    <2>5. QED
      BY <2>1, <2>2, <2>3, <2>4 DEF PagesInv
  <1>3. QED
    BY <1>1, <1>2, PTL DEF PagesSpec

(* However quickly the wallet changes accounts, the panel of pending       *)
(* deposits shows and stores nothing of one account under another.         *)
THEOREM AccountsNeverMix == PagesSpec => []AccountsDoNotMix
  <1>1. PagesInv => AccountsDoNotMix
    BY PanelShows DEF PagesInv
  <1>2. QED
    BY <1>1, PagesInductive, PTL

(* The requests of the account panel are carried out in the order of their *)
(* signatures, and a modal tells of its own.                               *)
THEOREM ModalsTellTheirOwnStory == PagesSpec => []ModalsTellOfTheirOwn
  <1>1. PagesInv => ModalsTellOfTheirOwn
    BY DEF PagesInv, AccountInv, AcceptedInOrder, ModalsTellOfTheirOwn
  <1>2. QED
    BY <1>1, PagesInductive, PTL

(* One attempt to open an account for each connection, and records of      *)
(* codes, owners and referrers that agree.                                 *)
THEOREM OnboardingHappensOnce == PagesSpec => []OnboardedOnce
  <1>1. PagesInv => OnboardedOnce
    BY DEF PagesInv, OnboardingInv, AttemptsAreRemembered, CodesAreKept, OnboardedOnce
  <1>2. QED
    BY <1>1, PagesInductive, PTL

(* The history has no hole, the chart fits its container with its marks in *)
(* order, and an option ends when its review told.                         *)
THEOREM ForetoldExpiriesComeTrue == PagesSpec => []PagesForetellExpiry
  <1>1. PagesInv => PagesForetellExpiry
    BY ChartTells DEF PagesInv
  <1>2. QED
    BY <1>1, PagesInductive, PTL
=============================================================================
