------------------------------ MODULE OrderBook ------------------------------
(***************************************************************************)
(* The order book of one term and strike as the web application shows it:  *)
(* list-options cuts every open offer down to what its writer can cover    *)
(* and leaves out what nobody could accept (options-transformer,           *)
(* use-options); the buyer's form picks one offer for an amount of premium *)
(* (premium-amount); the writer's form and the offer cards rank an offer   *)
(* among the others (earnings-amount, getOfferRank).                       *)
(*                                                                         *)
(* A book is a function from ids of offers to records of their writer, bps *)
(* (the premium) and quantity.  Ids are given in the order of creation.    *)
(* Premiums are exact here: where the code divides doubles, a quantity     *)
(* that comes out even may be one satoshi smaller.                         *)
(***************************************************************************)
EXTENDS Integers, FiniteSets, FiniteSetsExt, Functions

CONSTANTS MinAccept, MaxAccept        \* accept_offer_quantity_sats

ASSUME OrderBookAssumption == MinAccept \in Nat \ {0} /\ MaxAccept \in Nat

NoOffer == 0

Smaller(a, b) == IF a < b THEN a ELSE b

(* Ceiling of a / b.                                                       *)
Ceil(a, b) == (a + b - 1) \div b

(* The premium of a quantity: what the canister takes for it.              *)
PremiumOf(bps, quantity) == (quantity * bps) \div 10000

(* Fault: the list shows what is left of an offer, covered or not.         *)
Uncovered(offer, available) == offer.quantity

EffectiveRemaining(offer, available) ==
  Smaller(offer.quantity, available[offer.writer])

(* What the server sends, and what of it the browser shows.                *)
Sent(book, available) ==
  [o \in {p \in DOMAIN book : EffectiveRemaining(book[p], available) > 0} |->
     [book[o] EXCEPT !.quantity = EffectiveRemaining(book[o], available)]]

Listed(book, available) ==
  LET all == Sent(book, available) IN
  Restrict(all, {o \in DOMAIN all : all[o].quantity >= MinAccept})

(* The form of a user leaves out the offers he wrote.                      *)
OthersOf(user, book) ==
  Restrict(book, {o \in DOMAIN book : book[o].writer # user})

Before(book, o, p) ==
  book[o].bps < book[p].bps \/ (book[o].bps = book[p].bps /\ o < p)

(* getOfferRank, on the card of an offer in the list.                      *)
RankInBook(book, o) == 1 + Cardinality({p \in DOMAIN book : Before(book, p, o)})

-----------------------------------------------------------------------------
(* The buyer's form.                                                       *)
QuantityFor(bps, amount) == (amount * 10000) \div bps

Serves(book, o, amount) ==
  LET quantity == QuantityFor(book[o].bps, amount) IN
  /\ quantity >= MinAccept
  /\ quantity <= MaxAccept
  /\ quantity <= book[o].quantity

BestOffer(book, amount) ==
  LET able == {o \in DOMAIN book : Serves(book, o, amount)} IN
  IF amount = 0 \/ able = {} THEN NoOffer
  ELSE CHOOSE o \in able : \A p \in able \ {o} : Before(book, o, p)

MaxPremium(book) ==
  Max({0} \cup {PremiumOf(book[o].bps, Smaller(book[o].quantity, MaxAccept)) :
                  o \in DOMAIN book})

MinPremium(book) ==
  LET least == {Ceil(MinAccept * book[o].bps, 10000) :
                  o \in {p \in DOMAIN book : book[p].quantity >= MinAccept}}
  IN  IF least = {} THEN 0 ELSE Min(least)

-----------------------------------------------------------------------------
(* What the writers see.                                                   *)

(* getWriterCompetitiveness, in the form, for an offer yet to be made.     *)
RankShown(book, bps) ==
  1 + Cardinality({p \in DOMAIN book : book[p].bps <= bps})

LargestShown(book, amount) ==
  DOMAIN book # {} /\ amount > 0 /\ \A p \in DOMAIN book : amount > book[p].quantity

LargestInBook(book, o) == \A p \in DOMAIN book \ {o} : book[p].quantity < book[o].quantity
=============================================================================
