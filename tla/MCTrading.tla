----------------------------- MODULE MCTrading -----------------------------
(* The two sides of the market side by side, each in front of a book of    *)
(* its own, and the pages on which term and strike are picked: one moves   *)
(* while the others rest where they started.                               *)
(*                                                                         *)
(* The buyer "b" meets two writers; the second offer is cheaper and        *)
(* smaller.  The writer "w" has an offer, and somebody else a cheaper and  *)
(* smaller one, at the premium the slider has.                             *)
EXTENDS Trading, TLC

MCUsers == {"b", "v", "w"}
MCOffers == 1 .. 2
MCWriter == [o \in Offers |-> IF o = 1 THEN "v" ELSE "w"]
MCPremiumBps == [o \in Offers |-> IF o = 1 THEN 9000 ELSE 3000]
MCQuantity0 == [o \in Offers |-> IF o = 1 THEN 8 ELSE 7]
MCAvailable0 == [u \in Users |-> IF u = "b" THEN 6 ELSE IF u = "v" THEN 9 ELSE 7]

Offer(writer, b, q) == [writer |-> writer, bps |-> b, quantity |-> q]
MCWriteBook == <<Offer("v", 5000, 2), Offer("w", 10000, 6)>>
MCWriteAvailable0 == "w" :> 6 @@ "v" :> 8 @@ "b" :> 1
MCPremiumValues == <<5000>>

OfferAt(term, strike, own) == [term |-> term, strike |-> strike, own |-> own]
MCLists ==
  {{OfferAt(7, 5, TRUE)}, {OfferAt(7, 5, TRUE), OfferAt(7, 8, FALSE)},
   {OfferAt(1, 3, FALSE), OfferAt(7, 5, FALSE), OfferAt(7, 8, FALSE)},
   {OfferAt(1, 3, FALSE), OfferAt(1, 5, FALSE), OfferAt(1, 8, FALSE)}, {OfferAt(3, 3, FALSE)}}
MCLimits == {[min |-> 1, max |-> 30], [min |-> 3, max |-> 3], [min |-> 1, max |-> 3]}
=============================================================================
