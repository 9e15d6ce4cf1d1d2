---------------------------- MODULE MCAcceptance ----------------------------
(* Two buyers who compete for the offers of one writer, whose balance does *)
(* not cover both; each can pay his accept once, at the lower fee, and the *)
(* first also owes the platform.  And an accept that names one offer       *)
(* twice.                                                                  *)
EXTENDS Acceptance, TLC

CONSTANTS w1, w2, b1, b2, o1, o2, a1, a2

Wants(o, q) == [offer |-> o, quantity |-> q]

RivalWriter == o1 :> w1 @@ o2 :> w1
RivalTotal == o1 :> 4 @@ o2 :> 2
RivalItems == a1 :> <<Wants(o1, 2), Wants(o2, 2)>> @@ a2 :> <<Wants(o1, 2)>>
RivalAvailable == w1 :> 4 @@ b1 :> 5 @@ b2 :> 2
RivalPremiumBps == o1 :> 5000 @@ o2 :> 10000
RivalBuyer == a1 :> b1 @@ a2 :> b2

TwiceWriter == o1 :> w1
TwiceTotal == o1 :> 4
TwiceBuyer == a1 :> b1
TwicePremiumBps == o1 :> 5000
TwiceItems == a1 :> <<Wants(o1, 4), Wants(o1, 4)>>
TwiceAvailable == w1 :> 8 @@ b1 :> 8
=============================================================================
