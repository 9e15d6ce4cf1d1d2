---------------------------- MODULE MCOperations ----------------------------
(* Two withdrawals of one user, and an accept of two writers' offers, side *)
(* by side, each under the fairness of its FairSpec.  They share no state, *)
(* so one moves while the other rests where it started.                    *)
EXTENDS MCWithdrawal

CONSTANTS v1, v2, b1, o1, o2, a1

Item(o, q) == [offer |-> o, quantity |-> q]

StitchUsers == {v1, v2, b1}
StitchOffers == {o1, o2}
StitchAccepts == {a1}
StitchWriter == o1 :> v1 @@ o2 :> v2
StitchTotal == o1 :> 4 @@ o2 :> 4
StitchPremiumBps == o1 :> 5000 @@ o2 :> 5000
StitchBuyer == a1 :> b1
StitchItems == a1 :> <<Item(o1, 4), Item(o2, 2)>>
StitchAvailable == v1 :> 4 @@ v2 :> 4 @@ b1 :> 6

VARIABLE part   \* the operations that move: "withdrawals" or "accept"

VARIABLES  \* of Acceptance
  acOffer, acLapsed, acAccept, acWaived, acClosed, acWal, acAge, acAt,
  acReply, acNet, acExecuted, acLedgerFee, acFunds, acAvailable, acLocked,
  acEarned

acVars == <<
  acOffer, acLapsed, acAccept, acWaived, acClosed, acWal, acAge, acAt,
  acReply, acNet, acExecuted, acLedgerFee, acFunds, acAvailable, acLocked,
  acEarned>>

Stitch == INSTANCE Acceptance WITH
  Users <- StitchUsers, Offers <- StitchOffers, Accepts <- StitchAccepts,
  Writer <- StitchWriter, Total <- StitchTotal,
  PremiumBps <- StitchPremiumBps, Buyer <- StitchBuyer,
  Items <- StitchItems, Stitching <- TRUE, PartialFilling <- TRUE,
  PremiumFeeBps <- 5000, MaxOffers <- 5, Available0 <- StitchAvailable,
  offer <- acOffer, lapsed <- acLapsed, accept <- acAccept,
  waived <- acWaived, closed <- acClosed, wal <- acWal, age <- acAge,
  at <- acAt, reply <- acReply, net <- acNet, executed <- acExecuted,
  ledgerFee <- acLedgerFee, funds <- acFunds, available <- acAvailable,
  locked <- acLocked, earned <- acEarned

UnionInit ==
  /\ part \in {"withdrawals", "accept"} /\ Init /\ Stitch!Init
  /\ IF part = "accept" THEN ledgerFee = 1 ELSE acLedgerFee = 1

Withdraws(A) == part = "withdrawals" /\ A /\ UNCHANGED <<part, acVars>>
Accepting(A) == part = "accept" /\ A /\ UNCHANGED <<part, vars>>

UnionNext == Withdraws(Next) \/ Accepting(Stitch!Next)

unionVars == <<part, vars, acVars>>

UnionFairness ==
  /\ \A w \in Withdrawals :
       /\ WF_unionVars(Withdraws(Approved(w) \/ Retrieved(w) \/ Refused(w) \/ Fails(w)))
       /\ WF_unionVars(Withdraws(PromoteStale(w)))
  /\ WF_unionVars(Accepting(Stitch!Priced(a1) \/ Stitch!Unpriced(a1) \/
                            Stitch!Answered(a1) \/ Stitch!Unanswered(a1)))
  /\ WF_unionVars(Accepting(Stitch!PromoteStale(a1)))
  /\ WF_unionVars(Accepting(Stitch!Retry(a1))) /\ WF_unionVars(Accepting(Stitch!GiveUp(a1)))
  /\ WF_unionVars(Accepting(Stitch!Grow(a1)))

UnionSpec == UnionInit /\ [][UnionNext]_unionVars /\ UnionFairness

(* No accept is forgotten: it succeeds, is given up, or waits for the      *)
(* operator, and holds offers and collateral no longer than that.          *)
EveryAcceptComesToRest == Stitch!EveryAcceptComesToRest
=============================================================================
