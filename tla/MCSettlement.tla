--------------------------- MODULE MCSettlement ---------------------------
(* Two instances of Settlement, of which one moves while the other rests   *)
(* where it started: the two options of one writer, bought by two users,   *)
(* at prices that leave the buyer nothing, a payout too small for a profit *)
(* fee, and both; and one option alone, under the fairness of FairSpec.    *)
EXTENDS Settlement, TLC

CONSTANTS writer, buyer, other, o1, o2

MCWriter == o1 :> writer @@ o2 :> writer
MCBuyer == o1 :> buyer @@ o2 :> other
MCQuantity == o1 :> 8 @@ o2 :> 8
MCStrike == o1 :> 4 @@ o2 :> 6
MCAvailable == writer :> 1 @@ buyer :> 0 @@ other :> 0

VARIABLE part   \* the instance that moves: "two" or "one"

VARIABLES  \* of the instance with one option
  oneExpired, oneOption, oneJournal, oneWal, oneQuoted, oneAge, oneAt,
  oneReply, oneNet, oneExecuted, oneLedgerFee, oneFunds, oneAvailable,
  oneLocked, oneEarned

oneVars == <<
  oneExpired, oneOption, oneJournal, oneWal, oneQuoted, oneAge, oneAt,
  oneReply, oneNet, oneExecuted, oneLedgerFee, oneFunds, oneAvailable,
  oneLocked, oneEarned>>

One == INSTANCE Settlement WITH
  Options <- {o1}, Users <- {writer, buyer}, Writer <- o1 :> writer,
  Buyer <- o1 :> buyer, Quantity <- o1 :> 8, Strike <- o1 :> 4,
  Available0 <- writer :> 1 @@ buyer :> 0, expired <- oneExpired,
  option <- oneOption, journal <- oneJournal, wal <- oneWal,
  quoted <- oneQuoted, age <- oneAge, at <- oneAt, reply <- oneReply,
  net <- oneNet, executed <- oneExecuted, ledgerFee <- oneLedgerFee,
  funds <- oneFunds, available <- oneAvailable, locked <- oneLocked,
  earned <- oneEarned

MCInit ==
  /\ part \in {"two", "one"} /\ Init /\ One!Init
  /\ IF part = "two" THEN oneLedgerFee = 1 ELSE ledgerFee = 1
MCNext ==
  \/ part = "two" /\ Next /\ UNCHANGED <<part, oneVars>>
  \/ part = "one" /\ One!Next /\ UNCHANGED <<part, vars>>

mcVars == <<part, vars, oneVars>>

(* Settlement's Fairness, of the instance with one option.                 *)
OneDoes(A) == part = "one" /\ A /\ UNCHANGED <<part, vars>>
MCFairness ==
  /\ WF_mcVars(OneDoes(One!Expire(o1)))
  /\ WF_mcVars(
       OneDoes(\E price \in Prices, fee \in Fees : One!Settle(o1, price, fee)))
  /\ WF_mcVars(OneDoes(One!Resume(o1) \/ One!Fails(o1)))
  /\ WF_mcVars(OneDoes(One!PromoteStale(o1))) /\ WF_mcVars(OneDoes(One!Retry(o1)))
  /\ WF_mcVars(OneDoes(One!GiveUp(o1))) /\ WF_mcVars(OneDoes(One!Grow(o1)))

MCSpec == MCInit /\ [][MCNext]_mcVars /\ MCFairness

(* No settlement is forgotten: an option that has expired is settled,      *)
(* given up, or waits for the operator.                                    *)
TheOneComesToRest == One!EverySettlementComesToRest
=============================================================================
