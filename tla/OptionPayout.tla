---------------------------- MODULE OptionPayout ----------------------------
(***************************************************************************)
(* What settlement promises of the canister's balances: the collateral of  *)
(* an option is divided once, completely, between its buyer, the platform, *)
(* the ledger's fees and its writer, and no other collateral is touched.   *)
(* Nothing is said here of journals, retries, the ledger or crashes.       *)
(***************************************************************************)
EXTENDS Naturals

CONSTANTS Options, Users, Writer, Buyer, Quantity

VARIABLES
  stage,       \* how far the settlement of an option has come
  deal,        \* the division of its collateral, while it is carried out
  available, locked, earned

vars == <<stage, deal, available, locked, earned>>

Stages == {"open", "agreed", "paid", "closed", "abandoned"}

NoDeal == [buyer |-> 0, platform |-> 0, charge |-> 0, writer |-> 0]

IsDivision(o, d) ==
  d.buyer + d.platform + d.charge + d.writer = Quantity[o]

Init ==
  /\ stage = [o \in Options |-> "open"]
  /\ deal = [o \in Options |-> NoDeal]
  /\ earned = 0

(* A buyer whose whole profit is the platform's fee has nothing to be paid.*)
Agree(o) ==
  /\ stage[o] = "open"
  /\ IsDivision(o, deal'[o])
  /\ deal' = [deal EXCEPT ![o] = deal'[o]]
  /\ stage' = [stage EXCEPT ![o] =
                 IF deal'[o].buyer = 0 THEN "paid" ELSE "agreed"]
  /\ UNCHANGED <<available, locked, earned>>

(* What the writer gets back and what leaves his collateral, the buyer     *)
(* paid: the two halves of a settlement.                                   *)
Pay(o) ==
  /\ stage[o] = "agreed"
  /\ stage' = [stage EXCEPT ![o] = "paid"]
  /\ available' = [available EXCEPT ![Buyer[o]] = @ + deal[o].buyer]
  /\ locked' = [locked EXCEPT ![Writer[o]] = @ - deal[o].buyer]
  /\ UNCHANGED <<deal, earned>>

Close(o) ==
  /\ stage[o] = "paid"
  /\ stage' = [stage EXCEPT ![o] = "closed"]
  /\ deal' = [deal EXCEPT ![o] = NoDeal]
  /\ available' = [available EXCEPT ![Writer[o]] = @ + deal[o].writer]
  /\ locked' = [locked EXCEPT ![Writer[o]] = @ - (Quantity[o] - deal[o].buyer)]
  /\ earned' = earned + deal[o].platform

(* Both at once, when there is no fee to collect in between.               *)
PayAndClose(o) ==
  LET paid == [available EXCEPT ![Buyer[o]] = @ + deal[o].buyer] IN
  /\ stage[o] = "agreed" /\ deal[o].platform = 0
  /\ stage' = [stage EXCEPT ![o] = "closed"]
  /\ deal' = [deal EXCEPT ![o] = NoDeal]
  /\ available' = [paid EXCEPT ![Writer[o]] = @ + deal[o].writer]
  /\ locked' = [locked EXCEPT ![Writer[o]] = @ - Quantity[o]]
  /\ UNCHANGED earned

(* The option ends worthless: its writer has the whole collateral back.    *)
Lapse(o) ==
  /\ stage[o] = "open"
  /\ stage' = [stage EXCEPT ![o] = "closed"]
  /\ available' = [available EXCEPT ![Writer[o]] = @ + Quantity[o]]
  /\ locked' = [locked EXCEPT ![Writer[o]] = @ - Quantity[o]]
  /\ UNCHANGED <<deal, earned>>

(* A settlement given up leaves all balances as they are.                  *)
Abandon(o) ==
  /\ stage[o] \in {"agreed", "paid"}
  /\ stage' = [stage EXCEPT ![o] = "abandoned"]
  /\ deal' = [deal EXCEPT ![o] = NoDeal]
  /\ UNCHANGED <<available, locked, earned>>

Next ==
  \E o \in Options :
    Agree(o) \/ Pay(o) \/ Close(o) \/ PayAndClose(o) \/ Lapse(o) \/ Abandon(o)

Spec == Init /\ [][Next]_vars
=============================================================================
