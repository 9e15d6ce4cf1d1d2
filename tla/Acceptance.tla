----------------------------- MODULE Acceptance -----------------------------
(***************************************************************************)
(* Offers and their acceptance (usecases/offers): a writer creates and     *)
(* cancels offers, a buyer accepts one or, stitched, several of them; the  *)
(* request locks collateral and debits the buyer in one message and leaves *)
(* a journal entry and a WAL row, whose payload then fetches a price, pays *)
(* each writer and the platform on the ledger, and creates the options.    *)
(*                                                                         *)
(* Each action is one message of the canister or one of the ledger.  A run *)
(* of the payload is cut at its awaits: the price, then one transfer after *)
(* the other; `at' says which of them it awaits.  Wal models the row.      *)
(***************************************************************************)
EXTENDS Naturals, FiniteSets, SequencesExt, CkbtcLedger

CONSTANTS
  Users, Offers, Accepts,
  Writer, Total,          \* of an offer: Offers -> Users, Offers -> Nat
  PremiumBps,             \* Offers -> Nat
  Buyer,                  \* Accepts -> Users
  Items,                  \* Accepts -> sequences of [offer, quantity]
  Stitching, PartialFilling,   \* feature flags
  PremiumFeeBps,          \* premium_fee_basis_points
  MaxOffers,              \* max_offers_per_term; the offers are of one term
  Available0,             \* Users -> Nat
  Fees                    \* transfer fees the ledger may charge

Item == [offer : Offers, quantity : Nat \ {0}]

(* A request without items is refused, and the platform is nobody's user. *)
ASSUME AcceptanceAssumption ==
  /\ Writer \in [Offers -> Users] /\ Total \in [Offers -> Nat]
  /\ PremiumBps \in [Offers -> Nat] /\ PremiumFeeBps \in 0 .. 10000
  /\ Buyer \in [Accepts -> Users]
  /\ Items \in [Accepts -> Seq(Item)]
  /\ \A a \in Accepts : Items[a] # <<>>
  /\ IsFiniteSet(Accepts) /\ Users \cap {"platform", "idle", "price"} = {}
  /\ {Stitching, PartialFilling} \subseteq BOOLEAN /\ MaxOffers \in Nat
  /\ Available0 \in [Users -> Nat] /\ Fees \subseteq Nat /\ Fees # {}

VARIABLES
  offer,       \* status and remaining quantity of each offer
  lapsed,      \* offers whose offer_valid_until_seconds has passed
  accept,      \* PendingAccept: phase, quoted fee, the offers as they were
  waived,      \* accepts whose platform fee was not collected
  closed,      \* accepts whose options have been settled
  wal, age, at, reply,                \* as in Settlement
  net, executed, ledgerFee, funds,    \* the ledger
  available, locked, earned           \* the balances of the canister

records == <<offer, lapsed, accept, waived, closed, wal>>
ledger == <<net, executed, ledgerFee, funds>>
books == <<available, locked, earned>>
vars == <<records, age, at, reply, ledger, books>>

Platform == "platform"
NoAccept == [phase |-> "None", quoted |-> 0, was |-> <<>>]
Acceptable == {"Open", "PartiallyFilled"}

-----------------------------------------------------------------------------
(* What a request amounts to.                                              *)
Indices(a) == DOMAIN Items[a]
OfferOf(a, i) == Items[a][i].offer
Quantity(a, i) == Items[a][i].quantity
WriterOf(a, i) == Writer[OfferOf(a, i)]

PremiumOf(a, i) == (Quantity(a, i) * PremiumBps[OfferOf(a, i)]) \div 10000
FeeOf(a, i) == (PremiumOf(a, i) * PremiumFeeBps) \div 10000
ToWriter(a, i) == PremiumOf(a, i) - FeeOf(a, i)

SumOver(S, Term(_)) == SumFunctionOnSet([x \in S |-> Term(x)], S)
Premium == [a \in Accepts |-> SumOver(Indices(a), LAMBDA i : PremiumOf(a, i))]
Fee == [a \in Accepts |-> SumOver(Indices(a), LAMBDA i : FeeOf(a, i))]
IndicesOf(a, u) == {i \in Indices(a) : WriterOf(a, i) = u}
Earns == [a \in Accepts |-> [u \in Users |->
  SumOver(IndicesOf(a, u), LAMBDA i : ToWriter(a, i))]]
Pledges == [a \in Accepts |-> [u \in Users |->
  SumOver(IndicesOf(a, u), LAMBDA i : Quantity(a, i))]]
Taken == [a \in Accepts |-> [o \in Offers |->
  SumOver({i \in Indices(a) : OfferOf(a, i) = o}, LAMBDA i : Quantity(a, i))]]

(* The transfers of the payload, in their order: one to each writer and    *)
(* one to the platform when there is a fee.                                *)
Payees == [a \in Accepts |->
  SetToSeq({WriterOf(a, i) : i \in Indices(a)})
    \o (IF Fee[a] > 0 THEN <<Platform>> ELSE <<>>)]
Amount(a, k) == IF Payees[a][k] = Platform THEN Fee[a] ELSE Earns[a][Payees[a][k]]

(* Fault: the fees of the ledger's transfers are not charged to the buyer. *)
PremiumsOnly(a, fee) == Premium[a]

Debit(a, fee) == Premium[a] + Len(Payees[a]) * fee

Init ==
  /\ offer = [o \in Offers |-> [status |-> "None", remaining |-> Total[o]]]
  /\ lapsed = {} /\ waived = {} /\ closed = {}
  /\ accept = [a \in Accepts |-> NoAccept]
  /\ wal = [a \in Accepts |-> "Absent"]
  /\ age = [a \in Accepts |-> Young]
  /\ at = [a \in Accepts |-> "idle"]
  /\ reply = [a \in Accepts |-> "none"]
  /\ net = {} /\ executed = {} /\ ledgerFee \in Fees
  /\ available = Available0 /\ funds = Available0
  /\ locked = [u \in Users |-> 0] /\ earned = 0

Pending == {a \in Accepts : accept[a].phase = "BuyerDebited"}
Sold == {a \in Accepts : accept[a].phase = "Completed"}

-----------------------------------------------------------------------------
(* create_offer_use_case: nothing is locked for an offer.                  *)
Create(o) ==
  /\ offer[o].status = "None"
  /\ Cardinality({p \in Offers : Writer[p] = Writer[o] /\
                                 offer[p].status \in Acceptable}) < MaxOffers
  /\ available[Writer[o]] >= Total[o]
  /\ offer' = [offer EXCEPT ![o].status = "Open"]
  /\ UNCHANGED <<lapsed, accept, waived, closed, wal, age, at, reply, ledger, books>>

(* Fault: an offer may be cancelled while an accept holds it.              *)
CancelHeld(o) ==
  /\ offer[o].status \in Acceptable \cup {"Processing"}
  /\ offer' = [offer EXCEPT ![o].status = "Cancelled"]
  /\ UNCHANGED <<lapsed, accept, waived, closed, wal, age, at, reply, ledger, books>>

Cancel(o) ==
  /\ offer[o].status \in Acceptable
  /\ offer' = [offer EXCEPT ![o].status = "Cancelled"]
  /\ UNCHANGED <<lapsed, accept, waived, closed, wal, age, at, reply, ledger, books>>

Lapse(o) ==
  /\ offer[o].status # "None" /\ o \notin lapsed
  /\ lapsed' = lapsed \cup {o}
  /\ UNCHANGED <<offer, accept, waived, closed, wal, age, at, reply, ledger, books>>

(* validate_accept_offer_request, of one item.                             *)
Valid(a, i) ==
  LET o == OfferOf(a, i) IN
  /\ Writer[o] # Buyer[a]
  /\ offer[o].status \in Acceptable
  /\ o \notin lapsed
  /\ Quantity(a, i) <= offer[o].remaining
  /\ Quantity(a, i) < offer[o].remaining => PartialFilling

Covered(a, i) == available[WriterOf(a, i)] >= Quantity(a, i)

(* What must hold before the items are looked at.                          *)
Admitted(a) ==
  /\ accept[a].phase = "None"
  /\ Len(Items[a]) > 1 => Stitching
  /\ \A b \in Pending : Buyer[b] # Buyer[a]

(* The first item its writer cannot cover ends the request; its offer is   *)
(* cancelled, and stays so although the request was refused.               *)
RefuseShort(a) ==
  /\ Admitted(a)
  /\ \E i \in Indices(a) :
       /\ \A k \in 1 .. i : Valid(a, k)
       /\ \A k \in 1 .. i - 1 : Covered(a, k)
       /\ ~Covered(a, i)
       /\ offer' = [offer EXCEPT ![OfferOf(a, i)].status = "Cancelled"]
  /\ UNCHANGED <<lapsed, accept, waived, closed, wal, age, at, reply, ledger, books>>

Prepared(a, fee) ==
  /\ Admitted(a)
  /\ \A i \in Indices(a) : Valid(a, i) /\ Covered(a, i)
  /\ available[Buyer[a]] >= Debit(a, fee)

AllLockable(a) == \A u \in Users : Pledges[a][u] <= available[u]

(* Each item was covered but not all of them together: what was locked is  *)
(* unlocked again, the offers are restored, the journal keeps the failure. *)
RefuseTogether(a, fee) ==
  /\ Prepared(a, fee) /\ ~AllLockable(a)
  /\ accept' = [accept EXCEPT ![a].phase = "Refused"]
  /\ UNCHANGED <<offer, lapsed, waived, closed, wal, age, at, reply, ledger, books>>

Reserved(a, o) ==
  [status |-> "Processing",
   remaining |-> IF offer[o].remaining < Taken[a][o] THEN 0
                 ELSE offer[o].remaining - Taken[a][o]]

(* accept_offers_use_case: collateral locked, buyer debited, row enqueued, *)
(* and the first segment of the attempt, up to the price it awaits.  The   *)
(* fee is the cached one: whatever the ledger once charged.                *)
Accept(a, fee) ==
  /\ Prepared(a, fee) /\ AllLockable(a)
  /\ accept' = [accept EXCEPT ![a] =
       [phase |-> "BuyerDebited", quoted |-> fee,
        was |-> [i \in Indices(a) |-> offer[OfferOf(a, i)]]]]
  /\ offer' = [o \in Offers |-> IF Taken[a][o] > 0 THEN Reserved(a, o) ELSE offer[o]]
  /\ locked' = [u \in Users |-> locked[u] + Pledges[a][u]]
  /\ available' = [u \in Users |->
       (available[u] - Pledges[a][u]) - (IF u = Buyer[a] THEN Debit(a, fee) ELSE 0)]
  /\ wal' = [wal EXCEPT ![a] = "InFlight"]
  /\ at' = [at EXCEPT ![a] = "price"]
  /\ UNCHANGED <<lapsed, waived, closed, age, reply, ledger, earned>>

-----------------------------------------------------------------------------
(* An attempt of a row: by the maintenance timer when it is due, or by an  *)
(* operator whenever he likes.  Only in phase BuyerDebited does the        *)
(* payload do anything; a journal entry that failed lets it succeed.       *)
Attempt(a) ==
  /\ at[a] = "idle"
  /\ IF a \in Pending
     THEN /\ wal' = [wal EXCEPT ![a] = "InFlight"]
          /\ at' = [at EXCEPT ![a] = "price"]
     ELSE wal' = [wal EXCEPT ![a] = "Succeeded"] /\ UNCHANGED at
  /\ UNCHANGED <<offer, lapsed, accept, waived, closed, age, reply, ledger, books>>

Retry(a) == wal[a] = "RetryRequired" /\ age[a] = Young /\ Attempt(a)

Recover(a) == wal[a] \notin {"Absent", "Succeeded"} /\ Attempt(a)

(* The next transfer is sent.                                              *)
Send(a, k) ==
  /\ at' = [at EXCEPT ![a] = Payees[a][k]]
  /\ reply' = [reply EXCEPT ![a] = "none"]
  /\ net' = net \cup {<<a, k>>}
  /\ UNCHANGED <<records, age, executed, ledgerFee, funds, books>>

(* create_active_options_from_wal_payload, and the entry is removed.       *)
Finalize(a, collected) ==
  /\ accept' = [accept EXCEPT ![a] = [NoAccept EXCEPT !.phase = "Completed"]]
  /\ waived' = IF collected THEN waived ELSE waived \cup {a}
  /\ offer' = [o \in Offers |->
       IF Taken[a][o] = 0 THEN offer[o]
       ELSE [offer[o] EXCEPT !.status =
               IF offer[o].remaining = 0 THEN "Filled" ELSE "PartiallyFilled"]]
  /\ available' = [u \in Users |-> available[u] + Earns[a][u]
       + (IF u = Buyer[a] /\ ~collected THEN Fee[a] + accept[a].quoted ELSE 0)]
  /\ earned' = IF collected THEN earned + Fee[a] ELSE earned
  /\ wal' = [wal EXCEPT ![a] = "Succeeded"]
  /\ at' = [at EXCEPT ![a] = "idle"]
  /\ reply' = [reply EXCEPT ![a] = "none"]
  /\ UNCHANGED <<lapsed, closed, age, ledger, locked>>

(* Fault: an offer gets its status back, but not what was taken of it.      *)
StatusOnly(a, o) ==
  [accept[a].was[CHOOSE i \in Indices(a) : OfferOf(a, i) = o]
     EXCEPT !.remaining = offer[o].remaining]

(* rollback_prepared_accepts: an offer is put back as the accept found it. *)
Restored(a, o) ==
  accept[a].was[CHOOSE i \in Indices(a) : OfferOf(a, i) = o]

(* Fault: the collateral stays locked.                                     *)
NothingUnlocked(a, u) == 0

(* An unlocking that the locked balance does not cover is passed over.     *)
Unlocks(a, u) == IF locked[u] >= Pledges[a][u] THEN Pledges[a][u] ELSE 0

(* A permanent failure: finalize_failed_accept_wal gives the whole debit   *)
(* back, whatever of it the transfers have moved.                          *)
FailForGood(a) ==
  /\ accept' = [accept EXCEPT ![a].phase = "Failed"]
  /\ offer' = [o \in Offers |-> IF Taken[a][o] > 0 THEN Restored(a, o) ELSE offer[o]]
  /\ locked' = [u \in Users |-> locked[u] - Unlocks(a, u)]
  /\ available' = [u \in Users |-> available[u] + Unlocks(a, u)
       + (IF u = Buyer[a] THEN Debit(a, accept[a].quoted) ELSE 0)]
  /\ wal' = [wal EXCEPT ![a] = "FailedPermanent"]
  /\ at' = [at EXCEPT ![a] = "idle"]
  /\ reply' = [reply EXCEPT ![a] = "none"]
  /\ UNCHANGED <<lapsed, waived, closed, age, ledger, earned>>

Priced(a) ==
  /\ at[a] = "price"
  /\ Send(a, 1)

(* The oracle failed in a way that is not worth a retry.                   *)
Unpriced(a) ==
  /\ at[a] = "price"
  /\ FailForGood(a)

(* A transfer is answered: the next one follows, or the options are made.  *)
(* A writer's transfer that is refused fails the accept; the platform's    *)
(* is waived, and its amount given back to the buyer.                      *)
Answered(a) ==
  \E k \in DOMAIN Payees[a] :
    /\ at[a] = Payees[a][k]
    /\ \/ reply[a] = "ok" /\ k < Len(Payees[a]) /\ Send(a, k + 1)
       \/ reply[a] = "ok" /\ k = Len(Payees[a]) /\ Finalize(a, TRUE)
       \/ reply[a] = "rejected" /\ at[a] # Platform /\ FailForGood(a)
       \/ reply[a] = "rejected" /\ at[a] = Platform /\ Finalize(a, FALSE)

Requeue(a) ==
  /\ \E status \in {"RetryRequired", "RecoveryRequired"} :
       wal' = [wal EXCEPT ![a] = status]
  /\ at' = [at EXCEPT ![a] = "idle"]
  /\ reply' = [reply EXCEPT ![a] = "none"]
  /\ UNCHANGED <<offer, lapsed, accept, waived, closed, age, ledger, books>>

(* The bounded wait ends without an answer, or the callee was unavailable: *)
(* a retryable error, except that of the platform's transfer, any error of *)
(* which waives it.                                                        *)
Unanswered(a) ==
  \/ at[a] \notin {"idle", Platform} /\ Requeue(a)
  \/ at[a] = Platform /\ Finalize(a, FALSE)

(* The resumed message traps, or the canister is upgraded.                 *)
Interrupt(a) ==
  /\ at[a] # "idle"
  /\ at' = [at EXCEPT ![a] = "idle"]
  /\ reply' = [reply EXCEPT ![a] = "none"]
  /\ UNCHANGED <<records, age, ledger, books>>

-----------------------------------------------------------------------------
(* The timers, as in Settlement.                                           *)
PromoteStale(a) ==
  /\ wal[a] = "InFlight" /\ age[a] = Young
  /\ \E status \in {"RetryRequired", "RecoveryRequired"} :
       wal' = [wal EXCEPT ![a] = status]
  /\ UNCHANGED <<offer, lapsed, accept, waived, closed, age, at, reply, ledger, books>>

(* Fault: a stale row that is too old is passed over.                      *)
GiveUpQueued(a) ==
  /\ wal[a] = "RetryRequired" /\ age[a] # Young
  /\ wal' = [wal EXCEPT ![a] = "RecoveryRequired"]
  /\ UNCHANGED <<offer, lapsed, accept, waived, closed, age, at, reply, ledger, books>>

GiveUp(a) ==
  /\ wal[a] \in {"InFlight", "RetryRequired"} /\ age[a] # Young
  /\ wal' = [wal EXCEPT ![a] = "RecoveryRequired"]
  /\ UNCHANGED <<offer, lapsed, accept, waived, closed, age, at, reply, ledger, books>>

Grow(a) ==
  /\ wal[a] \notin {"Absent", "Succeeded"} /\ age[a] < Expired
  /\ age' = [age EXCEPT ![a] = @ + 1]
  /\ UNCHANGED <<records, at, reply, ledger, books>>

-----------------------------------------------------------------------------
(* The ledger executes a transfer out of the buyer's account.              *)
LedgerExecutes(a, k) ==
  LET verdict == Verdict(<<a, k>> \in executed, age[a], accept[a].quoted, ledgerFee,
                         funds[Buyer[a]], Amount(a, k))
      payee == Payees[a][k]
  IN
  /\ <<a, k>> \in net
  /\ net' = net \ {<<a, k>>}
  /\ \/ /\ verdict = "applied"
        /\ executed' = executed \cup {<<a, k>>}
        /\ funds' = [u \in Users |->
             (funds[u] + (IF u = payee THEN Amount(a, k) ELSE 0))
               - (IF u = Buyer[a] THEN Amount(a, k) + accept[a].quoted ELSE 0)]
     \/ verdict # "applied" /\ UNCHANGED <<executed, funds>>
  /\ reply' = IF at[a] # payee THEN reply
              ELSE [reply EXCEPT ![a] =
                      IF verdict = "rejected" THEN "rejected" ELSE "ok"]
  /\ UNCHANGED <<records, age, at, ledgerFee, books>>

FeeChange ==
  /\ ledgerFee' \in Fees \ {ledgerFee}
  /\ UNCHANGED <<records, age, at, reply, net, executed, funds, books>>

(* What else moves the balances: a withdrawal of all that is available,    *)
(* and the settlement, at or below the strike, of the options of a sale.   *)
Withdraw(u) ==
  /\ available[u] > 0 /\ funds[u] >= available[u]
  /\ available' = [available EXCEPT ![u] = 0]
  /\ funds' = [funds EXCEPT ![u] = @ - available[u]]
  /\ UNCHANGED <<records, age, at, reply, net, executed, ledgerFee, locked, earned>>

SettleWorthless(a) ==
  /\ a \in Sold \ closed
  /\ closed' = closed \cup {a}
  /\ locked' = [u \in Users |-> locked[u] - Pledges[a][u]]
  /\ available' = [u \in Users |-> available[u] + Pledges[a][u]]
  /\ UNCHANGED <<offer, lapsed, accept, waived, wal, age, at, reply, ledger, earned>>

OfferStep(o) == Create(o) \/ Cancel(o) \/ Lapse(o)

AcceptStep(a) ==
  \/ RefuseShort(a)
  \/ \E fee \in Fees : Accept(a, fee) \/ RefuseTogether(a, fee)
  \/ Priced(a) \/ Unpriced(a) \/ Answered(a) \/ Unanswered(a) \/ Interrupt(a)

RowStep(a) == Retry(a) \/ Recover(a) \/ PromoteStale(a) \/ GiveUp(a) \/ Grow(a)

SaleStep(a) ==
  \/ AcceptStep(a) \/ RowStep(a) \/ SettleWorthless(a)
  \/ \E k \in DOMAIN Payees[a] : LedgerExecutes(a, k)

Next ==
  \/ FeeChange
  \/ \E u \in Users : Withdraw(u)
  \/ \E o \in Offers : OfferStep(o)
  \/ \E a \in Accepts : SaleStep(a)

Spec == Init /\ [][Next]_vars

(* As in Settlement: every call is answered or times out, the timers fire, *)
(* time goes on.                                                           *)
FairSpec ==
  /\ Spec
  /\ \A a \in Accepts :
       /\ WF_vars(Priced(a) \/ Unpriced(a) \/ Answered(a) \/ Unanswered(a))
       /\ WF_vars(PromoteStale(a)) /\ WF_vars(Retry(a)) /\ WF_vars(GiveUp(a))
       /\ WF_vars(Grow(a))
-----------------------------------------------------------------------------
OfferStates ==
  [status : Acceptable \cup {"None", "Processing", "Filled", "Cancelled"},
   remaining : Nat]
AcceptStates ==
  [phase : {"None", "Refused", "BuyerDebited", "Completed", "Failed"},
   quoted : Nat, was : Seq(OfferStates)]
Resumable == {"InFlight", "RetryRequired", "RecoveryRequired"}

TypeOK ==
  /\ offer \in [Offers -> OfferStates] /\ lapsed \subseteq Offers
  /\ accept \in [Accepts -> AcceptStates]
  /\ wal \in [Accepts -> Resumable \cup {"Absent", "Succeeded", "FailedPermanent"}]
  /\ age \in [Accepts -> Ages]
  /\ at \in [Accepts -> Users \cup {Platform, "idle", "price"}]
  /\ reply \in [Accepts -> {"none", "ok", "rejected"}]
  /\ net \subseteq Accepts \X Nat /\ executed \subseteq Accepts \X Nat
  /\ ledgerFee \in Fees /\ funds \in [Users -> Nat]
  /\ available \in [Users -> Nat] /\ locked \in [Users -> Nat]
  /\ earned \in Nat
  /\ waived \subseteq Sold /\ closed \subseteq Sold

(* The records of an accept agree after every message: its row can still   *)
(* run exactly while its entry is unfinished, and an offer is Processing   *)
(* exactly while one unfinished entry holds it.                            *)
RecordsAgree ==
  /\ \A a \in Accepts :
       /\ a \in Pending <=> wal[a] \in Resumable
       /\ at[a] # "idle" => a \in Pending
  /\ \A o \in Offers :
       offer[o].status = "Processing" <=> \E a \in Pending : Taken[a][o] > 0

(* Every option is covered, from the moment the buyer's money is taken: a  *)
(* writer's locked balance is what his options, sold or about to be, need. *)
EveryOptionIsCovered ==
  \A u \in Users :
    locked[u] = SumOver(Pending \cup (Sold \ closed), LAMBDA a : Pledges[a][u])

(* Accepts whose failure the ledger does not share: a transfer of one that *)
(* failed was executed, or the fee that was waived.                        *)
HalfDone(a) ==
  \E k \in DOMAIN Payees[a] :
    /\ <<a, k>> \in executed
    /\ accept[a].phase = "Failed" \/ (a \in waived /\ Payees[a][k] = Platform)

Parties(a) == {Buyer[a]} \cup {WriterOf(a, i) : i \in Indices(a)}

Left(a, u) ==
  IF u # Buyer[a] THEN 0
  ELSE SumOver({k \in DOMAIN Payees[a] : <<a, k>> \in executed},
               LAMBDA k : Amount(a, k) + accept[a].quoted)
Came(a, u) ==
  SumOver({k \in DOMAIN Payees[a] : <<a, k>> \in executed /\ Payees[a][k] = u},
          LAMBDA k : Amount(a, k))
Owes(a, u) == IF u = Buyer[a] THEN Debit(a, accept[a].quoted) ELSE 0

(* The canister's balances are what the ledger holds for the user, but for *)
(* what accepts in progress have debited or transferred, as long as none   *)
(* he took part in was left half-done.                                     *)
BooksMatchLedger ==
  \A u \in Users :
    (\A a \in Accepts : u \in Parties(a) => ~HalfDone(a)) =>
      funds[u] + SumOver(Pending, LAMBDA a : Left(a, u))
        = available[u] + locked[u]
            + SumOver(Pending, LAMBDA a : Owes(a, u) + Came(a, u))

(* An accept keeps the promise of Sale: it takes its part of all its       *)
(* offers or none, and sells it or gives it back.                          *)
StageOf(a) ==
  CASE accept[a].phase = "BuyerDebited" -> "held"
    [] accept[a].phase = "Completed" -> "sold"
    [] accept[a].phase = "Failed" -> "returned"
    [] OTHER -> "open"

Promise == INSTANCE Sale WITH
  stage <- [a \in Accepts |-> StageOf(a)],
  left <- [o \in Offers |-> offer[o].remaining]

AcceptKeepsItsPromise == Promise!Spec

(* No accept is left hanging with its offers Processing: it completes,     *)
(* fails, or waits for the operator.                                       *)
ComesToRest(a) == a \in Pending ~> a \notin Pending \/ wal[a] = "RecoveryRequired"
EveryAcceptComesToRest == \A a \in Accepts : ComesToRest(a)

(* The docs say that premium paid, premium received and collateral locked  *)
(* happen together: where the ledger has paid a writer, the accept is      *)
(* under way or has sold him the option.                                   *)
PremiumComesWithTheOption ==
  \A a \in Accepts : \A k \in DOMAIN Payees[a] :
    <<a, k>> \in executed => a \in Pending \cup Sold

(* The payload's log, and the test of it, say that a platform fee whose    *)
(* transfer failed is waived: it is not taken as well.                     *)
WaivedFeeIsNotTaken ==
  \A a \in waived : <<a, Len(Payees[a])>> \notin executed

(* get_accept_status answers Succeeded with the options an accept created. *)
SucceededHasOptions ==
  \A a \in Accepts : wal[a] = "Succeeded" => a \in Sold

(* OfferStatus says that Filled means that all of the quantity has been    *)
(* accepted and no more is available: no more than that is ever sold.      *)
NoMoreSoldThanOffered ==
  \A o \in Offers : SumOver(Sold, LAMBDA a : Taken[a][o]) <= Total[o]

(* Docs: a writer has up to max_offers_per_term open offers in a term.     *)
OfferLimitIsKept ==
  \A u \in Users :
    Cardinality({o \in Offers : Writer[o] = u /\ offer[o].status \in Acceptable}) <= MaxOffers
=============================================================================
