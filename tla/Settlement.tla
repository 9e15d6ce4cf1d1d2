---------------------------- MODULE Settlement ----------------------------
(***************************************************************************)
(* The settlement of expired options (usecases/options/settle_option.rs):  *)
(* the settlement timer and settle_option_by_id, the journal entry and the *)
(* WAL row they create, the payload the WAL executor runs against the      *)
(* ckBTC ledger, and the balances it moves (storage/balances.rs).          *)
(*                                                                         *)
(* Each action is one message of the canister or one of the ledger.  A run *)
(* of the payload is cut at its two awaits, the transfer to the buyer and  *)
(* the transfer of the profit fee; `at' says which answer a run awaits.    *)
(* Of the WAL row only what decides a retry is kept: Wal models the rest.  *)
(***************************************************************************)
EXTENDS Naturals, FiniteSets, Functions, CkbtcLedger

CONSTANTS
  Options, Users,
  Writer, Buyer,      \* Options -> Users
  Quantity, Strike,   \* Options -> Nat: collateral in sats, strike in cents
  Prices,             \* settlement prices the oracle may answer, in cents
  ProfitFeeBps,       \* profit_fee_basis_points of the options
  Available0,         \* Users -> Nat: available balances to begin with
  Fees                \* transfer fees the ledger may charge

VARIABLES
  expired,     \* options whose expiry has passed
  option,      \* status of each active option
  journal,     \* PendingSettlement rows: phase and the two payouts
  wal,         \* status of the row with the option's operation id
  quoted,      \* transfer_fee_sats of the WAL payload
  age,         \* age of created_at_time_ns of the WAL payload
  at,          \* the answer the running attempt awaits, "idle" if none runs
  reply,       \* that answer, once it is there
  net,         \* requests on their way to the ledger
  executed,    \* requests the ledger has executed
  ledgerFee, funds,          \* the ledger: its fee, the users' subaccounts
  available, locked,         \* the balances of the canister
  earned                     \* platform fees recorded

records == <<option, journal, wal, quoted>>
books == <<available, locked, earned>>
ledger == <<net, executed, ledgerFee, funds>>
vars == <<expired, records, age, at, reply, ledger, books>>

Transfers == {"buyer", "fee"}
OptionStatuses == {"Active", "Settling", "Settled", "Expired"}
Phases == {"None", "Started", "TransferComplete", "BalanceReleased",
           "ProfitFeeCollected", "WriterPayoutReleased", "Failed"}
WalStatuses == {"Absent", "InFlight", "RetryRequired", "RecoveryRequired",
                "Succeeded", "FailedPermanent"}
NoEntry == [phase |-> "None", toBuyer |-> 0, toWriter |-> 0]

-----------------------------------------------------------------------------
(* Prices and fees.  A buyer's payout is the share of the quantity by      *)
(* which the price exceeds the strike; the platform takes its part of it.  *)
Payout(o, price) ==
  IF price <= Strike[o] THEN 0
  ELSE (Quantity[o] * (price - Strike[o])) \div price

ProfitFee(payout) == (payout * ProfitFeeBps) \div 10000

(* A writer's remainder always covers the two transfer fees: the smallest  *)
(* quantity is 40000 sats, so only a price 2000 times the strike leaves    *)
(* less than 20.                                                           *)
ASSUME SettlementAssumption ==
  /\ Writer \in [Options -> Users] /\ Buyer \in [Options -> Users]
  /\ Quantity \in [Options -> Nat] /\ Strike \in [Options -> Nat]
  /\ Prices \subseteq Nat \ {0} /\ Fees \subseteq Nat /\ Fees # {}
  /\ ProfitFeeBps \in 0 .. 10000
  /\ Available0 \in [Users -> Nat]
  /\ IsFiniteSet(Options)
  /\ \A o \in Options, p \in Prices, f \in Fees :
       Payout(o, p) > 0 => Payout(o, p) + 2 * f <= Quantity[o]

(* What one run of the payload works on: the option's status, its journal  *)
(* entry and the fee of the WAL payload.                                   *)
Job(o) == [status |-> option[o], entry |-> journal[o], fee |-> quoted[o]]

(* What run_settlement_wal computes from them.                             *)
ToBuyer(j) == j.entry.toBuyer
Profit(o, j) == (Quantity[o] - j.entry.toWriter) - j.entry.toBuyer
Amount(o, j, t) == IF t = "buyer" THEN ToBuyer(j) ELSE Profit(o, j)
TransferFees(o, j) ==
  j.fee * Cardinality({t \in Transfers : Amount(o, j, t) > 0})
(* Fault: the transfer fees are not taken off what the writer gets back.   *)
ToWriterBeforeFees(o, j) == j.entry.toWriter

ToWriter(o, j) ==
  IF j.entry.toWriter < TransferFees(o, j) THEN 0
  ELSE j.entry.toWriter - TransferFees(o, j)

-----------------------------------------------------------------------------
WrittenBy(u) == {o \in Options : Writer[o] = u}
BoughtBy(u) == {o \in Options : Buyer[o] = u}

Init ==
  /\ expired = {}
  /\ option = [o \in Options |-> "Active"]
  /\ journal = [o \in Options |-> NoEntry]
  /\ wal = [o \in Options |-> "Absent"]
  /\ quoted = [o \in Options |-> 0]
  /\ age = [o \in Options |-> Young]
  /\ at = [o \in Options |-> "idle"]
  /\ reply = [o \in Options |-> "none"]
  /\ net = {} /\ executed = {}
  /\ ledgerFee \in Fees
  /\ available = Available0
  /\ locked = [u \in Users |-> SumFunctionOnSet(Quantity, WrittenBy(u))]
  /\ funds = [u \in Users |-> available[u] + locked[u]]
  /\ earned = 0

-----------------------------------------------------------------------------
(* The stages of run_settlement_wal between its awaits.  A run carries     *)
(* what it may change; `at' is "run" while it goes on, else how it ended.  *)
Run(j) == [at |-> "run", phase |-> j.entry.phase,
           available |-> available, locked |-> locked, earned |-> earned]

Credit(balances, u, amount) == [balances EXCEPT ![u] = @ + amount]
Debit(balances, u, amount) == [balances EXCEPT ![u] = @ - amount]

Stop(s, how) == [s EXCEPT !.at = how]
Reach(s, phase, avail, lock) ==
  [at |-> s.at, phase |-> phase, available |-> avail, locked |-> lock,
   earned |-> s.earned]

(* A stage is passed over unless the run has reached one of its phases; a  *)
(* balance that does not cover it fails the run for good.                  *)
Stage(s, phases, covered, after) ==
  IF s.at # "run" \/ s.phase \notin phases THEN s
  ELSE IF covered THEN after ELSE Stop(s, "permanent")

PayBuyer(j, s) == Stage(s, {"Started"}, TRUE,
                        IF ToBuyer(j) > 0 THEN Stop(s, "buyer") ELSE s)

(* Fault: a retry of the fee releases the buyer's payout again.            *)
ReleaseAgain(o, j, s) ==
  Stage(s, {"Started", "TransferComplete", "BalanceReleased"},
    ToBuyer(j) <= s.locked[Writer[o]],
    Reach(s, "BalanceReleased",
          Credit(s.available, Buyer[o], ToBuyer(j)),
          Debit(s.locked, Writer[o], ToBuyer(j))))

ReleaseToBuyer(o, j, s) ==
  Stage(s, {"Started", "TransferComplete"},
    ToBuyer(j) <= s.locked[Writer[o]],
    Reach(s, "BalanceReleased",
          Credit(s.available, Buyer[o], ToBuyer(j)),
          Debit(s.locked, Writer[o], ToBuyer(j))))

PayProfitFee(o, j, s) ==
  Stage(s, {"BalanceReleased"}, TRUE,
        IF Profit(o, j) > 0 THEN Stop(s, "fee") ELSE s)

(* Once that transfer is done the fee is recorded, and then taken from the *)
(* collateral: it stays recorded when the collateral does not cover it.    *)
CollectProfitFee(o, j, s) ==
  LET r == [s EXCEPT !.earned = @ + Profit(o, j)] IN
  Stage(r, {"BalanceReleased"}, Profit(o, j) <= r.locked[Writer[o]],
        Reach(r, r.phase, r.available, Debit(r.locked, Writer[o], Profit(o, j))))

(* Fault: the fees the ledger took are not charged to the writer.          *)
FreeTransfers(o, j, s) ==
  Stage(s, {"BalanceReleased"}, TRUE, [s EXCEPT !.phase = "ProfitFeeCollected"])

(* deduct_writer_transfer_fees: from the locked balance first.             *)
ChargeTransferFees(o, j, s) ==
  LET w == Writer[o]
      fees == TransferFees(o, j)
      fromLocked == IF s.locked[w] < fees THEN s.locked[w] ELSE fees
  IN Stage(s, {"BalanceReleased"}, fees <= s.locked[w] + s.available[w],
       Reach(s, "ProfitFeeCollected",
             Debit(s.available, w, fees - fromLocked),
             Debit(s.locked, w, fromLocked)))

UnlockRest(o, j, s) ==
  Stage(s, {"ProfitFeeCollected"}, ToWriter(o, j) <= s.locked[Writer[o]],
    Reach(s, "WriterPayoutReleased",
          Credit(s.available, Writer[o], ToWriter(o, j)),
          Debit(s.locked, Writer[o], ToWriter(o, j))))

Complete(s) ==
  IF s.at # "run" THEN s
  ELSE Stop(s, IF s.phase = "WriterPayoutReleased" THEN "done" ELSE "permanent")

(* The rest of a run after the transfer of the fee, after the transfer to  *)
(* the buyer, and from its beginning: an option already settled returns at *)
(* once, one without a journal entry fails.                                *)
AfterFee(o, j, s) == Complete(UnlockRest(o, j, ChargeTransferFees(o, j, s)))

AfterBuyer(o, j, s) ==
  AfterFee(o, j, PayProfitFee(o, j, ReleaseToBuyer(o, j, s)))

FromStart(o, j) ==
  IF j.status = "Settled" THEN Stop(Run(j), "done")
  ELSE AfterBuyer(o, j, PayBuyer(j, Run(j)))

BuyerPaid(o, j) ==
  AfterBuyer(o, j, [Run(j) EXCEPT !.phase = "TransferComplete"])

FeePaid(o, j) == AfterFee(o, j, CollectProfitFee(o, j, Run(j)))

(* Fault: a failed settlement leaves its option Settling.                  *)
FailedEntryOnly(j) ==
  IF j.entry.phase = "None" THEN j ELSE [j EXCEPT !.entry.phase = "Failed"]

(* finalize_failed_settlement_wal: the first permanent failure marks the   *)
(* entry Failed and the option Expired, later ones find it so.             *)
FailedJob(j) ==
  IF j.entry.phase \in {"None", "Failed"} THEN j
  ELSE [j EXCEPT !.entry.phase = "Failed",
                 !.status = IF @ = "Settling" THEN "Expired" ELSE @]

(* What a run that ended leaves of its job.                                *)
JobAfter(j, s) ==
  LET k == [j EXCEPT !.entry.phase = s.phase] IN
  IF s.at = "done" THEN [j EXCEPT !.status = "Settled", !.entry = NoEntry]
  ELSE IF s.at = "permanent" THEN FailedJob(k) ELSE k

WalAfter(s) ==
  IF s.at = "done" THEN "Succeeded"
  ELSE IF s.at = "permanent" THEN "FailedPermanent" ELSE "InFlight"

(* A message in which the run of job j came to s: it sent the next request *)
(* or the executor wrote the result of the attempt.                        *)
Conclude(o, j, s) ==
  LET k == JobAfter(j, s)
      sent == s.at \in Transfers
  IN
  /\ available' = s.available /\ locked' = s.locked /\ earned' = s.earned
  /\ option' = [option EXCEPT ![o] = k.status]
  /\ journal' = [journal EXCEPT ![o] = k.entry]
  /\ quoted' = [quoted EXCEPT ![o] = k.fee]
  /\ wal' = [wal EXCEPT ![o] = WalAfter(s)]
  /\ at' = [at EXCEPT ![o] = IF sent THEN s.at ELSE "idle"]
  /\ reply' = [reply EXCEPT ![o] = "none"]
  /\ net' = IF sent THEN net \cup {<<o, s.at>>} ELSE net
  /\ UNCHANGED <<expired, executed, ledgerFee, funds>>

-----------------------------------------------------------------------------
Expire(o) ==
  /\ o \notin expired
  /\ expired' = expired \cup {o}
  /\ UNCHANGED <<records, age, at, reply, ledger, books>>

(* prepare_settlement_execution and the first segment of the attempt, in   *)
(* the message that brought a caller (the timer, or settle_option_by_id)   *)
(* its price: several callers may have asked, and been given other prices, *)
(* and the option's status is read only now.  The lock of SettlementLock   *)
(* adds nothing to that check.  The fee is the cached one or the default:  *)
(* whatever the ledger once charged.                                       *)
Settle(o, price, fee) ==
  LET payout == Payout(o, price)
      entry == [phase |-> "Started", toBuyer |-> payout - ProfitFee(payout),
                toWriter |-> Quantity[o] - payout]
      j == [status |-> "Settling", entry |-> entry,
            fee |-> IF payout > 0 THEN fee ELSE 0]
  IN
  /\ o \in expired
  /\ option[o] = "Active"
  /\ age' = [age EXCEPT ![o] = Young]
  /\ Conclude(o, j, FromStart(o, j))

(* execute_wal_entry_now of a row that exists and did not succeed: by the  *)
(* maintenance timer when it is due, or by an operator whenever he likes.  *)
Attempt(o) ==
  /\ at[o] = "idle"
  /\ Conclude(o, Job(o), FromStart(o, Job(o)))
  /\ UNCHANGED age

Retry(o) == wal[o] = "RetryRequired" /\ age[o] = Young /\ Attempt(o)

Recover(o) == wal[o] \notin {"Absent", "Succeeded"} /\ Attempt(o)

(* The answer to a transfer: the run goes on, or the transfer was refused  *)
(* for good (register_retryable_error finds no retryable pattern).         *)
Resume(o) ==
  LET j == Job(o) IN
  /\ at[o] # "idle" /\ reply[o] # "none"
  /\ \/ reply[o] = "rejected" /\ Conclude(o, j, Stop(Run(j), "permanent"))
     \/ reply[o] = "ok" /\ at[o] = "buyer" /\ Conclude(o, j, BuyerPaid(o, j))
     \/ reply[o] = "ok" /\ at[o] = "fee" /\ Conclude(o, j, FeePaid(o, j))
  /\ UNCHANGED age

(* The bounded wait ends without an answer, or the ledger was unavailable: *)
(* a retryable error, queued again unless the attempts are used up.        *)
Fails(o) ==
  /\ at[o] # "idle"
  /\ \E status \in {"RetryRequired", "RecoveryRequired"} :
       wal' = [wal EXCEPT ![o] = status]
  /\ at' = [at EXCEPT ![o] = "idle"]
  /\ reply' = [reply EXCEPT ![o] = "none"]
  /\ UNCHANGED <<expired, option, journal, quoted, age, ledger, books>>

(* The resumed message traps, or the canister is upgraded: the run is gone *)
(* and the row stays InFlight.                                             *)
Interrupt(o) ==
  /\ at[o] # "idle"
  /\ at' = [at EXCEPT ![o] = "idle"]
  /\ reply' = [reply EXCEPT ![o] = "none"]
  /\ UNCHANGED <<expired, records, age, ledger, books>>

-----------------------------------------------------------------------------
(* One scan of the maintenance timer, on one row.  A stale InFlight row is *)
(* queued again, also under an attempt that takes too long; what has used  *)
(* up its attempts, or is too old, is left to the operator.                *)
PromoteStale(o) ==
  /\ wal[o] = "InFlight" /\ age[o] = Young
  /\ \E status \in {"RetryRequired", "RecoveryRequired"} :
       wal' = [wal EXCEPT ![o] = status]
  /\ UNCHANGED <<expired, option, journal, quoted, age, at, reply, ledger,
                 books>>

(* Fault: a stale row that is too old is passed over.                      *)
GiveUpQueued(o) ==
  /\ wal[o] = "RetryRequired" /\ age[o] # Young
  /\ wal' = [wal EXCEPT ![o] = "RecoveryRequired"]
  /\ UNCHANGED <<expired, option, journal, quoted, age, at, reply, ledger,
                 books>>

GiveUp(o) ==
  /\ wal[o] \in {"InFlight", "RetryRequired"} /\ age[o] # Young
  /\ wal' = [wal EXCEPT ![o] = "RecoveryRequired"]
  /\ UNCHANGED <<expired, option, journal, quoted, age, at, reply, ledger,
                 books>>

(* The daily timer removes the row of a success.                           *)
Cleanup(o) ==
  /\ wal[o] = "Succeeded"
  /\ wal' = [wal EXCEPT ![o] = "Absent"]
  /\ UNCHANGED <<expired, option, journal, quoted, age, at, reply, ledger,
                 books>>

Grow(o) ==
  /\ wal[o] \notin {"Absent", "Succeeded"} /\ age[o] < Expired
  /\ age' = [age EXCEPT ![o] = @ + 1]
  /\ UNCHANGED <<expired, records, at, reply, ledger, books>>

-----------------------------------------------------------------------------
(* The ledger executes a request, sooner or later; one it never executes   *)
(* was lost on the way.                                                    *)
LedgerExecutes(o, t) ==
  LET w == Writer[o]
      amount == Amount(o, Job(o), t)
      verdict == Verdict(<<o, t>> \in executed, age[o], quoted[o], ledgerFee,
                         funds[w], amount)
  IN
  /\ <<o, t>> \in net
  /\ net' = net \ {<<o, t>>}
  /\ \/ /\ verdict = "applied"
        /\ executed' = executed \cup {<<o, t>>}
        /\ funds' = [u \in Users |->
             (funds[u] + (IF t = "buyer" /\ u = Buyer[o] THEN amount
                                                         ELSE 0))
               - (IF u = w THEN amount + quoted[o] ELSE 0)]
     \/ verdict # "applied" /\ UNCHANGED <<executed, funds>>
  /\ reply' = IF at[o] # t THEN reply
              ELSE [reply EXCEPT ![o] =
                      IF verdict = "rejected" THEN "rejected" ELSE "ok"]
  /\ UNCHANGED <<expired, records, age, at, ledgerFee, books>>

FeeChange ==
  /\ ledgerFee' \in Fees \ {ledgerFee}
  /\ UNCHANGED <<expired, records, age, at, reply, net, executed, funds, books>>

OptionStep(o) ==
  \/ Expire(o) \/ Retry(o) \/ Recover(o) \/ Resume(o) \/ Fails(o)
  \/ Interrupt(o) \/ PromoteStale(o) \/ GiveUp(o) \/ Cleanup(o) \/ Grow(o)
  \/ \E price \in Prices, fee \in Fees : Settle(o, price, fee)
  \/ \E t \in Transfers : LedgerExecutes(o, t)

Next == FeeChange \/ \E o \in Options : OptionStep(o)

Spec == Init /\ [][Next]_vars

(* Every message is answered or times out, timers fire, time goes on, and  *)
(* the oracle has a price; nothing obliges an operator to act.             *)
Fairness ==
  \A o \in Options :
    /\ WF_vars(Expire(o))
    /\ WF_vars(\E price \in Prices, fee \in Fees : Settle(o, price, fee))
    /\ WF_vars(Resume(o) \/ Fails(o))
    /\ WF_vars(PromoteStale(o)) /\ WF_vars(Retry(o)) /\ WF_vars(GiveUp(o))
    /\ WF_vars(Grow(o))

FairSpec == Spec /\ Fairness

-----------------------------------------------------------------------------
TypeOK ==
  /\ expired \subseteq Options
  /\ option \in [Options -> OptionStatuses]
  /\ journal \in [Options -> [phase : Phases, toBuyer : Nat, toWriter : Nat]]
  /\ wal \in [Options -> WalStatuses]
  /\ quoted \in [Options -> Nat]
  /\ age \in [Options -> Ages]
  /\ at \in [Options -> Transfers \cup {"idle"}]
  /\ reply \in [Options -> {"none", "ok", "rejected"}]
  /\ net \subseteq Options \X Transfers /\ executed \subseteq Options \X Transfers
  /\ ledgerFee \in Fees
  /\ funds \in [Users -> Nat]
  /\ available \in [Users -> Nat] /\ locked \in [Users -> Nat]
  /\ earned \in Nat

(* The three records of a settlement tell the same story after every       *)
(* message: an option is Settling exactly while an unfinished journal      *)
(* entry exists and its WAL row can still run, is Expired exactly when     *)
(* both have failed for good, and a Settled one leaves no entry behind.    *)
RecordsAgree ==
  \A o \in Options :
    /\ option[o] = "Active" <=> wal[o] = "Absent" /\ option[o] # "Settled"
    /\ option[o] = "Settling" <=>
         wal[o] \in {"InFlight", "RetryRequired", "RecoveryRequired"}
    /\ option[o] = "Settling" <=>
         journal[o].phase \in {"Started", "BalanceReleased"}
    /\ option[o] = "Expired" <=> journal[o].phase = "Failed"
    /\ option[o] = "Expired" <=> wal[o] = "FailedPermanent"
    /\ at[o] # "idle" => option[o] = "Settling"

(* Whoever asked for the price, and however often the payload is run: the  *)
(* payouts and the fee an option was first settled with stay as they are.  *)
TermsFixed ==
  [][\A o \in Options :
       (journal[o].phase # "None" /\ journal'[o].phase # "None") =>
         /\ journal'[o].toBuyer = journal[o].toBuyer
         /\ journal'[o].toWriter = journal[o].toWriter
         /\ quoted'[o] = quoted[o]]_vars

(* Collateral an option still has a claim on.                              *)
Held(o) ==
  IF option[o] = "Settled" THEN 0
  ELSE IF journal[o].phase = "BalanceReleased" THEN Quantity[o] - ToBuyer(Job(o))
  ELSE Quantity[o]

(* Every option that can still be settled is covered: the writer's locked  *)
(* balance holds what all his open options have a claim on, to the satoshi *)
(* unless a failed settlement has left collateral behind.                  *)
CollateralIsKept ==
  \A u \in Users :
    LET failed == {o \in WrittenBy(u) : option[o] = "Expired"}
        held == SumFunctionOnSet([o \in Options |-> Held(o)],
                                 WrittenBy(u) \ failed)
    IN  held <= locked[u] /\ (failed = {} => held = locked[u])

(* What a transfer of a settlement in progress has moved on the ledger and *)
(* the balances do not show yet.                                           *)
Unbooked(o, t) ==
  IF t = "buyer" /\ journal[o].phase = "BalanceReleased" THEN 0
  ELSE Amount(o, Job(o), t)

Left(o, t) == IF <<o, t>> \in executed THEN quoted[o] + Unbooked(o, t) ELSE 0
Leaving(o) == Left(o, "buyer") + Left(o, "fee")

Arriving(o) == IF <<o, "buyer">> \in executed THEN Unbooked(o, "buyer") ELSE 0

(* The canister's balances are what the ledger holds for the user, up to   *)
(* the transfers of settlements in progress: lost answers, retries, traps  *)
(* and price races neither lose nor create a satoshi.                      *)
BooksMatchLedger ==
  \A u \in Users :
    LET Settling(S) == {o \in S : option[o] = "Settling"}
        leaving == SumFunctionOnSet([o \in Options |-> Leaving(o)],
                                    Settling(WrittenBy(u)))
        arriving == SumFunctionOnSet([o \in Options |-> Arriving(o)],
                                     Settling(BoughtBy(u)))
    IN
    (\A o \in WrittenBy(u) \cup BoughtBy(u) : option[o] # "Expired") =>
       funds[u] + leaving = available[u] + locked[u] + arriving

(* The settlement divides each collateral as OptionPayout promises.        *)
StageOf(o) ==
  IF option[o] = "Settled" THEN "closed"
  ELSE IF option[o] = "Expired" THEN "abandoned"
  ELSE IF journal[o].phase = "Started" THEN "agreed"
  ELSE IF journal[o].phase = "BalanceReleased" THEN "paid" ELSE "open"

Promise == INSTANCE OptionPayout WITH
  stage <- [o \in Options |-> StageOf(o)],
  deal <- [o \in Options |->
    IF option[o] # "Settling"
    THEN [buyer |-> 0, platform |-> 0, charge |-> 0, writer |-> 0]
    ELSE LET j == Job(o) IN
         [buyer |-> ToBuyer(j), platform |-> Profit(o, j),
          charge |-> TransferFees(o, j), writer |-> ToWriter(o, j)]]

PayoutKeepsItsPromise == Promise!Spec

(* No settlement is forgotten: once an option has expired it is settled,   *)
(* given up, or waits for the operator.                                    *)
ComesToRest(o) ==
  o \in expired ~> \/ option[o] \in {"Settled", "Expired"}
                  \/ wal[o] = "RecoveryRequired"
EverySettlementComesToRest == \A o \in Options : ComesToRest(o)

(* The docs say an expired option shows "Now settling..." until the payout *)
(* completes, and that every option settles automatically.                 *)
SettlingEndsInPayout ==
  [][\A o \in Options :
       option[o] = "Settling" => option'[o] \in {"Settling", "Settled"}]_vars
=============================================================================
