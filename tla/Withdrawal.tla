---------------------------- MODULE Withdrawal ----------------------------
(***************************************************************************)
(* Withdrawals of ckBTC to the Bitcoin network                             *)
(* (usecases/balances/withdraw_ckbtc.rs): the use case that debits the     *)
(* user and creates the journal entry and the WAL row, the payload that    *)
(* approves the minter on the ledger and then asks it to retrieve, the     *)
(* refund of a withdrawal that failed, and the operator's re-execution.    *)
(*                                                                         *)
(* The ledger deduplicates approvals; the minter deduplicates nothing, a   *)
(* second request is only stopped by the allowance the first one used up.  *)
(* Each action is one message of the canister, the ledger or the minter.   *)
(***************************************************************************)
EXTENDS Naturals, FiniteSets, FiniteSetsExt, CkbtcLedger

CONSTANTS
  Users, Withdrawals,
  Owner,          \* Withdrawals -> Users
  Amounts,        \* gross amounts a user may ask for
  MinNet,         \* trading limit withdraw_amount_sats
  Available0,     \* Users -> Nat: available balances to begin with
  Fees            \* fees the ledger may charge

ASSUME WithdrawalAssumption ==
  /\ Owner \in [Withdrawals -> Users]
  /\ Available0 \in [Users -> Nat]
  /\ Amounts \subseteq Nat /\ MinNet \in Nat
  /\ Fees \subseteq Nat /\ Fees # {}

VARIABLES
  phase,       \* phase of the PendingWithdrawal row, "None" without a row
  wal,         \* status of the withdrawal's WAL row
  order,       \* its payload: the amount debited and the amount to send
  age,         \* age of the payload's created_at_time_ns
  at,          \* the call the running attempt awaits, "idle" if none runs
  reply,       \* its answer, once it is there
  net,         \* calls on their way
  approved,    \* withdrawals whose approval the ledger has executed
  sent,        \* how often the minter has sent a withdrawal's bitcoins
  unheard,     \* calls whose success the canister has not learnt of
  ledgerFee, funds, allowance,   \* the ledger, per user's subaccount
  available                      \* balances of the canister

records == <<phase, wal, order>>
effects == <<approved, sent, unheard, ledgerFee, funds, allowance>>
vars == <<records, age, at, reply, net, effects, available>>

Calls == {"approve", "retrieve"}
Phases == {"None", "Started", "Approved", "Failed"}
WalStatuses == {"Absent", "InFlight", "RecoveryRequired", "Succeeded",
                "FailedPermanent"}
NoOrder == [gross |-> 0, net |-> 1]   \* no payload: none sends more than it debits

Pending(w) == phase[w] \in {"Started", "Approved"}

(* The fee the gross amount reserves, and the approval names.              *)
Reserved(w) == order[w].gross - order[w].net

Init ==
  /\ phase = [w \in Withdrawals |-> "None"]
  /\ wal = [w \in Withdrawals |-> "Absent"]
  /\ order = [w \in Withdrawals |-> NoOrder]
  /\ age = [w \in Withdrawals |-> Young]
  /\ at = [w \in Withdrawals |-> "idle"]
  /\ reply = [w \in Withdrawals |-> "none"]
  /\ net = {} /\ approved = {} /\ unheard = {}
  /\ sent = [w \in Withdrawals |-> 0]
  /\ ledgerFee \in Fees
  /\ funds = Available0
  /\ allowance = [u \in Users |-> 0]
  /\ available = Available0

-----------------------------------------------------------------------------
(* The attempt sends its next call.                                        *)
Send(w, call) ==
  /\ wal' = [wal EXCEPT ![w] = "InFlight"]
  /\ at' = [at EXCEPT ![w] = call]
  /\ reply' = [reply EXCEPT ![w] = "none"]
  /\ net' = net \cup {<<w, call>>}

(* The attempt ends, and the executor writes its result.                   *)
End(w, status) ==
  /\ wal' = [wal EXCEPT ![w] = status]
  /\ at' = [at EXCEPT ![w] = "idle"]
  /\ reply' = [reply EXCEPT ![w] = "none"]
  /\ UNCHANGED net

(* Fault: the fee of the approval is refunded too.                         *)
RefundGross(w) == order[w].gross

(* finalize_failed_withdrawal_wal: the gross amount goes back to the user, *)
(* less the approval's fee once the approval is known to have happened.    *)
Refund(w) ==
  IF phase[w] = "Started" THEN order[w].gross
  ELSE order[w].gross - Reserved(w)

(* Fault: the withdrawal that was refunded is not marked as failed.        *)
FinalizeUnmarked(w) ==
  /\ available' = IF Pending(w) THEN [available EXCEPT ![Owner[w]] = @ + Refund(w)]
                  ELSE available
  /\ UNCHANGED phase

Finalize(w) ==
  IF Pending(w)
  THEN /\ available' = [available EXCEPT ![Owner[w]] = @ + Refund(w)]
       /\ phase' = [phase EXCEPT ![w] = "Failed"]
  ELSE UNCHANGED <<available, phase>>

-----------------------------------------------------------------------------
(* withdraw_ckbtc_use_case and the first segment of its attempt.  The      *)
(* cached fee may be up to 90 seconds old, hence a fee once charged.       *)
Withdraw(w, amount, fee) ==
  LET u == Owner[w] IN
  /\ order[w] = NoOrder
  /\ fee + MinNet <= amount /\ amount <= available[u]
  /\ \A x \in Withdrawals : Owner[x] = u => ~Pending(x)
  /\ available' = [available EXCEPT ![u] = @ - amount]
  /\ phase' = [phase EXCEPT ![w] = "Started"]
  /\ order' = [order EXCEPT ![w] = [gross |-> amount, net |-> amount - fee]]
  /\ Send(w, "approve")
  /\ UNCHANGED <<age, effects>>

(* recover_wal_operation: the payload starts over from the phase of the    *)
(* journal; no timer ever runs a withdrawal.                               *)
Recover(w) ==
  /\ wal[w] \notin {"Absent", "Succeeded"} /\ at[w] = "idle"
  /\ \/ phase[w] = "Started" /\ Send(w, "approve")
                             /\ UNCHANGED <<phase, available>>
     \/ phase[w] = "Approved" /\ Send(w, "retrieve")
                              /\ UNCHANGED <<phase, available>>
     \/ ~Pending(w) /\ End(w, "FailedPermanent") /\ Finalize(w)
  /\ UNCHANGED <<order, age, effects>>

(* The answers to the two calls.                                           *)
Approved(w) ==
  /\ at[w] = "approve" /\ reply[w] = "ok"
  /\ phase' = [phase EXCEPT ![w] = "Approved"]
  /\ Send(w, "retrieve")
  /\ unheard' = unheard \ {<<w, "approve">>}
  /\ UNCHANGED <<order, age, approved, sent, ledgerFee, funds, allowance,
                 available>>

Retrieved(w) ==
  /\ at[w] = "retrieve" /\ reply[w] = "ok"
  /\ phase' = [phase EXCEPT ![w] = "None"]
  /\ End(w, "Succeeded")
  /\ unheard' = unheard \ {<<w, "retrieve">>}
  /\ UNCHANGED <<order, age, approved, sent, ledgerFee, funds, allowance,
                 available>>

Refused(w) ==
  /\ at[w] # "idle" /\ reply[w] = "rejected"
  /\ End(w, "FailedPermanent") /\ Finalize(w)
  /\ UNCHANGED <<order, age, effects>>

(* The bounded wait ends without an answer, the callee is unavailable, or  *)
(* the minter is still at work on an earlier request of the account: a     *)
(* withdrawal is never retried unattended.                                 *)
Fails(w) ==
  /\ at[w] # "idle"
  /\ End(w, "RecoveryRequired")
  /\ UNCHANGED <<phase, order, age, effects, available>>

(* A trap of the resumed message, or an upgrade.                           *)
Interrupt(w) ==
  /\ at[w] # "idle"
  /\ End(w, wal[w])
  /\ UNCHANGED <<phase, order, age, effects, available>>

(* Fault: only a running attempt's row can go stale.                       *)
PromoteStaleRunning(w) ==
  /\ wal[w] = "InFlight" /\ at[w] # "idle"
  /\ wal' = [wal EXCEPT ![w] = "RecoveryRequired"]
  /\ UNCHANGED <<phase, order, age, at, reply, net, effects, available>>

(* The maintenance timer, the daily timer, and the passing of time.        *)
PromoteStale(w) ==
  /\ wal[w] = "InFlight"
  /\ wal' = [wal EXCEPT ![w] = "RecoveryRequired"]
  /\ UNCHANGED <<phase, order, age, at, reply, net, effects, available>>

Cleanup(w) ==
  /\ wal[w] = "Succeeded"
  /\ wal' = [wal EXCEPT ![w] = "Absent"]
  /\ UNCHANGED <<phase, order, age, at, reply, net, effects, available>>

Grow(w) ==
  /\ Pending(w) /\ age[w] < Expired
  /\ age' = [age EXCEPT ![w] = @ + 1]
  /\ UNCHANGED <<records, at, reply, net, effects, available>>

-----------------------------------------------------------------------------
(* The ledger and the minter execute a call, sooner or later; one they     *)
(* never execute was lost on the way.                                      *)
Deliver(w, call, effective, answer) ==
  /\ <<w, call>> \in net
  /\ net' = net \ {<<w, call>>}
  /\ unheard' = IF effective THEN unheard \cup {<<w, call>>} ELSE unheard
  /\ reply' = IF at[w] = call THEN [reply EXCEPT ![w] = answer] ELSE reply
  /\ UNCHANGED <<records, age, at, ledgerFee, available>>

(* Fault: the minter is approved for more than this withdrawal.            *)
WideAllowance(w) == 2 * order[w].net

(* The amount of the approval.                                             *)
Allowance(w) == order[w].net

LedgerApproves(w) ==
  LET u == Owner[w]
      verdict == Verdict(w \in approved, age[w], Reserved(w), ledgerFee,
                         funds[u], 0)
      applied == verdict = "applied"
  IN
  /\ Deliver(w, "approve", applied,
             IF verdict = "rejected" THEN "rejected" ELSE "ok")
  /\ approved' = IF applied THEN approved \cup {w} ELSE approved
  /\ funds' = [funds EXCEPT ![u] = IF applied THEN @ - Reserved(w) ELSE @]
  /\ allowance' = [allowance EXCEPT ![u] = IF applied THEN Allowance(w) ELSE @]
  /\ UNCHANGED sent

(* The minter burns the amount from the user's subaccount, within the      *)
(* allowance, and sends the bitcoins, unless it cannot send them (the      *)
(* address is malformed, the amount too low; zero always is).              *)
MinterRetrieves(w) ==
  LET u == Owner[w]
      amount == order[w].net
  IN
  \E able \in BOOLEAN :
    LET done == able /\ amount \in 1 .. allowance[u] /\ amount <= funds[u]
        burnt == IF done THEN amount ELSE 0
    IN
    /\ Deliver(w, "retrieve", done, IF done THEN "ok" ELSE "rejected")
    /\ funds' = [funds EXCEPT ![u] = @ - burnt]
    /\ allowance' = [allowance EXCEPT ![u] = @ - burnt]
    /\ sent' = [sent EXCEPT ![w] = IF done THEN @ + 1 ELSE @]
    /\ UNCHANGED approved

FeeChange ==
  /\ ledgerFee' \in Fees \ {ledgerFee}
  /\ UNCHANGED <<records, age, at, reply, net, approved, sent, unheard, funds,
                 allowance, available>>

Next ==
  \/ FeeChange
  \/ \E w \in Withdrawals :
       \/ Recover(w) \/ Approved(w) \/ Retrieved(w) \/ Refused(w) \/ Fails(w)
       \/ Interrupt(w) \/ PromoteStale(w) \/ Cleanup(w) \/ Grow(w)
       \/ LedgerApproves(w) \/ MinterRetrieves(w)
       \/ \E amount \in Amounts, fee \in Fees : Withdraw(w, amount, fee)

Spec == Init /\ [][Next]_vars

(* Every call is answered or times out, and the maintenance timer fires.   *)
Fairness ==
  \A w \in Withdrawals :
    /\ WF_vars(Approved(w) \/ Retrieved(w) \/ Refused(w) \/ Fails(w))
    /\ WF_vars(PromoteStale(w))

FairSpec == Spec /\ Fairness

-----------------------------------------------------------------------------
TypeOK ==
  /\ phase \in [Withdrawals -> Phases]
  /\ wal \in [Withdrawals -> WalStatuses]
  /\ order \in [Withdrawals -> [gross : Nat, net : Nat]]
  /\ age \in [Withdrawals -> Ages]
  /\ at \in [Withdrawals -> Calls \cup {"idle"}]
  /\ reply \in [Withdrawals -> {"none", "ok", "rejected"}]
  /\ net \subseteq Withdrawals \X Calls /\ unheard \subseteq Withdrawals \X Calls
  /\ approved \subseteq Withdrawals
  /\ sent \in [Withdrawals -> Nat]
  /\ ledgerFee \in Fees
  /\ funds \in [Users -> Nat] /\ allowance \in [Users -> Nat]
  /\ available \in [Users -> Nat]

(* The two records of a withdrawal agree: a journal entry is unfinished    *)
(* exactly while the WAL row may still run, and marked Failed exactly when *)
(* the row has failed for good, so every status a user can ask for finds   *)
(* the entry it needs.                                                     *)
RecordsAgree ==
  \A w \in Withdrawals :
    /\ Pending(w) <=> wal[w] \in {"InFlight", "RecoveryRequired"}
    /\ phase[w] = "Failed" <=> wal[w] = "FailedPermanent"
    /\ at[w] = "approve" => phase[w] = "Started"
    /\ at[w] = "retrieve" => phase[w] = "Approved"

Of(u) == {w \in Withdrawals : Owner[w] = u}

(* What the ledger no longer holds of a pending withdrawal's amount.       *)
Gone(w) ==
  (IF w \in approved THEN Reserved(w) ELSE 0) + sent[w] * order[w].net

(* When no failed withdrawal of a user has an effect the canister never    *)
(* heard of, his available balance is the ledger's balance less what his   *)
(* pending withdrawals still have to spend: nothing is refunded twice,     *)
(* refunded and sent, or charged without a withdrawal.                     *)
RefundsMatchLedger ==
  \A u \in Users :
    (\A w \in Of(u), c \in Calls : <<w, c>> \in unheard => phase[w] # "Failed")
      => funds[u] + MapThenSumSet(Gone, {w \in Of(u) : Pending(w)})
           = available[u]
               + MapThenSumSet(LAMBDA w : order[w].gross,
                               {w \in Of(u) : Pending(w)})

(* The allowance lets no withdrawal leave twice.                           *)
SentAtMostOnce == \A w \in Withdrawals : sent[w] <= 1

(* A withdrawal is never left hanging: it ends, or waits for an operator.  *)
EveryWithdrawalComesToRest ==
  \A w \in Withdrawals :
    Pending(w) ~> (~Pending(w) \/ wal[w] = "RecoveryRequired")

(* The docs define the available balance as the bitcoins a user can spend  *)
(* right now: the ledger has them.                                         *)
AvailableIsSpendable == \A u \in Users : available[u] <= funds[u]

(* The payload's comment says the gross amount is refunded when the        *)
(* withdrawal fails.                                                       *)
GrossIsRefunded ==
  [][\A w \in Withdrawals : (phase[w] # "Failed" /\ phase'[w] = "Failed") =>
       available'[Owner[w]] = available[Owner[w]] + order[w].gross]_vars
=============================================================================
