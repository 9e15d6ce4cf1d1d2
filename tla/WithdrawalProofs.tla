------------------------- MODULE WithdrawalProofs -------------------------
(***************************************************************************)
(* Theorems about Withdrawal, for every set of users and withdrawals, all  *)
(* amounts and fees.  Two facts carry them: the canister's records tell    *)
(* which calls of a withdrawal can still be on their way, and a user has   *)
(* one pending withdrawal at a time, so the allowance of his subaccount is *)
(* that withdrawal's.                                                      *)
(***************************************************************************)
EXTENDS Withdrawal, TLAPS

(* A withdrawal that was never asked for has left no trace; the others     *)
(* never send more than they debit.                                        *)
OrdersAreSound ==
  \A w \in Withdrawals :
    /\ order[w] = NoOrder => /\ phase[w] = "None"
                             /\ sent[w] = 0 /\ w \notin approved
    /\ order[w] # NoOrder => order[w].net <= order[w].gross

(* The guard of the use case: one pending withdrawal per user.             *)
OnePending ==
  \A x, y \in Withdrawals :
    Owner[x] = Owner[y] /\ Pending(x) /\ Pending(y) => x = y

(* Only the call of the current phase can be on its way, and it no longer  *)
(* is when its answer is there.                                            *)
CallsFitPhase ==
  \A w \in Withdrawals :
    /\ <<w, "approve">> \in net => phase[w] = "Started"
    /\ <<w, "retrieve">> \in net => phase[w] = "Approved"
    /\ reply[w] # "none" => at[w] # "idle" /\ <<w, at[w]>> \notin net

(* What a pending withdrawal has done outside the canister: the phase      *)
(* tells, but for effects the canister has not heard of.                   *)
EffectsOf(w) ==
  /\ phase[w] = "Started" => /\ sent[w] = 0
                             /\ w \in approved => <<w, "approve">> \in unheard
  /\ phase[w] = "Approved" => /\ w \in approved
                              /\ sent[w] = 1 => <<w, "retrieve">> \in unheard
  /\ at[w] = "approve" /\ reply[w] = "ok" => w \in approved
  /\ at[w] = "retrieve" /\ reply[w] = "ok" => sent[w] = 1

EffectsFitPhase == \A w \in Withdrawals : EffectsOf(w)

(* The allowance pays a pending withdrawal once.                           *)
AllowancePaysOnce ==
  \A w \in Withdrawals :
    Pending(w) /\ w \in approved =>
      /\ allowance[Owner[w]] <= order[w].net
      /\ sent[w] = 1 => allowance[Owner[w]] = 0

(* The canister has heard of all the effects of the user's failures.       *)
Heard(u) ==
  \A w \in Of(u), c \in Calls : <<w, c>> \in unheard => phase[w] # "Failed"

(* RefundsMatchLedger without its sums, which run over one withdrawal at   *)
(* most.                                                                   *)
Balanced(u) ==
  /\ (\A w \in Of(u) : ~Pending(w)) => funds[u] = available[u]
  /\ \A w \in Of(u) :
       Pending(w) => funds[u] + Gone(w) = available[u] + order[w].gross

BooksMatch == \A u \in Users : Heard(u) => Balanced(u)

IInv ==
  /\ TypeOK /\ RecordsAgree /\ SentAtMostOnce
  /\ OrdersAreSound /\ OnePending /\ CallsFitPhase /\ EffectsFitPhase
  /\ AllowancePaysOnce /\ BooksMatch

-----------------------------------------------------------------------------
(* A refund is an amount of money, and no more than the gross amount.      *)
LEMMA RefundIsAmount ==
  ASSUME TypeOK, OrdersAreSound, NEW w \in Withdrawals, Pending(w)
  PROVE  /\ Refund(w) \in Nat
         /\ Refund(w) = IF phase[w] = "Started" THEN order[w].gross ELSE order[w].net
  <1>1. order[w].gross \in Nat /\ order[w].net \in Nat
    BY DEF TypeOK
  <1>2. QED
    BY <1>1 DEF Refund, Reserved

(* A refund keeps the types.                                               *)
LEMMA FinalizeTypes ==
  ASSUME TypeOK, OrdersAreSound, NEW w \in Withdrawals, Finalize(w)
  PROVE  available' \in [Users -> Nat] /\ phase' \in [Withdrawals -> Phases]
  <1>1. Owner[w] \in Users
    BY WithdrawalAssumption
  <1>2. CASE Pending(w)
    <2>1. Refund(w) \in Nat
      BY <1>2, RefundIsAmount
    <2>2. available[Owner[w]] + Refund(w) \in Nat
      BY <1>1, <2>1 DEF TypeOK
    <2>3. /\ phase' = [phase EXCEPT ![w] = "Failed"]
          /\ available' = [available EXCEPT ![Owner[w]] = @ + Refund(w)]
      BY <1>2 DEF Finalize
    <2>4. phase \in [Withdrawals -> Phases] /\ "Failed" \in Phases
      BY DEF TypeOK, Phases
    <2>5. phase' \in [Withdrawals -> Phases]
      BY <2>3, <2>4
    <2>6. available' \in [Users -> Nat]
      BY <1>1, <2>2, <2>3 DEF TypeOK
    <2>7. QED
      BY <2>5, <2>6
  <1>3. CASE ~Pending(w)
    BY <1>3 DEF TypeOK, Finalize
  <1>4. QED
    BY <1>2, <1>3

(* Sending a call keeps the types.                                         *)
LEMMA SendTypes ==
  ASSUME TypeOK, NEW w \in Withdrawals, NEW call \in Calls, Send(w, call)
  PROVE  /\ wal' \in [Withdrawals -> WalStatuses]
         /\ at' \in [Withdrawals -> Calls \cup {"idle"}]
         /\ reply' \in [Withdrawals -> {"none", "ok", "rejected"}]
         /\ net' \subseteq Withdrawals \X Calls
  BY DEF TypeOK, Send, WalStatuses

(* Every action keeps the types.                                           *)
LEMMA TypeStep ==
  ASSUME IInv, [Next]_vars
  PROVE  TypeOK'
  <1> USE WithdrawalAssumption DEF TypeOK, Phases, WalStatuses, Calls, IInv
  <1>1. CASE FeeChange
    BY <1>1 DEF FeeChange, records
  <1>2. CASE UNCHANGED vars
    BY <1>2 DEF vars, records, effects
  <1>3. ASSUME NEW w \in Withdrawals, Recover(w)
        PROVE  TypeOK'
    <2>1. Finalize(w) => available' \in [Users -> Nat] /\ phase' \in [Withdrawals -> Phases]
      BY FinalizeTypes
    <2>2. CASE (Send(w, "approve") \/ Send(w, "retrieve")) /\ UNCHANGED <<phase, available>>
      <3>1. UNCHANGED <<order, age, effects>>
        BY <1>3 DEF Recover
      <3>2. /\ wal' \in [Withdrawals -> WalStatuses]
            /\ at' \in [Withdrawals -> Calls \cup {"idle"}]
            /\ reply' \in [Withdrawals -> {"none", "ok", "rejected"}]
            /\ net' \subseteq Withdrawals \X Calls
        BY <2>2, SendTypes
      <3>3. QED
        BY <2>2, <3>1, <3>2 DEF effects
    <2>3. CASE End(w, "FailedPermanent") /\ Finalize(w)
      <3>1. UNCHANGED <<order, age, effects>>
        BY <1>3 DEF Recover
      <3>2. QED
        BY <2>1, <2>3, <3>1 DEF End, effects
    <2>4. QED
      BY <1>3, <2>2, <2>3 DEF Recover
  <1>4. ASSUME NEW w \in Withdrawals, Approved(w)
        PROVE  TypeOK'
    BY <1>4 DEF Approved, Send
  <1>5. ASSUME NEW w \in Withdrawals, Retrieved(w)
        PROVE  TypeOK'
    BY <1>5 DEF Retrieved, End
  <1>6. ASSUME NEW w \in Withdrawals, Refused(w)
        PROVE  TypeOK'
    <2>1. available' \in [Users -> Nat] /\ phase' \in [Withdrawals -> Phases]
      BY <1>6, FinalizeTypes DEF Refused
    <2>2. QED
      BY <1>6, <2>1 DEF Refused, End, effects
  <1>7. ASSUME NEW w \in Withdrawals, Fails(w) \/ Interrupt(w)
        PROVE  TypeOK'
    BY <1>7 DEF Fails, Interrupt, End, effects
  <1>8. ASSUME NEW w \in Withdrawals, PromoteStale(w) \/ Cleanup(w) \/ Grow(w)
        PROVE  TypeOK'
    <2>1. CASE PromoteStale(w) \/ Cleanup(w)
      BY <2>1 DEF PromoteStale, Cleanup, effects
    <2>2. CASE Grow(w)
      <3>1. age[w] + 1 \in Ages
        BY <2>2 DEF Grow, Ages, Young, Expired
      <3>2. QED
        BY <2>2, <3>1 DEF Grow, effects, records
    <2>3. QED
      BY <1>8, <2>1, <2>2
  <1>9. ASSUME NEW w \in Withdrawals, LedgerApproves(w)
        PROVE  TypeOK'
    BY <1>9 DEF LedgerApproves, Deliver, Verdict, records, Allowance, Reserved,
      CallsFitPhase, OrdersAreSound
  <1>10. ASSUME NEW w \in Withdrawals, MinterRetrieves(w)
         PROVE  TypeOK'
    BY <1>10 DEF MinterRetrieves, Deliver, records
  <1>11. ASSUME NEW w \in Withdrawals, NEW amount \in Amounts, NEW fee \in Fees,
               Withdraw(w, amount, fee)
         PROVE  TypeOK'
    BY <1>11 DEF Withdraw, Send, effects
  <1>12. QED
    BY <1>1, <1>2, <1>3, <1>4, <1>5, <1>6, <1>7, <1>8, <1>9, <1>10, <1>11 DEF Next

(* Every action keeps the two records in step.                             *)
LEMMA RecordsStep ==
  ASSUME IInv, [Next]_vars
  PROVE  RecordsAgree'
  <1> USE DEF IInv, TypeOK, RecordsAgree, Pending, Phases, WalStatuses, Calls
  <1>1. CASE FeeChange
    BY <1>1 DEF FeeChange, records
  <1>2. CASE UNCHANGED vars
    BY <1>2 DEF vars, records
  <1>3. ASSUME NEW w \in Withdrawals, Recover(w)
        PROVE  RecordsAgree'
    BY <1>3 DEF Recover, Send, End, Finalize
  <1>4. ASSUME NEW w \in Withdrawals, Approved(w)
        PROVE  RecordsAgree'
    BY <1>4 DEF Approved, Send
  <1>5. ASSUME NEW w \in Withdrawals, Retrieved(w)
        PROVE  RecordsAgree'
    BY <1>5 DEF Retrieved, End
  <1>6. ASSUME NEW w \in Withdrawals, Refused(w)
        PROVE  RecordsAgree'
    BY <1>6 DEF Refused, End, Finalize
  <1>7. ASSUME NEW w \in Withdrawals, Fails(w) \/ Interrupt(w)
        PROVE  RecordsAgree'
    BY <1>7 DEF Fails, Interrupt, End
  <1>8. ASSUME NEW w \in Withdrawals, PromoteStale(w) \/ Cleanup(w) \/ Grow(w)
        PROVE  RecordsAgree'
    BY <1>8 DEF PromoteStale, Cleanup, Grow, records
  <1>9. ASSUME NEW w \in Withdrawals, LedgerApproves(w) \/ MinterRetrieves(w)
        PROVE  RecordsAgree'
    BY <1>9 DEF LedgerApproves, MinterRetrieves, Deliver, records
  <1>10. ASSUME NEW w \in Withdrawals, NEW amount \in Amounts, NEW fee \in Fees,
               Withdraw(w, amount, fee)
         PROVE  RecordsAgree'
    BY <1>10 DEF Withdraw, Send
  <1>11. QED
    BY <1>1, <1>2, <1>3, <1>4, <1>5, <1>6, <1>7, <1>8, <1>9, <1>10 DEF Next

(* A withdrawal becomes pending only when no other of its user is.         *)
LEMMA OnePendingStep ==
  ASSUME IInv, [Next]_vars
  PROVE  OnePending'
  <1> USE DEF IInv, TypeOK, OnePending, Pending
  <1>1. ASSUME NEW w \in Withdrawals, NEW amount \in Amounts, NEW fee \in Fees,
               Withdraw(w, amount, fee)
        PROVE  OnePending'
    BY <1>1 DEF Withdraw
  <1>2. ASSUME \A w \in Withdrawals : Pending(w)' => Pending(w)
        PROVE  OnePending'
    BY <1>2
  <1>3. ASSUME NEW w \in Withdrawals,
               Recover(w) \/ Approved(w) \/ Retrieved(w) \/ Refused(w)
        PROVE  \A x \in Withdrawals : Pending(x)' => Pending(x)
    BY <1>3 DEF Recover, Approved, Retrieved, Refused, Finalize, RecordsAgree
  <1>4. ASSUME NEW w \in Withdrawals,
               \/ Fails(w) \/ Interrupt(w) \/ PromoteStale(w) \/ Cleanup(w)
               \/ Grow(w) \/ LedgerApproves(w) \/ MinterRetrieves(w)
        PROVE  UNCHANGED phase
    BY <1>4 DEF Fails, Interrupt, PromoteStale, Cleanup, Grow, LedgerApproves,
      MinterRetrieves, Deliver, records
  <1>5. FeeChange \/ UNCHANGED vars => UNCHANGED phase
    BY DEF FeeChange, vars, records
  <1>6. QED
    BY <1>1, <1>2, <1>3, <1>4, <1>5 DEF Next

(* The calls on their way stay those of the current phase.                 *)
LEMMA CallsStep ==
  ASSUME IInv, [Next]_vars
  PROVE  CallsFitPhase'
  <1> USE DEF IInv, TypeOK, CallsFitPhase, Pending, Calls
  <1>1. CASE FeeChange
    BY <1>1 DEF FeeChange, records
  <1>2. CASE UNCHANGED vars
    BY <1>2 DEF vars, records
  <1>3. ASSUME NEW w \in Withdrawals, Recover(w)
        PROVE  CallsFitPhase'
    <2>1. CASE phase[w] = "Started" /\ Send(w, "approve") /\ UNCHANGED phase
      BY <2>1 DEF Send
    <2>2. CASE phase[w] = "Approved" /\ Send(w, "retrieve") /\ UNCHANGED phase
      BY <2>2 DEF Send
    <2>3. CASE ~Pending(w) /\ End(w, "FailedPermanent") /\ UNCHANGED phase
      BY <2>3 DEF End
    <2>4. QED
      BY <1>3, <2>1, <2>2, <2>3 DEF Recover, Finalize
  <1>4. ASSUME NEW w \in Withdrawals, Approved(w)
        PROVE  CallsFitPhase'
    BY <1>4 DEF Approved, Send, RecordsAgree
  <1>5. ASSUME NEW w \in Withdrawals, Retrieved(w)
        PROVE  CallsFitPhase'
    BY <1>5 DEF Retrieved, End, RecordsAgree
  <1>6. ASSUME NEW w \in Withdrawals, Refused(w)
        PROVE  CallsFitPhase'
    <2>1. at[w] \in Calls /\ <<w, at[w]>> \notin net
      BY <1>6 DEF Refused
    <2>2. \A c \in Calls : <<w, c>> \notin net
      BY <2>1 DEF RecordsAgree
    <2>3. \A x \in Withdrawals \ {w} : phase'[x] = phase[x]
      BY <1>6 DEF Refused, Finalize
    <2>4. QED
      BY <1>6, <2>2, <2>3 DEF Refused, End
  <1>7. ASSUME NEW w \in Withdrawals, Fails(w) \/ Interrupt(w)
        PROVE  CallsFitPhase'
    BY <1>7 DEF Fails, Interrupt, End
  <1>8. ASSUME NEW w \in Withdrawals, PromoteStale(w) \/ Cleanup(w) \/ Grow(w)
        PROVE  CallsFitPhase'
    BY <1>8 DEF PromoteStale, Cleanup, Grow, records
  <1>9. ASSUME NEW w \in Withdrawals, LedgerApproves(w) \/ MinterRetrieves(w)
        PROVE  CallsFitPhase'
    <2>1. PICK call \in Calls, effective \in BOOLEAN, answer \in {"ok", "rejected"} :
             Deliver(w, call, effective, answer)
      BY <1>9 DEF LedgerApproves, MinterRetrieves
    <2>2. QED
      BY <2>1 DEF Deliver, records
  <1>10. ASSUME NEW w \in Withdrawals, NEW amount \in Amounts, NEW fee \in Fees,
               Withdraw(w, amount, fee)
         PROVE  CallsFitPhase'
    BY <1>10 DEF Withdraw, Send
  <1>11. QED
    BY <1>1, <1>2, <1>3, <1>4, <1>5, <1>6, <1>7, <1>8, <1>9, <1>10 DEF Next

(* Payloads are written once, and nothing is done for one not yet written. *)
LEMMA OrdersStep ==
  ASSUME IInv, [Next]_vars
  PROVE  OrdersAreSound'
  <1> USE WithdrawalAssumption DEF IInv, TypeOK, OrdersAreSound, Pending, Phases
  <1>1. ASSUME NEW w \in Withdrawals, NEW amount \in Amounts, NEW fee \in Fees,
               Withdraw(w, amount, fee)
        PROVE  OrdersAreSound'
    BY <1>1 DEF Withdraw, NoOrder, effects
  <1>2. ASSUME NEW w \in Withdrawals,
               Recover(w) \/ Approved(w) \/ Retrieved(w) \/ Refused(w)
        PROVE  OrdersAreSound'
    <2>1. UNCHANGED <<order, sent, approved>>
      BY <1>2 DEF Recover, Approved, Retrieved, Refused, effects
    <2>2. \A x \in Withdrawals \ {w} : phase'[x] = phase[x]
      BY <1>2 DEF Recover, Approved, Retrieved, Refused, Finalize
    <2>3. phase[w] = "None" => phase'[w] = "None"
      BY <1>2 DEF Recover, Approved, Retrieved, Refused, Finalize, RecordsAgree
    <2>4. QED
      BY <2>1, <2>2, <2>3
  <1>3. ASSUME NEW w \in Withdrawals,
               \/ Fails(w) \/ Interrupt(w) \/ PromoteStale(w) \/ Cleanup(w) \/ Grow(w)
        PROVE  OrdersAreSound'
    BY <1>3 DEF Fails, Interrupt, PromoteStale, Cleanup, Grow, effects, records
  <1>4. ASSUME NEW w \in Withdrawals, LedgerApproves(w) \/ MinterRetrieves(w)
        PROVE  OrdersAreSound'
    <2>1. order[w] # NoOrder
      BY <1>4 DEF LedgerApproves, MinterRetrieves, Deliver, CallsFitPhase
    <2>2. UNCHANGED <<order, phase>>
      BY <1>4 DEF LedgerApproves, MinterRetrieves, Deliver, records
    <2>3. \A x \in Withdrawals \ {w} :
             sent'[x] = sent[x] /\ (x \in approved' => x \in approved)
      BY <1>4 DEF LedgerApproves, MinterRetrieves
    <2>4. QED
      BY <2>1, <2>2, <2>3
  <1>5. FeeChange \/ UNCHANGED vars => UNCHANGED <<phase, order, sent, approved>>
    BY DEF FeeChange, vars, records, effects
  <1>6. QED
    BY <1>1, <1>2, <1>3, <1>4, <1>5 DEF Next

(* The ledger approves the minter for a pending withdrawal only, and the   *)
(* minter sends a withdrawal that is approved and was not sent before.     *)
LEMMA LedgerApprovesEffect ==
  ASSUME IInv, NEW w \in Withdrawals, LedgerApproves(w)
  PROVE  /\ phase[w] = "Started" /\ sent[w] = 0
         /\ UNCHANGED <<phase, order, at, sent, available>>
         /\ \/ /\ UNCHANGED <<approved, funds, allowance, unheard>>
               /\ reply'[w] = "ok" /\ at[w] = "approve" => w \in approved
            \/ /\ w \notin approved /\ approved' = approved \cup {w}
               /\ unheard' = unheard \cup {<<w, "approve">>}
               /\ funds' = [funds EXCEPT ![Owner[w]] = @ - Reserved(w)]
               /\ allowance' = [allowance EXCEPT ![Owner[w]] = order[w].net]
  <1>1. phase[w] = "Started" /\ sent[w] = 0
    BY DEF IInv, LedgerApproves, Deliver, CallsFitPhase,
      EffectsFitPhase, EffectsOf
  <1>2. UNCHANGED <<phase, order, at, sent, available>>
    BY DEF LedgerApproves, Deliver, records
  <1> DEFINE verdict == Verdict(w \in approved, age[w], Reserved(w), ledgerFee,
                                funds[Owner[w]], 0)
  <1>3. CASE verdict = "applied"
    <2>1. w \notin approved
      BY <1>3 DEF Verdict
    <2>2. QED
      BY <1>1, <1>2, <1>3, <2>1 DEF LedgerApproves, Deliver, Allowance
  <1>4. CASE verdict # "applied"
    <2>1. verdict = "duplicate" => w \in approved
      BY DEF Verdict
    <2>2. verdict \in {"duplicate", "rejected"}
      BY <1>4 DEF Verdict
    <2>3. UNCHANGED <<approved, funds, allowance, unheard>>
      BY <1>4 DEF LedgerApproves, Deliver, IInv, TypeOK
    <2>4. reply'[w] = "ok" /\ at[w] = "approve" => w \in approved
      BY <2>1, <2>2 DEF LedgerApproves, Deliver, IInv, TypeOK
    <2>5. QED
      BY <1>1, <1>2, <2>3, <2>4
  <1>5. QED
    BY <1>3, <1>4

(* What a request at the minter does: it is refused, or sends the          *)
(* bitcoins, and the allowance pays for them.                              *)
LEMMA MinterRetrievesEffect ==
  ASSUME IInv, NEW w \in Withdrawals, MinterRetrieves(w)
  PROVE  /\ phase[w] = "Approved" /\ w \in approved
         /\ UNCHANGED <<phase, order, at, approved, available>>
         /\ \/ /\ UNCHANGED <<sent, funds, allowance, unheard>>
               /\ at[w] = "retrieve" => reply'[w] = "rejected"
            \/ /\ sent[w] = 0 /\ sent' = [sent EXCEPT ![w] = 1]
               /\ unheard' = unheard \cup {<<w, "retrieve">>}
               /\ order[w].net <= funds[Owner[w]]
               /\ funds' = [funds EXCEPT ![Owner[w]] = @ - order[w].net]
               /\ allowance' = [allowance EXCEPT ![Owner[w]] = 0]
  <1>1. phase[w] = "Approved" /\ w \in approved
    BY DEF IInv, MinterRetrieves, Deliver, CallsFitPhase,
      EffectsFitPhase, EffectsOf
  <1>2. UNCHANGED <<phase, order, at, approved, available>>
    BY DEF MinterRetrieves, Deliver, records
  <1>3. Owner[w] \in Users
    BY WithdrawalAssumption
  <1>4. CASE Deliver(w, "retrieve", FALSE, "rejected") /\ UNCHANGED <<sent, funds, allowance>>
    BY <1>1, <1>2, <1>4 DEF Deliver, IInv, TypeOK
  <1>5. CASE /\ Deliver(w, "retrieve", TRUE, "ok")
             /\ order[w].net \in 1 .. allowance[Owner[w]]
             /\ order[w].net <= funds[Owner[w]]
             /\ funds' = [funds EXCEPT ![Owner[w]] = @ - order[w].net]
             /\ allowance' = [allowance EXCEPT ![Owner[w]] = @ - order[w].net]
             /\ sent' = [sent EXCEPT ![w] = @ + 1]
    <2>1. allowance[Owner[w]] = order[w].net
      <3>1. AllowancePaysOnce /\ allowance \in [Users -> Nat]
        BY DEF IInv, TypeOK
      <3>2. order[w].net \in Nat /\ allowance[Owner[w]] \in Nat
            /\ order[w].net <= allowance[Owner[w]]
        BY <1>3, <1>5, <3>1
      <3>3. allowance[Owner[w]] <= order[w].net
        BY ONLY <1>1, <3>1 DEF AllowancePaysOnce, Pending
      <3>4. QED
        BY ONLY <3>2, <3>3
    <2>2. sent[w] = 0
      <3>1. order[w].net \in Nat /\ order[w].net >= 1
        BY <1>5 DEF IInv, TypeOK
      <3>2. sent[w] # 1
        BY <1>1, <2>1, <3>1 DEF IInv, AllowancePaysOnce, Pending
      <3>3. sent[w] \in Nat /\ sent[w] <= 1
        BY DEF IInv, TypeOK, SentAtMostOnce
      <3>4. QED
        BY <3>2, <3>3
    <2>3. allowance[Owner[w]] - order[w].net = 0
      BY <1>3, <2>1 DEF IInv, TypeOK
    <2>4. /\ sent' = [sent EXCEPT ![w] = 1]
          /\ allowance' = [allowance EXCEPT ![Owner[w]] = 0]
      <3>1. sent[w] + 1 = 1
        BY <2>2
      <3>2. QED
        BY <1>5, <2>3, <3>1, Zenon
    <2>5. unheard' = unheard \cup {<<w, "retrieve">>}
      BY <1>5 DEF Deliver
    <2>6. QED
      BY <1>1, <1>2, <1>5, <2>2, <2>4, <2>5
  <1>6. QED
    <2>1. PICK able \in BOOLEAN :
            LET amount == order[w].net
                done == able /\ amount \in 1 .. allowance[Owner[w]] /\ amount <= funds[Owner[w]]
                burnt == IF done THEN amount ELSE 0
            IN /\ Deliver(w, "retrieve", done, IF done THEN "ok" ELSE "rejected")
               /\ funds' = [funds EXCEPT ![Owner[w]] = @ - burnt]
               /\ allowance' = [allowance EXCEPT ![Owner[w]] = @ - burnt]
               /\ sent' = [sent EXCEPT ![w] = IF done THEN @ + 1 ELSE @]
      BY DEF MinterRetrieves
    <2> DEFINE done == /\ able /\ order[w].net \in 1 .. allowance[Owner[w]]
                       /\ order[w].net <= funds[Owner[w]]
    <2>2. CASE done
      BY <1>5, <2>1, <2>2
    <2>3. CASE ~done
      <3>1. Deliver(w, "retrieve", FALSE, "rejected")
        BY <2>1, <2>3
      <3>2. UNCHANGED <<sent, funds, allowance>>
        BY <1>3, <2>1, <2>3 DEF IInv, TypeOK
      <3>3. QED
        BY <1>4, <3>1, <3>2
    <2>4. QED
      BY <2>2, <2>3

(* The phase keeps telling what a withdrawal has done outside.             *)
LEMMA EffectsStep ==
  ASSUME IInv, [Next]_vars
  PROVE  EffectsFitPhase'
  <1> USE DEF EffectsFitPhase, EffectsOf, Calls
  <1>1. FeeChange \/ UNCHANGED vars
          => UNCHANGED <<phase, at, reply, sent, approved, unheard>>
    BY DEF FeeChange, vars, records, effects
  <1>2. ASSUME NEW w \in Withdrawals, Recover(w)
        PROVE  EffectsFitPhase'
    <2>1. UNCHANGED <<phase, sent, approved, unheard>>
      BY <1>2 DEF Recover, Finalize, effects
    <2>2. reply' = [reply EXCEPT ![w] = "none"]
      BY <1>2 DEF Recover, Send, End
    <2>3. \A x \in Withdrawals \ {w} : at'[x] = at[x]
      BY <1>2 DEF Recover, Send, End, IInv, TypeOK
    <2>4. QED
      BY <2>1, <2>2, <2>3 DEF IInv, TypeOK
  <1>3. ASSUME NEW w \in Withdrawals, Approved(w)
        PROVE  EffectsFitPhase'
    <2>1. phase[w] = "Started" /\ sent[w] = 0 /\ w \in approved
      BY <1>3 DEF Approved, IInv, RecordsAgree
    <2>2. /\ UNCHANGED <<sent, approved>>
          /\ phase' = [phase EXCEPT ![w] = "Approved"]
          /\ at' = [at EXCEPT ![w] = "retrieve"]
          /\ reply' = [reply EXCEPT ![w] = "none"]
          /\ unheard' = unheard \ {<<w, "approve">>}
      BY <1>3 DEF Approved, Send
    <2>3. EffectsOf(w)'
      BY <2>1, <2>2 DEF IInv, TypeOK
    <2>4. ASSUME NEW x \in Withdrawals, x # w
          PROVE  EffectsOf(x)'
      BY <2>2, <2>4 DEF IInv, TypeOK
    <2>5. QED
      BY <2>3, <2>4
  <1>4. ASSUME NEW w \in Withdrawals, Retrieved(w)
        PROVE  EffectsFitPhase'
    BY <1>4 DEF Retrieved, End, IInv, TypeOK
  <1>5. ASSUME NEW w \in Withdrawals, Refused(w)
        PROVE  EffectsFitPhase'
    <2>1. phase' = [phase EXCEPT ![w] = "Failed"]
      BY <1>5 DEF Refused, Finalize, IInv, TypeOK, RecordsAgree, Pending, Calls
    <2>2. QED
      BY <1>5, <2>1 DEF Refused, End, effects, IInv, TypeOK
  <1>6. ASSUME NEW w \in Withdrawals, Fails(w) \/ Interrupt(w)
        PROVE  EffectsFitPhase'
    BY <1>6 DEF Fails, Interrupt, End, effects, IInv, TypeOK
  <1>7. ASSUME NEW w \in Withdrawals, PromoteStale(w) \/ Cleanup(w) \/ Grow(w)
        PROVE  UNCHANGED <<phase, at, reply, sent, approved, unheard>>
    BY <1>7 DEF PromoteStale, Cleanup, Grow, effects, records
  <1>8. ASSUME NEW w \in Withdrawals, LedgerApproves(w)
        PROVE  EffectsFitPhase'
    <2>1. /\ \A x \in Withdrawals \ {w} : reply'[x] = reply[x]
          /\ reply'[w] \in {reply[w], "ok", "rejected"}
      BY <1>8 DEF LedgerApproves, Deliver, IInv, TypeOK
    <2>2. at[w] # "retrieve"
      BY <1>8, LedgerApprovesEffect DEF IInv, RecordsAgree
    <2>3. ASSUME NEW x \in Withdrawals, x # w
          PROVE  EffectsOf(x)'
      BY <1>8, <2>1, <2>3, LedgerApprovesEffect DEF IInv, TypeOK
    <2>4. EffectsOf(w)'
      BY <1>8, <2>1, <2>2, LedgerApprovesEffect DEF IInv, TypeOK
    <2>5. QED
      BY <2>3, <2>4
  <1>9. ASSUME NEW w \in Withdrawals, MinterRetrieves(w)
        PROVE  EffectsFitPhase'
    <2>1. /\ \A x \in Withdrawals \ {w} : reply'[x] = reply[x]
          /\ reply'[w] \in {reply[w], "ok", "rejected"}
      BY <1>9 DEF MinterRetrieves, Deliver, IInv, TypeOK
    <2>2. at[w] # "approve"
      BY <1>9, MinterRetrievesEffect DEF IInv, RecordsAgree
    <2>3. ASSUME NEW x \in Withdrawals, x # w
          PROVE  EffectsOf(x)'
      BY <1>9, <2>1, <2>3, MinterRetrievesEffect DEF IInv, TypeOK
    <2>4. EffectsOf(w)'
      BY <1>9, <2>1, <2>2, MinterRetrievesEffect DEF IInv, TypeOK
    <2>5. QED
      BY <2>3, <2>4
  <1>10. ASSUME NEW w \in Withdrawals, NEW amount \in Amounts, NEW fee \in Fees,
                Withdraw(w, amount, fee)
         PROVE  EffectsFitPhase'
    BY <1>10 DEF Withdraw, Send, effects, IInv, TypeOK, OrdersAreSound
  <1>11. UNCHANGED <<phase, at, reply, sent, approved, unheard>> => EffectsFitPhase'
    BY DEF IInv
  <1>12. QED
    BY <1>1, <1>2, <1>3, <1>4, <1>5, <1>6, <1>7, <1>8, <1>9, <1>10, <1>11 DEF Next

(* What is sent stays sent, and is not sent again.                         *)
LEMMA SentStep ==
  ASSUME IInv, [Next]_vars
  PROVE  SentAtMostOnce'
  <1>1. ASSUME NEW w \in Withdrawals, MinterRetrieves(w)
        PROVE  SentAtMostOnce'
    <2>1. UNCHANGED sent \/ sent' = [sent EXCEPT ![w] = 1]
      BY <1>1, MinterRetrievesEffect
    <2>2. QED
      BY <2>1 DEF IInv, TypeOK, SentAtMostOnce
  <1>2. (~ \E w \in Withdrawals : MinterRetrieves(w)) => UNCHANGED sent
    BY LedgerApprovesEffect DEF Next, vars, FeeChange, Recover, Approved, Retrieved,
      Refused, Fails, Interrupt, PromoteStale, Cleanup, Grow, Withdraw, effects
  <1>3. QED
    BY <1>1, <1>2 DEF IInv, SentAtMostOnce

(* The user's allowance stays that of his pending withdrawal.              *)
LEMMA AllowanceStep ==
  ASSUME IInv, [Next]_vars
  PROVE  AllowancePaysOnce'
  <1> USE WithdrawalAssumption DEF AllowancePaysOnce, Pending
  <1>1. ASSUME NEW w \in Withdrawals, LedgerApproves(w)
        PROVE  AllowancePaysOnce'
    <2>1. ASSUME NEW x \in Withdrawals, Pending(x), Owner[x] = Owner[w]
          PROVE  x = w
      BY <1>1, <2>1, LedgerApprovesEffect DEF IInv, OnePending
    <2>2. QED
      BY <1>1, <2>1, LedgerApprovesEffect DEF IInv, TypeOK
  <1>2. ASSUME NEW w \in Withdrawals, MinterRetrieves(w)
        PROVE  AllowancePaysOnce'
    <2>1. ASSUME NEW x \in Withdrawals, Pending(x), Owner[x] = Owner[w]
          PROVE  x = w
      BY <1>2, <2>1, MinterRetrievesEffect DEF IInv, OnePending
    <2>2. QED
      BY <1>2, <2>1, MinterRetrievesEffect DEF IInv, TypeOK
  <1>3. ASSUME NEW w \in Withdrawals, NEW amount \in Amounts, NEW fee \in Fees,
               Withdraw(w, amount, fee)
        PROVE  AllowancePaysOnce'
    BY <1>3 DEF Withdraw, effects, IInv, TypeOK, OrdersAreSound
  <1>4. ASSUME NEW w \in Withdrawals,
               Recover(w) \/ Approved(w) \/ Retrieved(w) \/ Refused(w)
        PROVE  AllowancePaysOnce'
    <2>1. UNCHANGED <<order, sent, approved, allowance>>
      BY <1>4 DEF Recover, Approved, Retrieved, Refused, effects
    <2>2. \A x \in Withdrawals : Pending(x)' => Pending(x)
      BY <1>4 DEF Recover, Approved, Retrieved, Refused, Finalize, IInv, RecordsAgree, TypeOK
    <2>3. QED
      BY <2>1, <2>2 DEF IInv
  <1>5. ASSUME \/ FeeChange \/ UNCHANGED vars
               \/ \E w \in Withdrawals : \/ Fails(w) \/ Interrupt(w)
                    \/ PromoteStale(w) \/ Cleanup(w) \/ Grow(w)
        PROVE  AllowancePaysOnce'
    <2>1. UNCHANGED <<phase, order, sent, approved, allowance>>
      BY <1>5 DEF FeeChange, vars, Fails, Interrupt, PromoteStale, Cleanup, Grow,
        effects, records
    <2>2. QED
      BY <2>1 DEF IInv
  <1>6. QED
    BY <1>1, <1>2, <1>3, <1>4, <1>5 DEF Next

-----------------------------------------------------------------------------
(* What has left the ledger for a withdrawal, by its progress.             *)
LEMMA GoneByProgress ==
  ASSUME TypeOK, NEW w \in Withdrawals
  PROVE  /\ w \notin approved /\ sent[w] = 0 => Gone(w) = 0
         /\ w \in approved /\ sent[w] = 0 => Gone(w) = order[w].gross - order[w].net
         /\ w \in approved /\ sent[w] = 1 => Gone(w) = order[w].gross
  <1>1. order[w].gross \in Nat /\ order[w].net \in Nat
    BY DEF TypeOK
  <1>2. CASE sent[w] = 0
    BY <1>1, <1>2 DEF Gone, Reserved
  <1>3. CASE sent[w] = 1
    BY <1>1, <1>3 DEF Gone, Reserved
  <1>4. QED
    BY <1>2, <1>3

(* While a withdrawal of his is pending, the others of a user are not.     *)
LEMMA OthersRest ==
  ASSUME OnePending, NEW w \in Withdrawals, Pending(w),
         NEW x \in Of(Owner[w]), x # w
  PROVE  ~Pending(x)
  BY DEF OnePending, Of

(* A failure stays one, and what the canister has not heard of it by then  *)
(* it never does.                                                          *)
LEMMA HeardBefore ==
  ASSUME IInv, [Next]_vars, NEW u \in Users, Heard(u)'
  PROVE  Heard(u)
  <1>1. \A x \in Withdrawals : phase[x] = "Failed" => phase'[x] = "Failed"
    <2>1. ASSUME NEW w \in Withdrawals,
                 Recover(w) \/ Approved(w) \/ Retrieved(w) \/ Refused(w)
          PROVE  \A x \in Withdrawals : phase[x] = "Failed" => phase'[x] = "Failed"
      BY <2>1 DEF Recover, Approved, Retrieved, Refused, Finalize, IInv, RecordsAgree,
        TypeOK, Pending
    <2>2. ASSUME NEW w \in Withdrawals, NEW amount \in Amounts, NEW fee \in Fees,
                 Withdraw(w, amount, fee)
          PROVE  \A x \in Withdrawals : phase[x] = "Failed" => phase'[x] = "Failed"
      BY <2>2 DEF Withdraw, IInv, OrdersAreSound, TypeOK
    <2>3. ASSUME \/ FeeChange \/ UNCHANGED vars
                 \/ \E w \in Withdrawals : \/ Fails(w) \/ Interrupt(w)
                      \/ PromoteStale(w) \/ Cleanup(w) \/ Grow(w)
                      \/ LedgerApproves(w) \/ MinterRetrieves(w)
          PROVE  UNCHANGED phase
      BY <2>3 DEF FeeChange, vars, Fails, Interrupt, PromoteStale, Cleanup, Grow,
        LedgerApproves, MinterRetrieves, Deliver, records
    <2>4. QED
      BY <2>1, <2>2, <2>3 DEF Next
  <1>2. \A x \in Withdrawals, c \in Calls :
          phase[x] = "Failed" /\ <<x, c>> \in unheard => <<x, c>> \in unheard'
    <2>1. ASSUME NEW w \in Withdrawals, Approved(w) \/ Retrieved(w)
          PROVE  /\ phase[w] # "Failed"
                 /\ \E c \in Calls : unheard' = unheard \ {<<w, c>>}
      BY <2>1 DEF Approved, Retrieved, IInv, RecordsAgree, Calls
    <2>2. ASSUME NEW w \in Withdrawals, LedgerApproves(w) \/ MinterRetrieves(w)
          PROVE  unheard \subseteq unheard'
      BY <2>2, LedgerApprovesEffect, MinterRetrievesEffect
    <2>3. ASSUME \/ FeeChange \/ UNCHANGED vars
                 \/ \E w \in Withdrawals : \/ Recover(w) \/ Refused(w) \/ Fails(w)
                      \/ Interrupt(w) \/ PromoteStale(w) \/ Cleanup(w) \/ Grow(w)
                      \/ \E amount \in Amounts, fee \in Fees : Withdraw(w, amount, fee)
          PROVE  UNCHANGED unheard
      BY <2>3 DEF FeeChange, vars, Recover, Refused, Fails, Interrupt, PromoteStale,
        Cleanup, Grow, Withdraw, effects
    <2>4. CASE \E w \in Withdrawals : Approved(w) \/ Retrieved(w)
      BY <2>1, <2>4
    <2>5. CASE \E w \in Withdrawals : LedgerApproves(w) \/ MinterRetrieves(w)
      BY <2>2, <2>5
    <2>6. QED
      BY <2>3, <2>4, <2>5 DEF Next
  <1>3. QED
    BY <1>1, <1>2 DEF Heard, Of

(* The books of a user a step does not concern stay balanced.              *)
LEMMA Untouched ==
  ASSUME NEW u \in Users, Balanced(u),
         funds'[u] = funds[u], available'[u] = available[u],
         \A x \in Of(u) :
           /\ Pending(x)' <=> Pending(x)
           /\ order'[x] = order[x] /\ sent'[x] = sent[x]
           /\ x \in approved' <=> x \in approved
  PROVE  Balanced(u)'
  <1>1. ASSUME NEW x \in Of(u)
        PROVE  /\ Gone(x)' = Gone(x)
               /\ Pending(x)' <=> Pending(x)
               /\ order'[x] = order[x]
    <2>1. /\ Pending(x)' <=> Pending(x)
          /\ order'[x] = order[x] /\ sent'[x] = sent[x]
          /\ x \in approved' <=> x \in approved
      BY Zenon
    <2>2. Gone(x)' = Gone(x)
      BY <2>1, Zenon DEF Gone, Reserved
    <2>3. QED
      BY <2>1, <2>2, Zenon
  <1>2. (\A x \in Of(u) : ~Pending(x))' => funds'[u] = available'[u]
    BY <1>1 DEF Balanced, Of
  <1>3. ASSUME NEW x \in Of(u), Pending(x)'
        PROVE  funds'[u] + Gone(x)' = available'[u] + order'[x].gross
    BY <1>1, <1>3 DEF Balanced
  <1>4. QED
    BY <1>2, <1>3 DEF Balanced, Of

(* The user's books after his withdrawal was debited, approved, sent,      *)
(* finished or refunded.                                                   *)
LEMMA BooksAfterWithdraw ==
  ASSUME IInv, NEW w \in Withdrawals, NEW amount \in Amounts, NEW fee \in Fees,
         Withdraw(w, amount, fee), Balanced(Owner[w])
  PROVE  Balanced(Owner[w])'
  <1> DEFINE u == Owner[w]
  <1>1. u \in Users /\ amount \in Nat /\ fee \in Nat
    BY WithdrawalAssumption
  <1>2. funds[u] = available[u]
    BY DEF Withdraw, Balanced, Of
  <1>3. w \notin approved /\ sent[w] = 0 /\ UNCHANGED <<approved, sent, funds>>
    BY DEF Withdraw, IInv, OrdersAreSound, effects
  <1>4. /\ available'[u] = available[u] - amount
        /\ order'[w].gross = amount /\ order'[w].net \in Int
        /\ Pending(w)'
        /\ \A x \in Of(u) : x # w => ~Pending(x)'
    BY <1>1 DEF Withdraw, IInv, TypeOK, Pending, Of
  <1>5. Gone(w)' = 0
    BY <1>3, <1>4 DEF Gone
  <1>6. available[u] \in Nat /\ funds'[u] = available[u]
    BY <1>1, <1>2, <1>3 DEF IInv, TypeOK
  <1>7. funds'[u] + Gone(w)' = available'[u] + order'[w].gross
    BY <1>1, <1>4, <1>5, <1>6
  <1>8. QED
    BY <1>4, <1>7 DEF Balanced, Of

(* The books after the ledger approved the minter's allowance.             *)
LEMMA BooksAfterApproval ==
  ASSUME IInv, NEW w \in Withdrawals, LedgerApproves(w), Balanced(Owner[w])
  PROVE  Balanced(Owner[w])'
  <1> DEFINE u == Owner[w]
  <1>1. u \in Users
    BY WithdrawalAssumption
  <1>2. Pending(w) /\ (\A x \in Of(u) : x # w => ~Pending(x))
    BY LedgerApprovesEffect, OthersRest DEF IInv, Pending
  <1>3. CASE UNCHANGED <<approved, funds, allowance, unheard>>
    BY <1>1, <1>3, LedgerApprovesEffect, Untouched DEF Pending
  <1>4. CASE /\ w \notin approved /\ approved' = approved \cup {w}
             /\ funds' = [funds EXCEPT ![u] = @ - Reserved(w)]
    <2>1. order[w].gross \in Nat /\ order[w].net \in Nat /\ funds[u] \in Nat
          /\ available[u] \in Nat
      BY <1>1 DEF IInv, TypeOK
    <2>2. sent[w] = 0 /\ UNCHANGED <<phase, order, sent, available>>
      BY LedgerApprovesEffect
    <2>3. funds[u] = available[u] + order[w].gross
      BY <1>2, <1>4, <2>1, <2>2, GoneByProgress DEF Balanced, Of, IInv
    <2>4. funds'[u] = funds[u] - (order[w].gross - order[w].net)
      BY <1>1, <1>4 DEF Reserved, IInv, TypeOK
    <2>5. Gone(w)' = order[w].gross - order[w].net
      BY <1>4, <2>1, <2>2 DEF Gone, Reserved
    <2>6. funds'[u] + Gone(w)' = available'[u] + order'[w].gross
      BY <2>1, <2>2, <2>3, <2>4, <2>5
    <2>7. Pending(w)' /\ (\A x \in Of(u) : x # w => ~Pending(x)')
      BY <1>2, <2>2 DEF Pending
    <2>8. QED
      BY <2>6, <2>7 DEF Balanced, Of
  <1>5. QED
    BY <1>3, <1>4, LedgerApprovesEffect

(* The books after the minter sent the bitcoins.                           *)
LEMMA BooksAfterSending ==
  ASSUME IInv, NEW w \in Withdrawals, MinterRetrieves(w), Balanced(Owner[w])
  PROVE  Balanced(Owner[w])'
  <1> DEFINE u == Owner[w]
  <1>1. u \in Users
    BY WithdrawalAssumption
  <1>2. Pending(w) /\ (\A x \in Of(u) : x # w => ~Pending(x))
    BY MinterRetrievesEffect, OthersRest DEF IInv, Pending
  <1>3. CASE UNCHANGED <<sent, funds, allowance, unheard>>
    BY <1>1, <1>3, MinterRetrievesEffect, Untouched DEF Pending
  <1>4. CASE /\ sent[w] = 0 /\ sent' = [sent EXCEPT ![w] = 1]
             /\ funds' = [funds EXCEPT ![u] = @ - order[w].net]
    <2>1. order[w].gross \in Nat /\ order[w].net \in Nat /\ funds[u] \in Nat
          /\ available[u] \in Nat
      BY <1>1 DEF IInv, TypeOK
    <2>2. w \in approved /\ UNCHANGED <<phase, order, approved, available>>
      BY MinterRetrievesEffect
    <2>3. funds[u] + (order[w].gross - order[w].net) = available[u] + order[w].gross
      BY <1>2, <1>4, <2>2, GoneByProgress DEF Balanced, Of, IInv
    <2>4. funds'[u] = funds[u] - order[w].net /\ sent'[w] = 1
      BY <1>1, <1>4 DEF IInv, TypeOK
    <2>5. Gone(w)' = order[w].gross
      BY <2>1, <2>2, <2>4 DEF Gone, Reserved
    <2>6. funds'[u] + Gone(w)' = available'[u] + order'[w].gross
      BY <2>1, <2>2, <2>3, <2>4, <2>5
    <2>7. Pending(w)' /\ (\A x \in Of(u) : x # w => ~Pending(x)')
      BY <1>2, <2>2 DEF Pending
    <2>8. QED
      BY <2>6, <2>7 DEF Balanced, Of
  <1>5. QED
    BY <1>3, <1>4, MinterRetrievesEffect

(* The books after the canister heard that they were sent.                 *)
LEMMA BooksAfterSuccess ==
  ASSUME IInv, NEW w \in Withdrawals, Retrieved(w), Balanced(Owner[w])
  PROVE  Balanced(Owner[w])'
  <1> DEFINE u == Owner[w]
  <1>1. u \in Users
    BY WithdrawalAssumption
  <1>2. phase[w] = "Approved" /\ w \in approved /\ sent[w] = 1
    BY DEF Retrieved, IInv, RecordsAgree, EffectsFitPhase, EffectsOf
  <1>3. \A x \in Of(u) : x # w => ~Pending(x)
    BY <1>2, OthersRest DEF IInv, Pending
  <1>4. funds[u] + order[w].gross = available[u] + order[w].gross
    BY <1>2, GoneByProgress DEF Balanced, Of, IInv, Pending
  <1>5. funds[u] = available[u]
    <2>1. order[w].gross \in Nat /\ funds[u] \in Nat /\ available[u] \in Nat
      BY <1>1 DEF IInv, TypeOK
    <2>2. QED
      BY <1>4, <2>1
  <1>6. UNCHANGED <<funds, available>> /\ phase' = [phase EXCEPT ![w] = "None"]
    BY DEF Retrieved
  <1>7. \A x \in Of(u) : ~Pending(x)'
    BY <1>3, <1>6 DEF IInv, TypeOK, Pending, Of
  <1>8. QED
    BY <1>5, <1>6, <1>7 DEF Balanced, Of

(* The books after the canister heard of a refusal, and refunded.          *)
LEMMA BooksAfterRefusal ==
  ASSUME IInv, NEW w \in Withdrawals, Refused(w), Balanced(Owner[w]), Heard(Owner[w])'
  PROVE  Balanced(Owner[w])'
  <1> DEFINE u == Owner[w]
  <1>1. u \in Users
    BY WithdrawalAssumption
  <1>2. Pending(w)
    BY DEF Refused, IInv, RecordsAgree, TypeOK, Pending, Calls
  <1>3. \A x \in Of(u) : x # w => ~Pending(x)
    BY <1>2, OthersRest DEF IInv
  <1>4. /\ available' = [available EXCEPT ![u] = @ + Refund(w)]
        /\ phase' = [phase EXCEPT ![w] = "Failed"]
        /\ UNCHANGED <<order, approved, sent, unheard, funds>>
    BY <1>2 DEF Refused, Finalize, effects
  <1>5. \A c \in Calls : <<w, c>> \notin unheard
    BY <1>4 DEF Heard, Of, IInv, TypeOK
  <1>6. order[w].gross \in Nat /\ order[w].net \in Nat /\ funds[u] \in Nat
        /\ available[u] \in Nat
    BY <1>1 DEF IInv, TypeOK
  <1>7. funds[u] = available[u] + Refund(w)
    <2>1. CASE phase[w] = "Started"
      <3>1. w \notin approved /\ sent[w] = 0
        BY <1>5, <2>1 DEF IInv, EffectsFitPhase, EffectsOf, Calls
      <3>2. funds[u] + 0 = available[u] + order[w].gross
        BY <1>2, <3>1, GoneByProgress DEF Balanced, Of, IInv
      <3>3. QED
        BY <1>2, <1>6, <2>1, <3>2, RefundIsAmount DEF IInv
    <2>2. CASE phase[w] = "Approved"
      <3>1. w \in approved /\ sent[w] # 1
        BY <1>5, <2>2 DEF IInv, EffectsFitPhase, EffectsOf, Calls
      <3>2. sent[w] = 0
        <4>1. sent[w] \in Nat /\ sent[w] <= 1
          BY DEF IInv, TypeOK, SentAtMostOnce
        <4>2. QED
          BY <3>1, <4>1
      <3>3. funds[u] + (order[w].gross - order[w].net) = available[u] + order[w].gross
        BY <1>2, <3>1, <3>2, GoneByProgress DEF Balanced, Of, IInv
      <3>4. QED
        BY <1>2, <1>6, <2>2, <3>3, RefundIsAmount DEF IInv
    <2>3. QED
      BY <1>2, <2>1, <2>2 DEF Pending
  <1>8. funds'[u] = available'[u]
    BY <1>1, <1>4, <1>7 DEF IInv, TypeOK
  <1>9. \A x \in Of(u) : ~Pending(x)'
    BY <1>3, <1>4 DEF IInv, TypeOK, Pending, Of
  <1>10. QED
    BY <1>8, <1>9 DEF Balanced, Of

(* The books of every user stay balanced: those of another user than the   *)
(* withdrawal's are not touched.                                           *)
LEMMA BooksStep ==
  ASSUME IInv, [Next]_vars
  PROVE  BooksMatch'
  <1> SUFFICES ASSUME NEW u \in Users, Heard(u)'
               PROVE  Balanced(u)'
    BY DEF BooksMatch
  <1>1. Balanced(u)
    BY HeardBefore DEF IInv, BooksMatch
  <1> DEFINE Same(x) == /\ Pending(x)' <=> Pending(x)
                        /\ order'[x] = order[x] /\ sent'[x] = sent[x]
                        /\ x \in approved' <=> x \in approved
  <1>2. ASSUME funds'[u] = funds[u], available'[u] = available[u],
               \A x \in Of(u) : Same(x)
        PROVE  Balanced(u)'
    BY <1>1, <1>2, Untouched
  <1>3. ASSUME \/ FeeChange \/ UNCHANGED vars
               \/ \E w \in Withdrawals : \/ Fails(w) \/ Interrupt(w)
                    \/ PromoteStale(w) \/ Cleanup(w) \/ Grow(w)
        PROVE  Balanced(u)'
    <2>1. UNCHANGED <<phase, order, sent, approved, funds, available>>
      BY <1>3 DEF FeeChange, vars, Fails, Interrupt, PromoteStale, Cleanup, Grow,
        effects, records
    <2>2. QED
      BY <1>2, <2>1 DEF Pending
  <1>4. ASSUME NEW w \in Withdrawals, Recover(w)
        PROVE  Balanced(u)'
    <2>1. UNCHANGED <<phase, order, sent, approved, funds, available>>
      BY <1>4 DEF Recover, Finalize, effects
    <2>2. QED
      BY <1>2, <2>1 DEF Pending
  <1>5. ASSUME NEW w \in Withdrawals, Approved(w)
        PROVE  Balanced(u)'
    <2>1. phase[w] = "Started" /\ phase' = [phase EXCEPT ![w] = "Approved"]
      BY <1>5 DEF Approved, IInv, RecordsAgree
    <2>2. UNCHANGED <<order, sent, approved, funds, available>>
      BY <1>5 DEF Approved
    <2>3. \A x \in Of(u) : Pending(x)' <=> Pending(x)
      BY <2>1 DEF Pending, Of, IInv, TypeOK
    <2>4. QED
      BY <1>2, <2>2, <2>3
  <1>6. ASSUME NEW w \in Withdrawals, NEW amount \in Amounts, NEW fee \in Fees,
               Withdraw(w, amount, fee)
        PROVE  Balanced(u)'
    <2>1. CASE u = Owner[w]
      BY <1>1, <1>6, <2>1, BooksAfterWithdraw
    <2>2. CASE u # Owner[w]
      BY <1>2, <1>6, <2>2 DEF Withdraw, effects, Of, Pending, IInv, TypeOK
    <2>3. QED
      BY <2>1, <2>2
  <1>7. ASSUME NEW w \in Withdrawals, LedgerApproves(w)
        PROVE  Balanced(u)'
    <2>1. CASE u = Owner[w]
      BY <1>1, <1>7, <2>1, BooksAfterApproval
    <2>2. CASE u # Owner[w]
      BY <1>2, <1>7, <2>2, LedgerApprovesEffect DEF Of, Pending, IInv, TypeOK
    <2>3. QED
      BY <2>1, <2>2
  <1>8. ASSUME NEW w \in Withdrawals, MinterRetrieves(w)
        PROVE  Balanced(u)'
    <2>1. CASE u = Owner[w]
      BY <1>1, <1>8, <2>1, BooksAfterSending
    <2>2. CASE u # Owner[w]
      BY <1>2, <1>8, <2>2, MinterRetrievesEffect DEF Of, Pending, IInv, TypeOK
    <2>3. QED
      BY <2>1, <2>2
  <1>9. ASSUME NEW w \in Withdrawals, Retrieved(w)
        PROVE  Balanced(u)'
    <2>1. CASE u = Owner[w]
      BY <1>1, <1>9, <2>1, BooksAfterSuccess
    <2>2. CASE u # Owner[w]
      BY <1>2, <1>9, <2>2 DEF Retrieved, Of, Pending, IInv, TypeOK
    <2>3. QED
      BY <2>1, <2>2
  <1>10. ASSUME NEW w \in Withdrawals, Refused(w)
         PROVE  Balanced(u)'
    <2>1. CASE u = Owner[w]
      BY <1>1, <1>10, <2>1, BooksAfterRefusal
    <2>2. CASE u # Owner[w]
      BY <1>2, <1>10, <2>2 DEF Refused, Finalize, effects, Of, Pending, IInv, TypeOK
    <2>3. QED
      BY <2>1, <2>2
  <1>11. QED
    BY <1>3, <1>4, <1>5, <1>6, <1>7, <1>8, <1>9, <1>10 DEF Next

-----------------------------------------------------------------------------
(* The sums of RefundsMatchLedger, over no withdrawal and over one.        *)
LEMMA SumOfGoneNone == MapThenSumSet(Gone, {}) = 0
  <1> DEFINE Body(f) == [s \in SUBSET {} |->
               IF s = {} THEN 0
               ELSE LET x == CHOOSE x \in s : TRUE IN Gone(x) + f[s \ {x}]]
             iter == CHOOSE f : f = Body(f)
             zero == [s \in SUBSET {} |-> 0]
  <1>1. MapThenSumSet(Gone, {}) = iter[{}]
    BY DEF MapThenSumSet, MapThenFoldSet
  <1>2. zero = Body(zero)
    OBVIOUS
  <1>3. iter = Body(iter)
    <2> HIDE DEF Body
    <2> QED
      BY <1>2
  <1>4. QED
    BY <1>1, <1>3

(* What is gone for the one pending withdrawal is the sum of it.           *)
LEMMA SumOfGoneOne ==
  ASSUME NEW w, Gone(w) \in Int
  PROVE  MapThenSumSet(Gone, {w}) = Gone(w)
  <1> DEFINE Body(f) == [s \in SUBSET {w} |->
               IF s = {} THEN 0
               ELSE LET x == CHOOSE x \in s : TRUE IN Gone(x) + f[s \ {x}]]
             iter == CHOOSE f : f = Body(f)
             sum == [s \in SUBSET {w} |-> IF s = {} THEN 0 ELSE Gone(w)]
  <1>1. MapThenSumSet(Gone, {w}) = iter[{w}]
    BY DEF MapThenSumSet, MapThenFoldSet
  <1>2. \A s \in SUBSET {w} : s # {} => s = {w} /\ (CHOOSE x \in s : TRUE) = w
    OBVIOUS
  <1>3. sum = Body(sum)
    BY <1>2
  <1>4. iter = Body(iter)
    <2> HIDE DEF Body
    <2> QED
      BY <1>3
  <1> HIDE DEF iter
  <1>5. iter[{}] = 0
    BY <1>4
  <1>6. iter[{w}] = Gone(w) + iter[{w} \ {w}]
    BY <1>2, <1>4
  <1>7. {w} \ {w} = {}
    OBVIOUS
  <1>8. iter[{w}] = Gone(w) + 0
    BY <1>5, <1>6, <1>7
  <1>9. QED
    BY <1>1, <1>8

(* The gross amounts of no withdrawal.                                     *)
LEMMA SumOfGrossNone == MapThenSumSet(LAMBDA w : order[w].gross, {}) = 0
  <1> DEFINE Body(f) == [s \in SUBSET {} |->
               IF s = {} THEN 0
               ELSE LET x == CHOOSE x \in s : TRUE IN order[x].gross + f[s \ {x}]]
             iter == CHOOSE f : f = Body(f)
             zero == [s \in SUBSET {} |-> 0]
  <1>1. MapThenSumSet(LAMBDA w : order[w].gross, {}) = iter[{}]
    BY DEF MapThenSumSet, MapThenFoldSet
  <1>2. zero = Body(zero)
    OBVIOUS
  <1>3. iter = Body(iter)
    <2> HIDE DEF Body
    <2> QED
      BY <1>2
  <1>4. QED
    BY <1>1, <1>3

(* The gross amount of the one pending withdrawal.                         *)
LEMMA SumOfGrossOne ==
  ASSUME NEW w, order[w].gross \in Int
  PROVE  MapThenSumSet(LAMBDA v : order[v].gross, {w}) = order[w].gross
  <1> DEFINE Body(f) == [s \in SUBSET {w} |->
               IF s = {} THEN 0
               ELSE LET x == CHOOSE x \in s : TRUE IN order[x].gross + f[s \ {x}]]
             iter == CHOOSE f : f = Body(f)
             sum == [s \in SUBSET {w} |-> IF s = {} THEN 0 ELSE order[w].gross]
  <1>1. MapThenSumSet(LAMBDA v : order[v].gross, {w}) = iter[{w}]
    BY DEF MapThenSumSet, MapThenFoldSet
  <1>2. \A s \in SUBSET {w} : s # {} => s = {w} /\ (CHOOSE x \in s : TRUE) = w
    OBVIOUS
  <1>3. sum = Body(sum)
    BY <1>2
  <1>4. iter = Body(iter)
    <2> HIDE DEF Body
    <2> QED
      BY <1>3
  <1> HIDE DEF iter
  <1>5. iter[{}] = 0
    BY <1>4
  <1>6. iter[{w}] = order[w].gross + iter[{w} \ {w}]
    BY <1>2, <1>4
  <1>7. {w} \ {w} = {}
    OBVIOUS
  <1>8. iter[{w}] = order[w].gross + 0
    BY <1>5, <1>6, <1>7
  <1>9. QED
    BY <1>1, <1>8

(* A user's pending withdrawals are one at most, so his books are what     *)
(* RefundsMatchLedger says of them.                                        *)
LEMMA BalancedSums ==
  ASSUME IInv
  PROVE  RefundsMatchLedger
  <1> SUFFICES ASSUME NEW u \in Users, Heard(u)
               PROVE  LET P == {w \in Of(u) : Pending(w)} IN
                      funds[u] + MapThenSumSet(Gone, P)
                        = available[u] + MapThenSumSet(LAMBDA w : order[w].gross, P)
    BY DEF RefundsMatchLedger, Heard
  <1> DEFINE P == {w \in Of(u) : Pending(w)}
  <1>1. Balanced(u)
    BY DEF IInv, BooksMatch
  <1>2. CASE P = {}
    <2>1. funds[u] = available[u] /\ funds[u] \in Nat
      BY <1>1, <1>2 DEF Balanced, IInv, TypeOK
    <2>2. QED
      BY <1>2, <2>1, SumOfGoneNone, SumOfGrossNone
  <1>3. CASE P # {}
    <2>1. PICK w \in P : TRUE
      BY <1>3
    <2>2. w \in Withdrawals /\ Pending(w) /\ Owner[w] = u
      BY DEF Of
    <2>3. P = {w}
      BY <2>2 DEF IInv, OnePending, Of
    <2>4. order[w].gross \in Nat /\ order[w].net \in Nat
      BY <2>2 DEF IInv, TypeOK
    <2>5. Gone(w) \in Int
      <3>1. sent[w] \in Nat /\ sent[w] <= 1
        BY <2>2 DEF IInv, TypeOK, SentAtMostOnce
      <3>2. sent[w] = 0 \/ sent[w] = 1
        BY <3>1
      <3>3. QED
        BY <2>4, <3>2 DEF Gone, Reserved
    <2>6. funds[u] + Gone(w) = available[u] + order[w].gross
      BY <1>1 DEF Balanced
    <2>7. MapThenSumSet(Gone, {w}) = Gone(w)
      BY <2>5, SumOfGoneOne
    <2>8. MapThenSumSet(LAMBDA v : order[v].gross, {w}) = order[w].gross
      <3>1. order[w].gross \in Int
        BY <2>4
      <3>2. QED
        BY <3>1, SumOfGrossOne, Zenon
    <2>9. QED
      BY <2>3, <2>6, <2>7, <2>8
  <1>4. QED
    BY <1>2, <1>3

-----------------------------------------------------------------------------
(* The invariant holds to begin with.                                      *)
LEMMA InitIInv ==
  ASSUME Init
  PROVE  IInv
  <1> USE WithdrawalAssumption DEF Init
  <1>1. TypeOK
    BY DEF TypeOK, Phases, WalStatuses, Calls, NoOrder, Ages, Young, Expired
  <1>2. RecordsAgree /\ SentAtMostOnce /\ OnePending /\ CallsFitPhase
    BY DEF RecordsAgree, SentAtMostOnce, OnePending, CallsFitPhase, Pending
  <1>3. OrdersAreSound
    BY DEF OrdersAreSound
  <1>4. EffectsFitPhase /\ AllowancePaysOnce
    BY DEF EffectsFitPhase, EffectsOf, AllowancePaysOnce, Pending
  <1>5. BooksMatch
    BY DEF BooksMatch, Balanced, Of, Pending
  <1>6. QED
    BY <1>1, <1>2, <1>3, <1>4, <1>5 DEF IInv

(* The inductive invariant, for every set of users and withdrawals.        *)
THEOREM Inductive == Spec => []IInv
  <1>1. Init => IInv
    BY InitIInv
  <1>2. IInv /\ [Next]_vars => IInv'
    BY TypeStep, RecordsStep, OnePendingStep, CallsStep, OrdersStep, EffectsStep,
      SentStep, AllowanceStep, BooksStep DEF IInv
  <1>3. QED
    BY <1>1, <1>2, PTL DEF Spec

(* The model's variables keep their types: no balance, no allowance and no *)
(* account of the ledger is ever overdrawn.                                *)
THEOREM TypeCorrect == Spec => []TypeOK
  BY Inductive, PTL DEF IInv

(* The journal entry of a withdrawal and its WAL row never disagree about  *)
(* whether it is unfinished, or has failed.                                *)
THEOREM RecordsNeverDisagree == Spec => []RecordsAgree
  BY Inductive, PTL DEF IInv

(* The minter never sends a withdrawal's bitcoins a second time, however   *)
(* often the operator runs it again and whichever answers are lost.        *)
THEOREM NothingIsSentTwice == Spec => []SentAtMostOnce
  BY Inductive, PTL DEF IInv

(* What is refunded is what the ledger still holds, as long as the         *)
(* canister has heard of what its failed withdrawals did.                  *)
THEOREM RefundsAreMatched == Spec => []RefundsMatchLedger
  <1>1. IInv => RefundsMatchLedger
    BY BalancedSums
  <1>2. QED
    BY Inductive, <1>1, PTL
=============================================================================
