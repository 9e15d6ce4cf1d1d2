---------------------------- MODULE AccountPanel ----------------------------
(***************************************************************************)
(* The account panel of the web application: the modal that sends a        *)
(* deposit from the connected wallet, the one that withdraws, and the      *)
(* settings with the user's name.  Each starts work that ends later, and   *)
(* whatever ends writes the step of the modal that is there by then.       *)
(*                                                                         *)
(* Withdrawals and names are requests the wallet signs with the nonce the  *)
(* canister told; the message is asked for, signed, sent and answered in   *)
(* steps of their own, and a request may arrive late, twice or never.      *)
(* When the wallet disconnects the panel is taken down; what it had        *)
(* started goes on and finds nobody to tell.                               *)
(***************************************************************************)
EXTENDS Naturals, Sequences

CONSTANTS
  Names, Amounts,            \* what the user may type
  MinDeposit, MinWithdraw,   \* MIN_DEPOSIT_SATS, MIN_WITHDRAW_SATS
  Wallet, Reserve,           \* the wallet's balance, the fee reserve
  Available0,
  MaxClicks, MaxRequests, MaxDisconnects   \* bounds of the model

AccountPanelAssumption ==
  /\ Amounts \subseteq Nat
  /\ {MinDeposit, MinWithdraw, Wallet, Reserve, Available0, MaxClicks, MaxRequests,
      MaxDisconnects} \subseteq Nat
  /\ Reserve % 2 = 0         \* a whole fee rate times 200 vbytes

VARIABLES
  nonce, name, available,   \* the canister
  accepted,                 \* requests it has carried out
  requests,                 \* all requests: [kind, value, panel, at, nonce, order, done]
  signatures,               \* how many have been signed
  panel,                    \* how many panels there have been
  balance,                  \* the account's balance the browser knows
  deposit, withdraw, settings,
  calls, clicks             \* deposits the wallet has not answered; clicks so far

canister == <<nonce, name, available, accepted>>
net == <<requests, signatures>>
modals == <<deposit, withdraw, settings>>
vars == <<canister, net, panel, balance, modals, calls, clicks>>

NoName == "none"
NoDeposit == [step |-> "input", amount |-> 0, click |-> 0, txid |-> 0]
NoWithdraw == [step |-> "idle", amount |-> 0, run |-> 0]
NoSettings == [draft |-> NoName, status |-> "idle", run |-> 0]

Init ==
  /\ nonce = 0 /\ name = NoName /\ available = Available0 /\ accepted = <<>>
  /\ requests = <<>> /\ signatures = 0 /\ panel = 1 /\ balance = Available0
  /\ deposit = NoDeposit /\ withdraw = NoWithdraw /\ settings = NoSettings
  /\ calls = {} /\ clicks = 0

-----------------------------------------------------------------------------
(* DepositModal.                                                           *)
MaxSpendable == LET kept == (Reserve \div 2) * 3 IN IF Wallet > kept THEN Wallet - kept ELSE 0

EnterDeposit(a) ==
  /\ deposit.step = "input" /\ deposit' = [deposit EXCEPT !.amount = a]
  /\ UNCHANGED <<canister, net, panel, balance, withdraw, settings, calls, clicks>>

HandleDeposit ==
  /\ deposit.step = "input" /\ clicks < MaxClicks
  /\ deposit.amount >= MinDeposit /\ deposit.amount <= MaxSpendable
  /\ clicks' = clicks + 1
  /\ deposit' = [deposit EXCEPT !.step = "sending", !.click = clicks + 1]
  /\ calls' = calls \cup {[click |-> clicks + 1, panel |-> panel]}
  /\ UNCHANGED <<canister, net, panel, balance, withdraw, settings>>

(* sendBitcoin returns a transaction, nothing, or throws.                  *)
DepositAnswer(c) ==
  /\ calls' = calls \ {c}
  /\ deposit' \in IF c.panel # panel THEN {deposit}
                  ELSE {[deposit EXCEPT !.step = "waiting", !.txid = c.click],
                        [deposit EXCEPT !.step = "error"]}
  /\ UNCHANGED <<canister, net, panel, balance, withdraw, settings, clicks>>

CloseDeposit ==
  /\ deposit.step # "sending" /\ deposit' = NoDeposit
  /\ UNCHANGED <<canister, net, panel, balance, withdraw, settings, calls, clicks>>

DepositAgain ==
  /\ deposit.step = "error" /\ deposit' = [deposit EXCEPT !.step = "input"]
  /\ UNCHANGED <<canister, net, panel, balance, withdraw, settings, calls, clicks>>

-----------------------------------------------------------------------------
(* Requests: useWithdraw and useUpdateUsername.                            *)
Ask(kind, value) ==
  /\ Len(requests) < MaxRequests
  /\ requests' = Append(requests, [kind |-> kind, value |-> value, panel |-> panel,
       at |-> "asked", nonce |-> 0, order |-> 0, done |-> "no"])
  /\ UNCHANGED signatures

EnterWithdraw(a) ==
  /\ withdraw.step = "idle" /\ withdraw' = [withdraw EXCEPT !.amount = a]
  /\ UNCHANGED <<canister, net, panel, balance, deposit, settings, calls, clicks>>

HandleWithdraw ==
  /\ withdraw.step = "idle"
  /\ withdraw.amount >= MinWithdraw /\ withdraw.amount <= balance
  /\ Ask("withdraw", withdraw.amount)
  /\ withdraw' = [withdraw EXCEPT !.step = "signing", !.run = Len(requests) + 1]
  /\ UNCHANGED <<canister, panel, balance, deposit, settings, calls, clicks>>

(* Fault: the modal may be closed while a withdrawal is on its way.        *)
CloseWithdrawAnyway ==
  /\ withdraw' = NoWithdraw
  /\ UNCHANGED <<canister, net, panel, balance, deposit, settings, calls, clicks>>

CloseWithdraw ==
  /\ withdraw.step \notin {"signing", "submitting"} /\ withdraw' = NoWithdraw
  /\ UNCHANGED <<canister, net, panel, balance, deposit, settings, calls, clicks>>

WithdrawAgain ==
  /\ withdraw.step = "error" /\ withdraw' = [withdraw EXCEPT !.step = "idle"]
  /\ UNCHANGED <<canister, net, panel, balance, deposit, settings, calls, clicks>>

(* Typing resets the mutation, also one under way.                         *)
EnterName(n) ==
  /\ settings' = [draft |-> n, status |-> "idle", run |-> 0]
  /\ UNCHANGED <<canister, net, panel, balance, deposit, withdraw, calls, clicks>>

SaveName ==
  /\ settings.draft # NoName /\ settings.status \notin {"pending", "success"}
  /\ Ask("name", settings.draft)
  /\ settings' = [settings EXCEPT !.status = "pending", !.run = Len(requests) + 1]
  /\ UNCHANGED <<canister, panel, balance, deposit, withdraw, calls, clicks>>

-----------------------------------------------------------------------------
(* A request: its message is told, it is signed, and what it comes to.     *)
At(r, from, to) == requests[r].at = from /\ requests' = [requests EXCEPT ![r] = to]

TellMessage(r) ==
  /\ At(r, "asked", [requests[r] EXCEPT !.at = "wallet", !.nonce = nonce])
  /\ UNCHANGED <<canister, signatures, panel, balance, modals, calls, clicks>>

(* setStep of the panel that started the request, if it is still there.    *)
WithdrawStep(r, step) ==
  IF requests[r].kind = "withdraw" /\ requests[r].panel = panel
  THEN [withdraw EXCEPT !.step = step] ELSE withdraw

SignRequest(r) ==
  /\ At(r, "wallet", [requests[r] EXCEPT !.at = "sent", !.order = signatures + 1])
  /\ signatures' = signatures + 1
  /\ withdraw' = WithdrawStep(r, "submitting")
  /\ UNCHANGED <<canister, panel, balance, deposit, settings, calls, clicks>>

Fresh(r) == requests[r].nonce = nonce

(* withdraw_ckbtc and update_username: the nonce is used up before the     *)
(* amount is looked at.                                                    *)
Receive(r) ==
  LET q == requests[r]  ok == q.kind = "name" \/ q.value <= available IN
  /\ q.order > 0 /\ Fresh(r)
  /\ nonce' = nonce + 1
  /\ IF ok
     THEN /\ accepted' = Append(accepted, r)
          /\ requests' = [requests EXCEPT ![r].done = "yes"]
          /\ IF q.kind = "name" THEN name' = q.value /\ UNCHANGED available
                                ELSE available' = available - q.value /\ UNCHANGED name
     ELSE UNCHANGED <<name, available, accepted, requests>>
  /\ UNCHANGED <<signatures, panel, balance, modals, calls, clicks>>

(* The mutation ends: declined, refused, unanswered, or done; a withdrawal *)
(* that is carried out may still be reported as failed.                    *)
Finish(r, outcome) ==
  LET q == requests[r] IN
  /\ q.at # "over" /\ (outcome = "success" => q.done = "yes" /\ q.at = "sent")
  /\ requests' = [requests EXCEPT ![r].at = "over"]
  /\ withdraw' = WithdrawStep(r, outcome)
  /\ settings' = IF q.kind = "name" /\ q.panel = panel /\ settings.run = r
                 THEN [settings EXCEPT !.status = outcome] ELSE settings
  /\ balance' \in IF outcome = "success" THEN {available} ELSE {balance}
  /\ UNCHANGED <<canister, signatures, panel, deposit, calls, clicks>>

Refetch ==
  /\ balance # available /\ balance' = available
  /\ UNCHANGED <<canister, net, panel, modals, calls, clicks>>

Disconnect ==
  /\ panel <= MaxDisconnects /\ panel' = panel + 1
  /\ deposit' = NoDeposit /\ withdraw' = NoWithdraw /\ settings' = NoSettings
  /\ UNCHANGED <<canister, net, balance, calls, clicks>>

Next ==
  \/ \E a \in Amounts : EnterDeposit(a) \/ EnterWithdraw(a)
  \/ \E n \in Names : EnterName(n)
  \/ HandleDeposit \/ CloseDeposit \/ DepositAgain
  \/ HandleWithdraw \/ CloseWithdraw \/ WithdrawAgain \/ SaveName
  \/ \E c \in calls : DepositAnswer(c)
  \/ \E r \in DOMAIN requests :
       \/ TellMessage(r) \/ SignRequest(r) \/ Receive(r)
       \/ \E outcome \in {"success", "error"} : Finish(r, outcome)
  \/ Refetch \/ Disconnect

Spec == Init /\ [][Next]_vars

(* The canister and the server answer, or a time limit does.  Nothing      *)
(* times out the wallet, which may leave a request or a deposit as it is.  *)
Served(r) ==
  \/ requests[r].at = "asked" /\ (TellMessage(r) \/ Finish(r, "error"))
  \/ requests[r].at = "sent" /\ Finish(r, "error")

FairSpec ==
  Spec /\ \A r \in 1 .. MaxRequests : WF_vars(r \in DOMAIN requests /\ Served(r))
-----------------------------------------------------------------------------
TypeOK ==
  /\ nonce \in Nat /\ name \in Names \cup {NoName} /\ available \in Nat /\ balance \in Nat
  /\ deposit.step \in {"input", "sending", "waiting", "error"}
  /\ withdraw.step \in {"idle", "signing", "submitting", "success", "error"}
  /\ settings.status \in {"idle", "pending", "success", "error"}
  /\ {settings.run, withdraw.run} \subseteq 0 .. Len(requests)

(* Requests of a user are carried out in the order he signed them and once *)
(* each: a signature the network kept back never comes after a later one,  *)
(* so that a name saved is not replaced by an older one (challenge nonces, *)
(* through useWithdraw and useUpdateUsername).                             *)
InOrderSigned ==
  \A i, j \in DOMAIN accepted :
    i < j => requests[accepted[i]].order < requests[accepted[j]].order

(* A modal that says its deposit is under way shows the transaction of the *)
(* last click, not of one before (handleClose).                            *)
WaitingShowsItsOwn == deposit.step = "waiting" => deposit.txid = deposit.click

(* A modal that says its withdrawal is submitted speaks of the one it      *)
(* started last, and the canister has it.                                  *)
SuccessIsItsOwn ==
  withdraw.step = "success" => \E i \in DOMAIN accepted : accepted[i] = withdraw.run

(* A withdrawal whose modal will not be closed while it works comes to an  *)
(* end, or it is the wallet that is waited for.                            *)
ModalsComeToRest ==
  withdraw.step \in {"signing", "submitting"} ~>
    \/ withdraw.step \notin {"signing", "submitting"}
    \/ requests[withdraw.run].at = "wallet"
=============================================================================
