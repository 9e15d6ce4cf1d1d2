-------------------------------- MODULE Buying -------------------------------
(***************************************************************************)
(* Buying an option in the web application: the list of offers, fetched in *)
(* two reads of the canister and kept while it ages; the form that turns   *)
(* an amount of premium into an order; the slide, the signature, the       *)
(* request to the server and its polling of the operation; the canister's  *)
(* accept_offers, seen from outside (Acceptance models its inside).        *)
(*                                                                         *)
(* One buyer in one term and strike.  Other buyers, the writers and the    *)
(* network act at any time.  A request that was sent may arrive late, or   *)
(* twice, and its answer may be lost.                                      *)
(***************************************************************************)
EXTENDS OrderBook, Sequences

CONSTANTS
  Users, Offers, Writer, PremiumBps,
  Buyer, Quantity0, Available0,
  TransferFee,          \* of the ledger; two transfers are charged
  Amounts,              \* amounts the buyer may type
  MaxSigned, MaxMoves   \* bounds: orders signed, moves of the others

ASSUME BuyingAssumption ==
  /\ Offers \subseteq Nat \ {0} /\ IsFiniteSet(Offers) /\ Buyer \in Users
  /\ Writer \in [Offers -> Users] /\ PremiumBps \in [Offers -> Nat \ {0}]
  /\ Quantity0 \in [Offers -> Nat] /\ Available0 \in [Users -> Nat]
  /\ TransferFee \in Nat /\ Amounts \subseteq Nat
  /\ MaxSigned \in Nat /\ MaxMoves \in Nat

VARIABLES
  open, left, available,  \* the canister: open offers, what is left, balances
  nonce,                  \* nonce of the buyer's wallet
  operations,             \* accept operations, in the order they were taken
  read,                   \* list-options between its two reads: <<>> or <<Book>>
  listing, balance,       \* what the browser holds of the book and the account
  amount, page, step,     \* the form
  order,                  \* the order of the current or last attempt
  sent,                   \* requests the network may deliver
  polled,                 \* operation the server polls for the browser, or 0
  moves                   \* moves of the others so far

canister == <<open, left, available, nonce, operations>>
form == <<amount, page, step, order>>
vars == <<canister, read, listing, balance, form, sent, polled, moves>>

Pages == <<"termStrike", "amount", "review">>
NoOrder == [offer |-> NoOffer, quantity |-> 0, amount |-> 0, nonce |-> 0]

Book == [o \in open |->
  [writer |-> Writer[o], bps |-> PremiumBps[o], quantity |-> left[o]]]

Debit(o, quantity) == PremiumOf(PremiumBps[o], quantity) + 2 * TransferFee

Init ==
  /\ open = Offers /\ left = Quantity0 /\ available = Available0
  /\ nonce = 0 /\ operations = <<>>
  /\ read = <<>> /\ listing = <<>> /\ balance = 0
  /\ amount = 0 /\ page = 1 /\ step = "idle" /\ order = NoOrder
  /\ sent = {} /\ polled = 0 /\ moves = 0

-----------------------------------------------------------------------------
(* The form: what it derives from the list, the balance and the amount.    *)
Offered == OthersOf(Buyer, listing)
MaxAmount(offered, funds) == Smaller(MaxPremium(offered), funds)
Largest == MaxAmount(Offered, balance)
Least == MinPremium(Offered)
NeedsDeposit == Least > 0 /\ balance < Least

Valid ==
  /\ amount > 0 /\ amount >= Least
  /\ ~(Largest > 0 /\ amount > Largest)
  /\ BestOffer(Offered, amount) # NoOffer

(* When the largest amount changes, three quarters of it are put in.       *)
Adjust(offered, funds) ==
  LET largest == MaxAmount(offered, funds) IN
  amount' = IF largest = Largest THEN amount ELSE (3 * largest) \div 4

(* listOptions: the offers, then the balances of their writers; writers    *)
(* whose balances could not be read count as having nothing.               *)
BalancesRead(answered) == [u \in Users |-> IF answered THEN available[u] ELSE 0]

ReadOffers ==
  /\ read = <<>>
  /\ read' = <<Book>>
  /\ UNCHANGED <<canister, listing, balance, form, sent, polled, moves>>

ReadBalances ==
  /\ read # <<>>
  /\ \E answered \in BOOLEAN :
     LET new == Listed(read[1], BalancesRead(answered)) IN
       /\ listing' = new
       /\ Adjust(OthersOf(Buyer, new), balance)
  /\ read' = <<>>
  /\ UNCHANGED <<canister, balance, page, step, order, sent, polled, moves>>

RefreshAccount ==
  /\ balance' = available[Buyer]
  /\ Adjust(Offered, balance')
  /\ UNCHANGED <<canister, read, listing, page, step, order, sent, polled, moves>>

Type(x) ==
  /\ Pages[page] = "amount" /\ step = "idle"
  /\ amount' = x
  /\ UNCHANGED <<canister, read, listing, balance, page, step, order, sent, polled, moves>>

CanAdvance ==
  CASE Pages[page] = "termStrike" -> DOMAIN Offered # {}
    [] Pages[page] = "amount" -> ~NeedsDeposit /\ amount >= Least /\ amount <= Largest
    [] OTHER -> FALSE

Continue ==
  /\ CanAdvance /\ step = "idle"
  /\ page' = page + 1
  /\ UNCHANGED <<canister, read, listing, balance, amount, step, order, sent, polled, moves>>

Back ==
  /\ page > 1 /\ step = "idle"
  /\ page' = page - 1
  /\ UNCHANGED <<canister, read, listing, balance, amount, step, order, sent, polled, moves>>

-----------------------------------------------------------------------------
(* One purchase, from the slide to its outcome.                            *)
(* handleSubmit: the order is what the form shows.                         *)
Slide ==
  /\ Pages[page] = "review" /\ step = "idle"
  /\ ~NeedsDeposit /\ Valid
  /\ Cardinality(sent) < MaxSigned
  /\ LET best == BestOffer(Offered, amount) IN
     order' = [offer |-> best, quantity |-> QuantityFor(PremiumBps[best], amount),
               amount |-> amount, nonce |-> nonce]
  /\ step' = "signing"
  /\ UNCHANGED <<canister, read, listing, balance, amount, page, sent, polled, moves>>

(* Fault: the offer is looked up again once the wallet has answered.       *)
SignLate ==
  /\ step = "signing"
  /\ step' = "submitting"
  /\ order' = [order EXCEPT !.offer = BestOffer(Offered, amount), !.nonce = nonce]
  /\ sent' = sent \cup {order'}
  /\ UNCHANGED <<canister, read, listing, balance, amount, page, polled, moves>>

(* The message, fetched at some moment since the slide, carries the nonce  *)
(* of the wallet.                                                          *)
Sign ==
  /\ step = "signing"
  /\ \E n \in order.nonce .. nonce : order' = [order EXCEPT !.nonce = n]
  /\ step' = "submitting" /\ sent' = sent \cup {order'}
  /\ UNCHANGED <<canister, read, listing, balance, amount, page, polled, moves>>

(* The wallet refuses, or the message cannot be fetched.                   *)
Decline ==
  /\ step = "signing"
  /\ step' = "error"
  /\ UNCHANGED <<canister, read, listing, balance, amount, page, order, sent, polled, moves>>

(* Fault: a signature is good for more than one request.                   *)
AnyNonce(r) == TRUE

(* A signature is good for the nonce it was made for.                      *)
Fresh(r) == r.nonce = nonce

InProgress == \E i \in DOMAIN operations : operations[i].status = "Pending"

Acceptable(r) ==
  /\ r.offer \in open /\ r.quantity <= left[r.offer]
  /\ r.quantity \in MinAccept .. MaxAccept /\ Writer[r.offer] # Buyer
  /\ ~InProgress

Covered(r) == available[Writer[r.offer]] >= r.quantity

Payable(r) == available[Buyer] >= Debit(r.offer, r.quantity)

(* accept_offers takes the request: the offer is held, collateral and      *)
(* debit leave the balances.                                               *)
Take(r) ==
  /\ Fresh(r) /\ Acceptable(r) /\ Covered(r) /\ Payable(r)
  /\ open' = open \ {r.offer}
  /\ left' = [left EXCEPT ![r.offer] = @ - r.quantity]
  /\ available' = [available EXCEPT ![Writer[r.offer]] = @ - r.quantity,
                                    ![Buyer] = @ - Debit(r.offer, r.quantity)]
  /\ nonce' = nonce + 1
  /\ operations' = Append(operations,
       [status |-> "Pending", order |-> r,
        debit |-> Debit(r.offer, r.quantity), was |-> left[r.offer]])
  /\ polled' = IF step = "submitting" /\ r = order THEN Len(operations') ELSE polled
  /\ UNCHANGED <<read, listing, balance, form, sent, moves>>

(* Or refuses it, the nonce used up all the same: a check fails, or the    *)
(* fee of the ledger is not known, or the balance is in use.  An offer its *)
(* writer cannot cover is closed.                                          *)
Refuse(r) ==
  /\ Fresh(r)
  /\ \/ open' = open
     \/ Acceptable(r) /\ ~Covered(r) /\ open' = open \ {r.offer}
  /\ nonce' = nonce + 1
  /\ step' = IF step = "submitting" /\ r = order /\ polled = 0 THEN "error" ELSE step
  /\ UNCHANGED <<left, available, operations, read, listing, balance, amount, page,
                 order, sent, polled, moves>>

(* A stale signature changes nothing.                                      *)
RefuseStale(r) ==
  /\ ~Fresh(r)
  /\ step = "submitting" /\ r = order /\ polled = 0
  /\ step' = "error"
  /\ UNCHANGED <<canister, read, listing, balance, amount, page, order, sent, polled,
                 moves>>

(* The operation ends: the option exists, or everything is undone.         *)
Succeed(i) ==
  LET r == operations[i].order IN
  /\ operations[i].status = "Pending"
  /\ operations' = [operations EXCEPT ![i].status = "Succeeded"]
  /\ open' = IF left[r.offer] > 0 THEN open \cup {r.offer} ELSE open
  /\ UNCHANGED <<left, available, nonce, read, listing, balance, form, sent, polled, moves>>

Fail(i) ==
  LET r == operations[i].order IN
  /\ operations[i].status = "Pending"
  /\ operations' = [operations EXCEPT ![i].status = "Failed"]
  /\ open' = open \cup {r.offer}
  /\ left' = [left EXCEPT ![r.offer] = operations[i].was]
  /\ available' = [available EXCEPT ![Writer[r.offer]] = @ + r.quantity,
                                    ![Buyer] = @ + operations[i].debit]
  /\ UNCHANGED <<nonce, read, listing, balance, form, sent, polled, moves>>

(* Fault: any terminal status counts as a purchase.                        *)
AnyEnd(status) == IF status = "Pending" THEN "submitting" ELSE "success"

Outcome(status) ==
  CASE status = "Succeeded" -> "success"
    [] status = "Failed" -> "error"
    [] OTHER -> "submitting"

(* The server's poll finds the operation at its end.                       *)
Poll ==
  /\ step = "submitting" /\ polled # 0
  /\ Outcome(operations[polled].status) # "submitting"
  /\ step' = Outcome(operations[polled].status) /\ polled' = 0
  /\ UNCHANGED <<canister, read, listing, balance, amount, page, order, sent, moves>>

(* Thirty polls without an end, or the answer never reaches the browser.   *)
GiveUp ==
  /\ step = "submitting"
  /\ step' = "error" /\ polled' = 0
  /\ UNCHANGED <<canister, read, listing, balance, amount, page, order, sent, moves>>

(* The screen: in the review, what becomes of the purchase covers the page. *)
Screen == IF Pages[page] = "review" /\ step # "idle" THEN step ELSE Pages[page]

(* Closing the flow after an outcome, or trying again on the same page.    *)
Leave(to) ==
  /\ step \in {"success", "error"}
  /\ step = "success" => to = 1
  /\ step' = "idle" /\ page' = to
  /\ amount' = IF step = "success" THEN 0 ELSE amount
  /\ UNCHANGED <<canister, read, listing, balance, order, sent, polled, moves>>

-----------------------------------------------------------------------------
(* The others: another buyer, a withdrawal, a cancellation.                *)
OtherBuys(o, quantity) ==
  /\ o \in open /\ quantity \in MinAccept .. Smaller(left[o], available[Writer[o]])
  /\ left' = [left EXCEPT ![o] = @ - quantity]
  /\ available' = [available EXCEPT ![Writer[o]] = @ - quantity]
  /\ open' = IF left'[o] = 0 THEN open \ {o} ELSE open
  /\ UNCHANGED <<nonce, operations, read, listing, balance, form, sent, polled>>

Spend(u, x) ==
  /\ moves < MaxMoves /\ available[u] >= x /\ x > 0
  /\ available' = [available EXCEPT ![u] = @ - x]
  /\ UNCHANGED <<open, left, nonce, operations, read, listing, balance, form, sent, polled>>

Cancel(o) ==
  /\ o \in open
  /\ open' = open \ {o}
  /\ UNCHANGED <<left, available, nonce, operations, read, listing, balance, form, sent,
                 polled>>

Browse ==
  \/ ReadOffers \/ ReadBalances \/ RefreshAccount
  \/ Continue \/ Back \/ (\E x \in Amounts : Type(x))

Purchase ==
  \/ Slide \/ Sign \/ Decline \/ Poll \/ GiveUp
  \/ \E to \in {1, 3} : Leave(to)
  \/ \E r \in sent : Take(r) \/ Refuse(r) \/ RefuseStale(r)
  \/ \E i \in DOMAIN operations : Succeed(i) \/ Fail(i)

Others ==
  /\ moves < MaxMoves /\ moves' = moves + 1
  /\ \/ \E o \in Offers : Cancel(o) \/ OtherBuys(o, MinAccept)
     \/ \E u \in Users : Spend(u, MinAccept)

Next == Browse \/ Purchase \/ Others

(* Polling has an end.  Nothing is assumed of the wallet.                  *)
Fairness == WF_vars(Poll \/ GiveUp)

Spec == Init /\ [][Next]_vars
FairSpec == Spec /\ Fairness

-----------------------------------------------------------------------------
Entries == [writer : Users, bps : Nat \ {0}, quantity : Nat]
IsBook(b) == DOMAIN b \subseteq Offers /\ \A o \in DOMAIN b : b[o] \in Entries
Orders ==
  [offer : Offers \cup {NoOffer}, quantity : Nat, amount : Nat, nonce : Nat]
Operations ==
  [status : {"Pending", "Succeeded", "Failed"}, order : Orders, debit : Nat, was : Nat]

TypeOK ==
  /\ open \subseteq Offers /\ left \in [Offers -> Nat] /\ available \in [Users -> Nat]
  /\ nonce \in Nat /\ operations \in Seq(Operations)
  /\ read # <<>> => IsBook(read[1])
  /\ IsBook(listing) /\ balance \in Nat /\ amount \in Nat
  /\ page \in 1 .. 3 /\ step \in {"idle", "signing", "submitting", "success", "error"}
  /\ order \in Orders /\ sent \subseteq Orders
  /\ polled \in 0 .. Len(operations) /\ moves \in 0 .. MaxMoves

(* An option never costs more premium than the amount the buyer confirmed, *)
(* whatever happened to the book, to prices and to the form since.         *)
PremiumWithinAmount ==
  \A i \in DOMAIN operations :
    LET r == operations[i].order IN PremiumOf(PremiumBps[r.offer], r.quantity) <= r.amount

(* A slide is good for one purchase, however often or late its request     *)
(* reaches the canister: no two operations come from one signature.        *)
OneSignatureOnePurchase ==
  \A i, j \in DOMAIN operations :
    operations[i].order.nonce = operations[j].order.nonce => i = j

(* The success screen tells of an option that exists.                      *)
SuccessIsBought ==
  Screen = "success" =>
    \E i \in DOMAIN operations :
      operations[i].order = order /\ operations[i].status = "Succeeded"

(* What the form would order from an up-to-date list and balance is an     *)
(* order the canister takes; only the fees of the ledger's transfers,      *)
(* which the form leaves out, may be missing.                              *)
FreshOrdersAreTaken ==
  LET upToDate == OthersOf(Buyer, Listed(Book, available)) IN
  ~InProgress =>
    \A x \in 1 .. MaxAmount(upToDate, available[Buyer]) :
      LET best == BestOffer(upToDate, x)
          r == [offer |-> best, quantity |-> QuantityFor(PremiumBps[best], x), amount |-> x,
                nonce |-> nonce]
      IN  best # NoOffer =>
            /\ Acceptable(r) /\ Covered(r)
            /\ available[Buyer] + 2 * TransferFee >= Debit(r.offer, r.quantity)

(* An offer the buyer's form picks is the cheapest that has the size, and  *)
(* the oldest of those: no writer is passed over by a dearer or newer one. *)
NobodyIsPassedOver ==
  LET offered == Offered IN
  \A x \in 1 .. MaxPremium(offered) :
    LET best == BestOffer(offered, x) IN
    \A o \in DOMAIN offered \ {best} :
      Serves(offered, o, x) =>
        best # NoOffer /\ RankInBook(offered, best) < RankInBook(offered, o)

(* With an up-to-date list, what the form would order is an order the      *)
(* canister takes; and the offer it picks is the cheapest that has the     *)
(* size, and the oldest of those.                                          *)
TheFormFitsTheBook == FreshOrdersAreTaken /\ NobodyIsPassedOver

(* A screen that cannot be closed is left: what was signed comes to an end *)
(* the buyer sees.                                                         *)
ProcessingEnds == Screen = "submitting" ~> Screen \in {"success", "error"}

(* Docs: the amount is the most the buyer can lose.                        *)
AmountIsMaxLoss ==
  \A i \in DOMAIN operations :
    operations[i].status = "Succeeded" => operations[i].debit <= operations[i].order.amount
=============================================================================
