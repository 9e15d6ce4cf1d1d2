----------------------------- MODULE TradingBot -----------------------------
(***************************************************************************)
(* The trading bots (apps/volumetric-bot), each with a wallet of its own:  *)
(* a tick makes sure of the account, then accepts the best offer of other  *)
(* writers or, where there is none, makes an offer.  Ticks of a bot are    *)
(* started by the schedule and by POST /run: in a worker they overlap, in  *)
(* the node process there is one at a time.  A tick is cut at its awaits;  *)
(* what it signs may reach the canister late, twice or never.              *)
(*                                                                         *)
(* Of the canister only what answers a bot is here: nonces, the check of a *)
(* request, an accept in progress.  Platform and transfer fees are left    *)
(* out.                                                                    *)
(***************************************************************************)
EXTENDS OrderBook, Sequences

CONSTANTS
  Bots, Writers, Slots, BotOf,   \* slots: ticks that may run at one time
  Registered0, Book0, Available0,
  MinCreate, MaxCreate, MaxPerTerm,
  MaxOpen,                       \* MAX_OPEN_OFFERS: 4
  Strikes, Premiums,             \* basis points of the configuration
  Actions,                       \* how ticks are started
  Deposit,                       \* what update_ckbtc_balance may find
  MaxSigned, MaxFailures, MaxDeposits   \* bounds of the model

TradingBotAssumption ==
  /\ BotOf \in [Slots -> Bots] /\ Bots \cap Writers = {} /\ Registered0 \subseteq Bots
  /\ Available0 \in [Bots \cup Writers -> Nat] /\ Strikes # {} /\ Premiums # {}
  /\ {MinCreate, MaxCreate, MaxPerTerm, MaxOpen, Deposit} \subseteq Nat
  /\ Actions \subseteq {"random", "create", "accept"}
  /\ {MaxSigned, MaxFailures, MaxDeposits} \subseteq Nat

VARIABLES
  registered, nonce, book, pending, available, deals,   \* the canister
  ready,     \* setupCompleted of each bot
  tick,      \* the ticks: [at, action, run, list, draft]
  sent,      \* signed requests, which the network may deliver
  failures, deposits

canister == <<registered, nonce, book, pending, available, deals>>
vars == <<canister, ready, tick, sent, failures, deposits>>

NoDraft == [kind |-> "none"]
Off == [at |-> "off", action |-> "random", run |-> 0, list |-> <<>>, draft |-> NoDraft]

Held(o) == \E b \in Bots : pending[b] # NoDraft /\ pending[b].offer = o
OpenBook == Restrict(book, {o \in DOMAIN book : ~Held(o)})
Written(b, list) == {o \in DOMAIN list : list[o].writer = b}

Init ==
  /\ registered = Registered0 /\ nonce = [b \in Bots |-> 0]
  /\ book = Book0 /\ pending = [b \in Bots |-> NoDraft] /\ available = Available0
  /\ deals = <<>> /\ ready = [b \in Bots |-> FALSE]
  /\ tick = [t \in Slots |-> Off] /\ sent = {}
  /\ failures = 0 /\ deposits = 0

Step(t, from, to) == tick[t].at = from /\ tick' = [tick EXCEPT ![t] = to]

-----------------------------------------------------------------------------
(* ensureSetup.                                                            *)
FirstStage(action) == IF action = "create" THEN "create" ELSE "accept"

Start(t, action) ==
  LET run == Cardinality({r \in sent : r.slot = t}) IN
  /\ Step(t, "off", [Off EXCEPT !.action = action, !.run = run,
             !.at = IF ready[BotOf[t]] THEN FirstStage(action) ELSE "setup"])
  /\ UNCHANGED <<canister, ready, sent, failures, deposits>>

SetUp(t) ==
  IF BotOf[t] \in registered
  THEN /\ Step(t, "setup", [tick[t] EXCEPT !.at = FirstStage(tick[t].action)])
       /\ ready' = [ready EXCEPT ![BotOf[t]] = TRUE]
  ELSE /\ Step(t, "setup", [tick[t] EXCEPT !.at = "register"])
       /\ UNCHANGED ready

CheckAccount(t) == SetUp(t) /\ UNCHANGED <<canister, sent, failures, deposits>>

(* createAccount: refused when the account exists by now.                  *)
Register(t) ==
  LET b == BotOf[t] IN
  /\ IF b \notin registered
     THEN /\ Step(t, "register", [tick[t] EXCEPT !.at = FirstStage(tick[t].action)])
          /\ registered' = registered \cup {b}
          /\ ready' = [ready EXCEPT ![b] = TRUE]
     ELSE Step(t, "register", Off) /\ UNCHANGED <<registered, ready>>
  /\ UNCHANGED <<nonce, book, pending, available, deals, sent, failures, deposits>>

-----------------------------------------------------------------------------
(* acceptOffer.                                                            *)
Score(offer) == offer.strike - offer.bps

(* compareOffers: score, premium, amount, age.                             *)
Better(list, o, p) ==
  \/ Score(list[o]) > Score(list[p])
  \/ /\ Score(list[o]) = Score(list[p])
     /\ \/ list[o].bps < list[p].bps
        \/ /\ list[o].bps = list[p].bps
           /\ \/ list[o].quantity > list[p].quantity
              \/ list[o].quantity = list[p].quantity /\ o <= p

Candidates(b, list) ==
  {o \in DOMAIN list : list[o].writer # b /\ list[o].short /\ list[o].quantity >= MinAccept}

ReadForAccept(t) ==
  LET list == Sent(OpenBook, available)
      candidates == Candidates(BotOf[t], list)
  IN
  /\ \/ /\ candidates = {}
        /\ Step(t, "accept", IF tick[t].action = "random"
                             THEN [tick[t] EXCEPT !.at = "create"] ELSE Off)
     \/ \E o \in candidates :
          /\ \A p \in candidates : Better(list, o, p)
          /\ Step(t, "accept", [tick[t] EXCEPT !.at = "sign", !.list = list,
               !.draft = [kind |-> "accept", offer |-> o, quantity |-> list[o].quantity]])
  /\ UNCHANGED <<canister, ready, sent, failures, deposits>>

-----------------------------------------------------------------------------
(* createOffer.                                                            *)
ReadForCreate(t) ==
  LET list == Sent(OpenBook, available) IN
  /\ Step(t, "create", IF Cardinality(Written(BotOf[t], list)) >= MaxOpen THEN Off
                       ELSE [tick[t] EXCEPT !.at = "balance", !.list = list])
  /\ UNCHANGED <<canister, ready, sent, failures, deposits>>

(* buildOfferParams: of the amounts, the least and the greatest.           *)
Drafts(b, list) ==
  LET largest == Smaller(MaxCreate, available[b])
      market(strike) == {list[o].bps : o \in {p \in DOMAIN list :
                           list[p].short /\ list[p].strike = strike}}
      clamped(bps) == Max({Min(Premiums), Smaller(bps, Max(Premiums))})
      quoted(strike) == IF market(strike) = {} THEN Premiums ELSE market(strike)
  IN  UNION {{[kind |-> "create", quantity |-> q, bps |-> clamped(bps), strike |-> strike] :
                q \in {MinCreate, largest}, bps \in quoted(strike)} : strike \in Strikes}

ReadBalance(t) ==
  LET b == BotOf[t] IN
  /\ IF available[b] >= MinCreate /\ MaxCreate >= MinCreate
     THEN \E d \in Drafts(b, tick[t].list) :
            Step(t, "balance", [tick[t] EXCEPT !.at = "sign", !.draft = d])
     ELSE Step(t, "balance", [tick[t] EXCEPT !.at = "sync"])
  /\ UNCHANGED <<canister, ready, sent, failures, deposits>>

(* syncBalance, which may find a deposit, and the second look.             *)
Sync(t) ==
  LET b == BotOf[t] IN
  /\ \/ deposits < MaxDeposits /\ deposits' = deposits + 1
        /\ available' = [available EXCEPT ![b] = @ + Deposit]
     \/ UNCHANGED <<available, deposits>>
  /\ IF available'[b] >= MinCreate /\ MaxCreate >= MinCreate
     THEN Step(t, "sync", [tick[t] EXCEPT !.at = "balance"])
     ELSE Step(t, "sync", Off)
  /\ UNCHANGED <<registered, nonce, book, pending, deals, ready, sent, failures>>

(* The message carries the nonce of the moment; the wallet is a key in     *)
(* memory.                                                                 *)
Sign(t) ==
  LET b == BotOf[t] IN
  /\ Cardinality(sent) < MaxSigned
  /\ Step(t, "sign", [tick[t] EXCEPT !.at = "wait"])
  /\ sent' = sent \cup {[bot |-> b, slot |-> t, run |-> tick[t].run, nonce |-> nonce[b],
                         draft |-> tick[t].draft]}
  /\ UNCHANGED <<canister, ready, failures, deposits>>

(* The request succeeds, is refused or stays unanswered: an accept that    *)
(* ends in an error is not followed by an offer.                           *)
Over(t) == Step(t, "wait", Off)

End(t) == Over(t) /\ UNCHANGED <<canister, ready, sent, failures, deposits>>

(* Any call of a tick may fail, and an isolate may be replaced.            *)
Fail(t) ==
  /\ tick[t].at # "off" /\ failures < MaxFailures
  /\ failures' = failures + 1
  /\ tick' = [tick EXCEPT ![t] = Off]
  /\ \/ UNCHANGED registered
     \/ tick[t].at = "register" /\ registered' = registered \cup {BotOf[t]}
  /\ UNCHANGED <<nonce, book, pending, available, deals, ready, sent, deposits>>

Restart(b) ==
  /\ failures < MaxFailures /\ failures' = failures + 1
  /\ ready' = [ready EXCEPT ![b] = FALSE]
  /\ tick' = [t \in Slots |-> IF BotOf[t] = b THEN Off ELSE tick[t]]
  /\ UNCHANGED <<canister, sent, deposits>>

-----------------------------------------------------------------------------
(* The canister.                                                           *)

(* Fault: a signature is good for any nonce.                               *)
AnyNonce(r) == TRUE
Fresh(r) == r.nonce = nonce[r.bot]

Acceptable(r) ==
  LET d == r.draft IN
  /\ d.offer \in DOMAIN book /\ ~Held(d.offer) /\ pending[r.bot] = NoDraft
  /\ book[d.offer].writer # r.bot
  /\ d.quantity \in MinAccept .. MaxAccept /\ d.quantity <= book[d.offer].quantity
  /\ PremiumOf(book[d.offer].bps, d.quantity) <= available[r.bot]
  /\ d.quantity <= available[book[d.offer].writer]

Creatable(r) ==
  LET d == r.draft
      bucket == {o \in Written(r.bot, OpenBook) : book[o].short /\ book[o].strike = d.strike}
  IN
  /\ d.quantity \in MinCreate .. MaxCreate /\ d.quantity <= available[r.bot]
  /\ Cardinality(bucket) < MaxPerTerm

Receive(r) ==
  LET d == r.draft  id == 1 + Cardinality(DOMAIN Book0) + Len(deals) IN
  /\ Fresh(r)
  /\ nonce' = [nonce EXCEPT ![r.bot] = @ + 1]
  /\ CASE d.kind = "accept" /\ Acceptable(r) ->
            /\ pending' = [pending EXCEPT ![r.bot] =
                 [offer |-> d.offer, quantity |-> d.quantity, request |-> r]]
            /\ book' = [book EXCEPT ![d.offer].quantity = @ - d.quantity]
            /\ available' = [available EXCEPT
                 ![r.bot] = @ - PremiumOf(book[d.offer].bps, d.quantity),
                 ![book[d.offer].writer] = @ - d.quantity]
            /\ UNCHANGED deals
       [] d.kind = "create" /\ Creatable(r) ->
            /\ book' = [o \in DOMAIN book \cup {id} |-> IF o # id THEN book[o] ELSE
                 [writer |-> r.bot, bps |-> d.bps, quantity |-> d.quantity,
                  strike |-> d.strike, short |-> TRUE]]
            /\ deals' = Append(deals, r)
            /\ UNCHANGED <<pending, available>>
       [] OTHER -> UNCHANGED <<book, pending, available, deals>>
  /\ UNCHANGED <<registered, ready, tick, sent, failures, deposits>>

(* An accept in progress ends: the option is made, or all is put back.     *)
Conclude(b, accepted) ==
  LET a == pending[b]  offer == book[a.offer]  premium == PremiumOf(offer.bps, a.quantity) IN
  /\ a # NoDraft
  /\ pending' = [pending EXCEPT ![b] = NoDraft]
  /\ IF accepted
     THEN /\ book' = IF offer.quantity = 0 THEN Restrict(book, DOMAIN book \ {a.offer}) ELSE book
          /\ available' = [available EXCEPT ![offer.writer] = @ + premium]
          /\ deals' = Append(deals, a.request)
     ELSE /\ book' = [book EXCEPT ![a.offer].quantity = @ + a.quantity]
          /\ available' = [available EXCEPT ![offer.writer] = @ + a.quantity, ![b] = @ + premium]
          /\ UNCHANGED deals
  /\ UNCHANGED <<registered, nonce, ready, tick, sent, failures, deposits>>

TickStep(t) ==
  \/ CheckAccount(t) \/ Register(t) \/ ReadForAccept(t) \/ ReadForCreate(t)
  \/ ReadBalance(t) \/ Sync(t) \/ Sign(t) \/ End(t)

Next ==
  \/ \E t \in Slots, action \in Actions : Start(t, action)
  \/ \E t \in Slots : TickStep(t) \/ Fail(t)
  \/ \E b \in Bots : Restart(b)
  \/ \E r \in sent : Receive(r)
  \/ \E b \in Bots, accepted \in BOOLEAN : Conclude(b, accepted)

Spec == Init /\ [][Next]_vars

-----------------------------------------------------------------------------
TypeOK ==
  /\ registered \subseteq Bots /\ nonce \in [Bots -> Nat]
  /\ available \in [Bots \cup Writers -> Nat]
  /\ \A o \in DOMAIN book : book[o].quantity \in Nat /\ (book[o].quantity = 0 => Held(o))
  /\ \A b \in Bots : pending[b] = NoDraft \/ pending[b].offer \in DOMAIN book
  /\ \A t \in Slots : tick[t].at \in {"off", "setup", "register", "accept", "create",
                                      "balance", "sync", "sign", "wait"}

(* A tick trades at most once, whatever answers get lost: an accept whose  *)
(* outcome is not known is not followed by an offer (runRandomAction).     *)
OneTradePerTick ==
  \A i, j \in DOMAIN deals :
    (deals[i].slot = deals[j].slot /\ deals[i].run = deals[j].run) => i = j

(* Two ticks of a bot that signed the same nonce do not both trade, and a  *)
(* request that arrives twice trades once.                                 *)
OneTradePerNonce ==
  \A i, j \in DOMAIN deals :
    (deals[i].bot = deals[j].bot /\ deals[i].nonce = deals[j].nonce) => i = j

(* A test says that a bot skips making an offer when the cap of open       *)
(* offers is reached: its open offers never exceed the cap.                *)
OpenOffersAtMostTheCap ==
  \A b \in Bots : Cardinality(Written(b, OpenBook)) <= MaxOpen
=============================================================================
