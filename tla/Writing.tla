-------------------------------- MODULE Writing -------------------------------
(***************************************************************************)
(* Writing an option in the web application: the form with its premium and *)
(* its rank in the book, the slide, the signature and create_offer; the    *)
(* cards of the portfolio with what backs an offer, its rank and its       *)
(* cancellation; the canister's book, seen from outside, where buyers hold *)
(* an offer while an accept is in progress.                                *)
(*                                                                         *)
(* One writer in one term and strike.  Lists and the portfolio are fetched *)
(* and age; requests may arrive late, or twice, and answers may be lost.   *)
(***************************************************************************)
EXTENDS OrderBook, Sequences

CONSTANTS
  Users, Self,
  Book0, Available0,
  MinCreate, MaxCreate,     \* create_offer_quantity_sats
  MaxOffers,                \* max_offers_per_term
  PremiumValues,            \* offered by the slider, ascending
  Amounts,                  \* amounts the writer may type
  MaxSigned, MaxMoves       \* bounds: requests signed, moves of the others

WritingAssumption ==
  /\ Self \in Users /\ Available0 \in [Users -> Nat]
  /\ Book0 \in Seq([writer : Users, bps : Nat \ {0}, quantity : Nat])
  /\ MinCreate \in Nat \ {0} /\ MaxCreate \in Nat /\ MaxOffers \in Nat
  /\ PremiumValues \in Seq(Nat \ {0}) /\ PremiumValues # <<>>
  /\ Amounts \subseteq Nat /\ MaxSigned \in Nat /\ MaxMoves \in Nat

VARIABLES
  book, held, available,  \* the canister: live offers, quantity held by accepts
  nonce,                  \* nonce of the writer's wallet
  made,                   \* id of an offer -> the request that made it
  listing, balance,       \* what the browser holds of the book and the account
  cards, fetch,           \* the portfolio's offers; the running fetch of them
  amount, bps, page, step, draft,  \* the form
  cancelling,             \* offer -> what became of its cancellation
  sent,                   \* requests the network may deliver
  moves                   \* moves of the others so far

canister == <<book, held, available, nonce, made>>
portfolio == <<cards, fetch, cancelling>>
form == <<amount, bps, page, step, draft>>
vars == <<canister, listing, balance, portfolio, form, sent, moves>>

Pages == <<"termStrike", "collateral", "premium", "review">>

Ids == 1 .. (Cardinality(DOMAIN Book0) + 2)   \* a bound
Open(b, h) == Restrict(b, {o \in DOMAIN b : h[o] = 0})
Own(b) == {o \in DOMAIN b : b[o].writer = Self}
NoDraft == [kind |-> "create", quantity |-> 0, bps |-> 0, nonce |-> 0, attempt |-> 0]

Init ==
  /\ book = Book0 /\ held = [o \in Ids |-> 0] /\ available = Available0
  /\ nonce = 0 /\ made = <<>>
  /\ listing = <<>> /\ balance = 0 /\ cards = <<>> /\ fetch = <<>>
  /\ amount = 0 /\ bps = PremiumValues[1 + Len(PremiumValues) \div 2]
  /\ page = 1 /\ step = "idle" /\ draft = NoDraft
  /\ cancelling = [o \in Ids |-> "no"] /\ sent = {} /\ moves = 0

-----------------------------------------------------------------------------
(* The form.                                                               *)
LargestOf(funds) == Smaller(MaxCreate, funds)
Valid == amount >= MinCreate /\ amount <= LargestOf(balance)
NeedsDeposit == balance < MinCreate

(* When the largest amount changes, three quarters of it are put in.       *)
Adjusted(funds) ==
  LET largest == LargestOf(funds) IN
  CASE largest = LargestOf(balance) -> amount
    [] largest < MinCreate -> 0
    [] OTHER -> Max({(3 * largest) \div 4, MinCreate})

RefreshList ==
  /\ listing' = Listed(Open(book, held), available)
  /\ UNCHANGED <<canister, balance, portfolio, form, sent, moves>>

RefreshAccount ==
  /\ balance' = available[Self] /\ amount' = Adjusted(balance')
  /\ UNCHANGED <<canister, listing, portfolio, bps, page, step, draft, sent, moves>>

Type(x) ==
  /\ Pages[page] = "collateral" /\ step = "idle"
  /\ amount' = x
  /\ UNCHANGED <<canister, listing, balance, portfolio, bps, page, step, draft, sent, moves>>

ChoosePremium(i) ==
  /\ Pages[page] = "premium" /\ step = "idle"
  /\ bps' = PremiumValues[i]
  /\ UNCHANGED <<canister, listing, balance, portfolio, amount, page, step, draft, sent, moves>>

(* The chip under the premium: one value below the cheapest offer, or the  *)
(* lowest value where there is none below.                                 *)
BestInList == Min({listing[o].bps : o \in DOMAIN listing})

CanUndercut ==
  /\ DOMAIN listing # {} /\ RankShown(listing, bps) # 1
  /\ \E i \in DOMAIN PremiumValues :
       PremiumValues[i] = BestInList /\ (i > 1 \/ bps # BestInList)

Undercut ==
  /\ Pages[page] = "premium" /\ step = "idle" /\ CanUndercut
  /\ \E i \in DOMAIN PremiumValues :
       /\ PremiumValues[i] = BestInList
       /\ bps' = PremiumValues[IF i = 1 THEN 1 ELSE i - 1]
  /\ UNCHANGED <<canister, listing, balance, portfolio, amount, page, step, draft, sent, moves>>

Turn(to) ==
  /\ step = "idle" /\ to \in 1 .. Len(Pages)
  /\ \/ to = page - 1
     \/ to = page + 1 /\ (Pages[page] = "collateral" => Valid)
  /\ page' = to
  /\ UNCHANGED <<canister, listing, balance, portfolio, amount, bps, step, draft, sent, moves>>

-----------------------------------------------------------------------------
(* One offer, from the slide to its outcome.                               *)
Slide ==
  /\ Pages[page] = "review" /\ step = "idle" /\ ~NeedsDeposit /\ Valid
  /\ Cardinality(sent) < MaxSigned
  /\ draft' = [kind |-> "create", quantity |-> amount, bps |-> bps, nonce |-> nonce,
               attempt |-> Cardinality(sent)]
  /\ step' = "signing"
  /\ UNCHANGED <<canister, listing, balance, portfolio, amount, bps, page, sent, moves>>

Sign ==
  /\ step = "signing"
  /\ \E n \in draft.nonce .. nonce : draft' = [draft EXCEPT !.nonce = n]
  /\ step' = "submitting" /\ sent' = sent \cup {draft'}
  /\ UNCHANGED <<canister, listing, balance, portfolio, amount, bps, page, moves>>

(* The wallet refuses, the canister does, or no answer arrives.            *)
Break ==
  /\ step \in {"signing", "submitting"}
  /\ step' = "error"
  /\ UNCHANGED <<canister, listing, balance, portfolio, amount, bps, page, draft, sent, moves>>

Fresh(r) == r.nonce = nonce

Creatable(r) ==
  /\ r.quantity \in MinCreate .. MaxCreate /\ r.quantity <= available[Self]
  /\ Cardinality(Own(Open(book, held))) < MaxOffers

(* create_offer_use_case.  The answer is the browser's if it still waits.  *)
Create(r) ==
  LET o == 1 + Cardinality(DOMAIN Book0) + Cardinality(DOMAIN made) IN
  /\ r.kind = "create" /\ Fresh(r) /\ o \in Ids
  /\ nonce' = nonce + 1
  /\ \/ /\ Creatable(r)
        /\ book' = [p \in DOMAIN book \cup {o} |->
             IF p = o THEN [writer |-> Self, bps |-> r.bps, quantity |-> r.quantity]
             ELSE book[p]]
        /\ made' = [p \in DOMAIN made \cup {o} |-> IF p = o THEN r ELSE made[p]]
        /\ step' = IF step = "submitting" /\ r.attempt = draft.attempt THEN "success" ELSE step
     \/ ~Creatable(r) /\ UNCHANGED <<book, made, step>>
  /\ UNCHANGED <<held, available, listing, balance, portfolio, amount, bps, page, draft,
                 sent, moves>>

Leave(to) ==
  /\ step \in {"success", "error"}
  /\ step = "success" => to = 1
  /\ step' = "idle" /\ page' = to
  /\ amount' = IF step = "success" THEN 0 ELSE amount
  /\ UNCHANGED <<canister, listing, balance, portfolio, bps, draft, sent, moves>>

Screen == IF Pages[page] = "review" /\ step # "idle" THEN step ELSE Pages[page]

-----------------------------------------------------------------------------
(* The portfolio: cards of the writer's live offers, held ones included.   *)
(* The query is answered by the book of a time no earlier than the last    *)
(* call the server's agent has seen answered, here the book of now: what   *)
(* another server, with an agent of its own, answers may be older.         *)
FetchCards ==
  /\ fetch = <<>>
  /\ fetch' = <<[o \in Own(book) |-> book[o].quantity]>>
  /\ UNCHANGED <<canister, listing, balance, cards, cancelling, form, sent, moves>>

ShowCards ==
  /\ fetch # <<>>
  /\ cards' = fetch[1] /\ fetch' = <<>>
  /\ UNCHANGED <<canister, listing, balance, cancelling, form, sent, moves>>

(* Fault: what an offer lacks in backing counts only below the minimum.    *)
BackedInFull(remaining, funds) == IF funds < MinAccept THEN 0 ELSE remaining

Backed(remaining, funds) == Smaller(remaining, funds)

CancelOnly(remaining, funds) ==
  \/ remaining < MinAccept
  \/ Backed(remaining, funds) < remaining /\ Backed(remaining, funds) < MinAccept

(* useCancelOffer: cards can be cancelled while others still are.          *)
AskCancel(o) ==
  /\ o \in DOMAIN cards /\ cancelling[o] \in {"no", "refused", "lost"}
  /\ Cardinality(sent) < MaxSigned
  /\ cancelling' = [cancelling EXCEPT ![o] = "sent"]
  /\ sent' = sent \cup {[kind |-> "cancel", offer |-> o, nonce |-> nonce]}
  /\ UNCHANGED <<canister, listing, balance, cards, fetch, form, moves>>

LoseCancel(o) ==
  /\ cancelling[o] = "sent"
  /\ cancelling' = [cancelling EXCEPT ![o] = "lost"]
  /\ UNCHANGED <<canister, listing, balance, cards, fetch, form, sent, moves>>

(* onSuccess: the card goes at once, and the portfolio is fetched again;   *)
(* what an earlier fetch brings is dropped.                                *)
DropCard(o) ==
  /\ cards' = Restrict(cards, DOMAIN cards \ {o})
  /\ fetch' = <<>>

(* cancel_offer_use_case: an offer an accept holds is not cancelled.       *)
Cancel(r) ==
  /\ r.kind = "cancel" /\ Fresh(r) /\ r.offer \in DOMAIN book /\ held[r.offer] = 0
  /\ nonce' = nonce + 1
  /\ book' = Restrict(book, DOMAIN book \ {r.offer})
  /\ \/ /\ cancelling' = [cancelling EXCEPT ![r.offer] = "gone"]
        /\ DropCard(r.offer)
     \/ UNCHANGED portfolio
  /\ UNCHANGED <<held, available, made, listing, balance, form, sent, moves>>

RefuseCancel(r) ==
  /\ r.kind = "cancel" /\ cancelling[r.offer] = "sent"
  /\ \/ ~Fresh(r) /\ UNCHANGED nonce
     \/ Fresh(r) /\ nonce' = nonce + 1
        /\ (r.offer \notin DOMAIN book \/ held[r.offer] > 0)
  /\ cancelling' = [cancelling EXCEPT ![r.offer] = "refused"]
  /\ UNCHANGED <<book, held, available, made, listing, balance, cards, fetch, form, sent, moves>>

-----------------------------------------------------------------------------
(* The others: an accept takes hold of an offer and ends; money moves.     *)
Hold(o, quantity) ==
  /\ o \in DOMAIN book /\ held[o] = 0
  /\ quantity <= Smaller(book[o].quantity, available[book[o].writer])
  /\ held' = [held EXCEPT ![o] = quantity]
  /\ book' = [book EXCEPT ![o].quantity = @ - quantity]
  /\ available' = [available EXCEPT ![book[o].writer] = @ - quantity]

Release(o, sold) ==
  /\ o \in DOMAIN book /\ held[o] > 0
  /\ held' = [held EXCEPT ![o] = 0]
  /\ IF sold
     THEN /\ book' = IF book[o].quantity > 0 THEN book
                     ELSE Restrict(book, DOMAIN book \ {o})
          /\ UNCHANGED available
     ELSE /\ book' = [book EXCEPT ![o].quantity = @ + held[o]]
          /\ available' = [available EXCEPT ![book[o].writer] = @ + held[o]]

Spend(u, x) ==
  /\ available[u] >= x
  /\ available' = [available EXCEPT ![u] = @ - x]
  /\ UNCHANGED <<book, held>>

Others ==
  /\ \/ moves < MaxMoves /\ moves' = moves + 1
        /\ \/ \E o \in Ids : Hold(o, MinAccept)
           \/ \E u \in Users : Spend(u, MinAccept)
     \/ moves' = moves /\ \E o \in Ids, sold \in BOOLEAN : Release(o, sold)
  /\ UNCHANGED <<nonce, made, listing, balance, portfolio, form, sent>>

Form ==
  \/ RefreshList \/ RefreshAccount \/ Undercut
  \/ \E x \in Amounts : Type(x)
  \/ \E i \in DOMAIN PremiumValues : ChoosePremium(i)
  \/ \E to \in DOMAIN Pages : Turn(to)
  \/ Slide \/ Sign \/ Break
  \/ \E to \in {1, 4} : Leave(to)

Portfolio ==
  \/ FetchCards \/ ShowCards
  \/ \E o \in Ids : AskCancel(o) \/ LoseCancel(o)

Next ==
  \/ Form \/ Portfolio \/ Others
  \/ \E r \in sent : Create(r) \/ Cancel(r) \/ RefuseCancel(r)

Spec == Init /\ [][Next]_vars

-----------------------------------------------------------------------------
TypeOK ==
  /\ \A o \in DOMAIN book : book[o].quantity \in Nat /\ book[o].writer \in Users
  /\ DOMAIN book \subseteq Ids /\ held \in [Ids -> Nat] /\ available \in [Users -> Nat]
  /\ DOMAIN made \subseteq Ids \ DOMAIN Book0 /\ DOMAIN cards \subseteq Ids
  /\ balance \in Nat /\ amount \in Nat /\ page \in DOMAIN Pages /\ nonce \in Nat
  /\ bps \in {PremiumValues[i] : i \in DOMAIN PremiumValues}

FreshList == Listed(Open(book, held), available)

(* With an up-to-date list, the rank the form shows is the rank the offer  *)
(* has once it is made: two separate pieces of code agree, ties included.  *)
RankShownIsRankGot ==
  amount \in MinCreate .. available[Self] =>
    LET before == FreshList
        o == 1 + Max({0} \cup DOMAIN book)
        new == [writer |-> Self, bps |-> bps, quantity |-> amount]
        after == [p \in DOMAIN before \cup {o} |-> IF p = o THEN new ELSE before[p]]
    IN  RankInBook(after, o) = RankShown(before, bps)

(* The offer whose card says "best" is the one every buyer gets whose      *)
(* amount it can serve.                                                    *)
BestIsMatched ==
  LET fresh == FreshList IN
  \A o \in DOMAIN fresh :
    RankInBook(fresh, o) = 1 =>
      \A x \in 1 .. MaxPremium(fresh) : Serves(fresh, o, x) => BestOffer(fresh, x) = o

(* The offer whose card says "largest" gets the buyers who are too big for *)
(* the cheaper ones: there is an amount that is matched to it, unless what *)
(* one satoshi of its premium buys makes up for what it is larger than the *)
(* others and than the least accept, or it is beyond the largest accept.   *)
LargestIsMatched ==
  LET fresh == FreshList IN
  \A o \in DOMAIN fresh :
    LET spare == fresh[o].quantity - Ceil(10000, fresh[o].bps) IN
    /\ LargestInBook(fresh, o)
    /\ \A p \in DOMAIN fresh \ {o} : fresh[p].quantity < spare
    /\ MinAccept <= spare /\ fresh[o].quantity <= MaxAccept
    => \E x \in 1 .. MaxPremium(fresh) : BestOffer(fresh, x) = o

(* What an up-to-date card says is backed is what buyers find in the list; *)
(* a card reduced to its cancellation is of an offer no buyer sees.        *)
CardsAgreeWithTheList ==
  LET fresh == FreshList IN
  \A o \in Own(Open(book, held)) :
    LET remaining == book[o].quantity
        funds == available[Self]
    IN  /\ CancelOnly(remaining, funds) <=> o \notin DOMAIN fresh
        /\ o \in DOMAIN fresh => fresh[o].quantity = Backed(remaining, funds)

(* No two offers come from one signature.                                  *)
OneSignatureOneOffer ==
  \A o, p \in DOMAIN made : made[o].nonce = made[p].nonce => o = p

(* The success screen tells of an offer on the terms that were reviewed.   *)
SuccessIsMade == Screen = "success" => \E o \in DOMAIN made : made[o] = draft

(* A card that was cancelled with success does not come back.              *)
CancelledStaysGone == \A o \in DOMAIN cards : cancelling[o] # "gone"

(* Docs: any unfilled portion can be cancelled at any time.                *)
CancelAtAnyTime ==
  [][\A o \in Ids :
       cancelling[o] = "sent" /\ cancelling'[o] = "refused" => o \notin DOMAIN book]_vars
=============================================================================
