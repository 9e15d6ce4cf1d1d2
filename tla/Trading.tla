------------------------------ MODULE Trading ------------------------------
(***************************************************************************)
(* The two sides of the market side by side, each in front of a book of    *)
(* its own, and the pages on which term and strike are picked.  They share *)
(* no state: one moves while the others rest where they started.           *)
(***************************************************************************)
EXTENDS Buying

CONSTANTS                     \* of Writing
  Self, WriteBook, WriteAvailable0, MinCreate, MaxCreate, MaxOffers,
  PremiumValues, WriteAmounts, MaxWriteSigned, MaxWriteMoves

CONSTANTS                     \* of StrikeSelection
  TermOptions, StrikeOptions, DefaultTerm, DefaultStrike, Limits, Lists,
  MaxChanges

VARIABLE part   \* "buy", "write" or "select"

VARIABLES  \* of Writing
  wrBook, wrHeld, wrAvailable, wrNonce, wrMade, wrListing, wrBalance,
  wrCards, wrFetch, wrAmount, wrBps, wrPage, wrStep, wrDraft,
  wrCancelling, wrSent, wrMoves

VARIABLES  \* of StrikeSelection
  seChart, seLimits, seOffers, seAccount, sePriced, seForm, sePicked,
  seStep, seStage, seOrder, seChanges

wrVars == <<
  wrBook, wrHeld, wrAvailable, wrNonce, wrMade, wrListing, wrBalance,
  wrCards, wrFetch, wrAmount, wrBps, wrPage, wrStep, wrDraft,
  wrCancelling, wrSent, wrMoves>>
seVars == <<
  seChart, seLimits, seOffers, seAccount, sePriced, seForm, sePicked,
  seStep, seStage, seOrder, seChanges>>

Write == INSTANCE Writing WITH
  Book0 <- WriteBook, Available0 <- WriteAvailable0, Amounts <- WriteAmounts,
  MaxSigned <- MaxWriteSigned, MaxMoves <- MaxWriteMoves,
  book <- wrBook, held <- wrHeld, available <- wrAvailable,
  nonce <- wrNonce, made <- wrMade, listing <- wrListing,
  balance <- wrBalance, cards <- wrCards, fetch <- wrFetch,
  amount <- wrAmount, bps <- wrBps, page <- wrPage, step <- wrStep,
  draft <- wrDraft, cancelling <- wrCancelling, sent <- wrSent,
  moves <- wrMoves

Select == INSTANCE StrikeSelection WITH
  chart <- seChart, limits <- seLimits,
  offers <- seOffers, account <- seAccount, priced <- sePriced,
  form <- seForm, picked <- sePicked, step <- seStep, stage <- seStage,
  order <- seOrder, changes <- seChanges

ASSUME TradingAssumption ==
  Write!WritingAssumption /\ Select!StrikeSelectionAssumption

UnionInit ==
  /\ part \in {"buy", "write", "select"}
  /\ Init /\ Write!Init /\ Select!Init

UnionNext ==
  \/ part = "buy" /\ Next /\ UNCHANGED <<part, wrVars, seVars>>
  \/ part = "write" /\ Write!Next /\ UNCHANGED <<part, vars, seVars>>
  \/ part = "select" /\ Select!Next /\ UNCHANGED <<part, vars, wrVars>>

unionVars == <<part, vars, wrVars, seVars>>

UnionSpec == UnionInit /\ [][UnionNext]_unionVars
-----------------------------------------------------------------------------
(* A slide is good for one trade, however often or late its request        *)
(* reaches the canister: no two operations of a buyer, and no two offers   *)
(* of a writer, come from one signature.                                   *)
OneSignatureOneTrade == OneSignatureOnePurchase /\ Write!OneSignatureOneOffer

(* The success screen tells of an option that exists, or of an offer on    *)
(* the terms that were reviewed.                                           *)
SuccessIsTrue == SuccessIsBought /\ Write!SuccessIsMade

(* With an up-to-date list, what a writer is told of the book is so: the   *)
(* rank of the offer he is about to make, that a card's offer is the best  *)
(* or the largest, and what backs it.  And a card that was cancelled with  *)
(* success does not come back.                                             *)
WritersAreToldTheTruth ==
  /\ Write!RankShownIsRankGot /\ Write!CardsAgreeWithTheList
  /\ Write!BestIsMatched /\ Write!LargestIsMatched
  /\ Write!CancelledStaysGone

(* Whatever limits, offers and prices arrive meanwhile: the chart draws    *)
(* the term and strike that the form shows, the pickers stand on them, and *)
(* they are what is ordered.                                               *)
WhatIsShownIsOrdered ==
  /\ Select!ChartShowsTheForm /\ Select!OrderedAsShown
  /\ Select!PickerStandsOnItsStrike
=============================================================================
