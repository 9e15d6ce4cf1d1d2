----------------------------- MODULE MCPagesEnd -----------------------------
(* What a user waits for, side by side, each with the fairness of its      *)
(* FairSpec: the account panel, the onboarding, the watch over his         *)
(* deposits, and a purchase.  They share no state, so one moves while the  *)
(* others rest where they started.                                         *)
EXTENDS AccountPanel, TLC

TwoOffers(first, second) == 1 :> first @@ 2 :> second
OneDeposit == "d1" :> "u1"
InviteCandidates == "fay" :> <<"F">> @@ "ann" :> <<"F", "A">>

VARIABLE part   \* the component that moves

VARIABLES  \* of Onboarding
  onReferrer, onInviteCode, onRegistry, onPaused, onPauses, onWallet,
  onConnection, onKnown, onPauseKnown, onAttempted, onStep, onSession,
  onLinks, onRuns, onRender

VARIABLES  \* of PendingPanel
  peSent, peDepth, peTable, peCredited, peUser, peAsked, peStored, peCached,
  peRan, peMempool, peRows, peTrackers, peLosses, peSwitches, peSeen

VARIABLES  \* of Buying
  buOpen, buLeft, buAvailable, buNonce, buOperations, buRead, buListing,
  buBalance, buAmount, buPage, buStep, buOrder, buSent, buPolled, buMoves

onVars == <<
  onReferrer, onInviteCode, onRegistry, onPaused, onPauses, onWallet,
  onConnection, onKnown, onPauseKnown, onAttempted, onStep, onSession,
  onLinks, onRuns, onRender>>
peVars == <<
  peSent, peDepth, peTable, peCredited, peUser, peAsked, peStored, peCached,
  peRan, peMempool, peRows, peTrackers, peLosses, peSwitches, peSeen>>
buVars == <<
  buOpen, buLeft, buAvailable, buNonce, buOperations, buRead, buListing,
  buBalance, buAmount, buPage, buStep, buOrder, buSent, buPolled, buMoves>>

Onboard == INSTANCE Onboarding WITH
  Users <- {"fay", "ann"}, Codes <- {"F", "A"}, Friend <- "fay",
  Candidates <- InviteCandidates, MaxRuns <- 2, MaxConnections <- 3,
  MaxLinks <- 0, MaxPauses <- 0, referrer <- onReferrer,
  inviteCode <- onInviteCode, registry <- onRegistry, paused <- onPaused,
  pauses <- onPauses, wallet <- onWallet, connection <- onConnection,
  known <- onKnown, pauseKnown <- onPauseKnown, attempted <- onAttempted,
  step <- onStep, session <- onSession, links <- onLinks, runs <- onRuns,
  render <- onRender

Panel == INSTANCE PendingPanel WITH
  Users <- {"u1", "u2"}, Deposits <- {"d1"}, To <- OneDeposit,
  Confirmations <- 1, MaxDelay <- 4, MaxDepth <- 1, MaxLosses <- 2,
  MaxSwitches <- 2, sent <- peSent, depth <- peDepth, table <- peTable,
  credited <- peCredited, user <- peUser, asked <- peAsked,
  stored <- peStored, cached <- peCached, ran <- peRan,
  mempool <- peMempool, rows <- peRows, trackers <- peTrackers,
  losses <- peLosses, switches <- peSwitches, seen <- peSeen

Purchase == INSTANCE Buying WITH
  Users <- {"b", "v", "w"}, Offers <- 1 .. 2, Writer <- TwoOffers("v", "w"),
  PremiumBps <- TwoOffers(9000, 3000), MinAccept <- 2, MaxAccept <- 8,
  Buyer <- "b", Quantity0 <- TwoOffers(8, 7),
  Available0 <- "b" :> 8 @@ "v" :> 9 @@ "w" :> 7, TransferFee <- 1,
  Amounts <- {2}, MaxSigned <- 1, MaxMoves <- 1, open <- buOpen,
  left <- buLeft, available <- buAvailable, nonce <- buNonce,
  operations <- buOperations, read <- buRead, listing <- buListing,
  balance <- buBalance, amount <- buAmount, page <- buPage,
  step <- buStep, order <- buOrder, sent <- buSent, polled <- buPolled,
  moves <- buMoves

ASSUME
  /\ AccountPanelAssumption /\ Onboard!OnboardingAssumption
  /\ Panel!PendingPanelAssumption

UnionInit ==
  /\ part \in {"account", "onboarding", "panel", "purchase"}
  /\ Init /\ Onboard!Init /\ Panel!Init /\ Purchase!Init

Accounts(A) == part = "account" /\ A /\ UNCHANGED <<part, onVars, peVars, buVars>>
Onboards(A) == part = "onboarding" /\ A /\ UNCHANGED <<part, vars, peVars, buVars>>
Watches(A) == part = "panel" /\ A /\ UNCHANGED <<part, vars, onVars, buVars>>
Buys(A) == part = "purchase" /\ A /\ UNCHANGED <<part, vars, onVars, peVars>>

UnionNext ==
  \/ Accounts(Next) \/ Onboards(Onboard!Next) \/ Watches(Panel!Next)
  \/ Buys(Purchase!Next)

unionVars == <<part, vars, onVars, peVars, buVars>>

UnionFairness ==
  /\ \A r \in 1 .. MaxRequests :
       WF_unionVars(Accounts(r \in DOMAIN requests /\ Served(r)))
  /\ WF_unionVars(Onboards(Onboard!Effect))
  /\ SF_unionVars(Onboards(Onboard!FetchAccount /\ onKnown' # onKnown))
  /\ SF_unionVars(Onboards(Onboard!FetchPauseMode /\ onPauseKnown' # onPauseKnown))
  /\ \A r \in 1 .. 2 :
       SF_unionVars(Onboards(
         /\ r \in DOMAIN onRuns
         /\ \/ Onboard!ValidateInviteCode(r) \/ Onboard!RejectInviteCode(r)
            \/ onRuns[r].at = "sent" /\ Onboard!Fail(r)))
  /\ WF_unionVars(Watches(Panel!RunEffects)) /\ WF_unionVars(Watches(Panel!FetchAddress))
  /\ \A i \in 1 .. 9 :
       WF_unionVars(Watches(i \in DOMAIN peTrackers /\ (Panel!Open(i) \/ Panel!Fire(i))))
  /\ WF_unionVars(Buys(Purchase!Poll \/ Purchase!GiveUp))

UnionSpec == UnionInit /\ [][UnionNext]_unionVars /\ UnionFairness
-----------------------------------------------------------------------------
(* Whatever answers are lost, no screen keeps its user waiting for ever    *)
(* but for his wallet: a withdrawal comes to rest or to the wallet, the    *)
(* onboarding leaves its steps, asks who has no account and lets go of who *)
(* has one, a signed purchase ends in success or an error, and the address *)
(* of the user is watched in the end.                                      *)
NobodyWaitsForEver ==
  /\ ModalsComeToRest
  /\ Onboard!ClosedInTheEnd /\ Onboard!AskedWhenConnected /\ Onboard!StepsEnd
  /\ Panel!WatchedInTheEnd /\ Purchase!ProcessingEnds
=============================================================================
