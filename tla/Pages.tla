-------------------------------- MODULE Pages --------------------------------
(***************************************************************************)
(* Pages of the web application side by side: the panel of pending         *)
(* deposits, the account panel with its modals, the onboarding, and the    *)
(* chart of prices with the expiries it and the reviews tell of.  They     *)
(* share no state: one moves while the others rest where they started.     *)
(***************************************************************************)
EXTENDS Integers, Sequences, FiniteSets

CONSTANTS                     \* of PendingPanel
  Watchers, Arrivals, To, Deep, MaxDelay, MaxDepth, MaxLosses, MaxSwitches

CONSTANTS                     \* of AccountPanel
  Names, MoveAmounts, MinDeposit, MinWithdraw, Wallet, Reserve,
  AccountAvailable0, MaxClicks, MaxRequests, MaxDisconnects

CONSTANTS                     \* of Onboarding
  Newcomers, Codes, Friend, Candidates, MaxRuns, MaxConnections, MaxLinks,
  MaxPauses

CONSTANTS                     \* of TermChart
  HourTicks, DayHours, WindowHours, MaxCandles, MinDays, MaxDays, Terms,
  Strikes, ClosingPrice, Prices, Sizes, Left, Right, Top, Height, Clocks, Start,
  MaxNow

VARIABLE onPage   \* the component that moves

VARIABLES  \* of PendingPanel
  peSent, peDepth, peTable, peCredited, peUser, peAsked, peStored, peCached,
  peRan, peMempool, peRows, peTrackers, peLosses, peSwitches, peSeen

VARIABLES  \* of AccountPanel
  acNonce, acName, acAvailable, acAccepted, acRequests, acSignatures,
  acPanel, acBalance, acDeposit, acWithdraw, acSettings, acCalls, acClicks

VARIABLES  \* of Onboarding
  onReferrer, onInviteCode, onRegistry, onPaused, onPauses, onWallet,
  onConnection, onKnown, onPauseKnown, onAttempted, onStep, onSession,
  onLinks, onRuns, onRender

VARIABLES  \* of TermChart
  chNow, chClock, chChosen, chPrice, chHistory, chAsked, chChart, chWidth,
  chMeasured, chWatched, chReview, chOrder

peVars == <<
  peSent, peDepth, peTable, peCredited, peUser, peAsked, peStored, peCached,
  peRan, peMempool, peRows, peTrackers, peLosses, peSwitches, peSeen>>
acVars == <<
  acNonce, acName, acAvailable, acAccepted, acRequests, acSignatures,
  acPanel, acBalance, acDeposit, acWithdraw, acSettings, acCalls, acClicks>>
onVars == <<
  onReferrer, onInviteCode, onRegistry, onPaused, onPauses, onWallet,
  onConnection, onKnown, onPauseKnown, onAttempted, onStep, onSession,
  onLinks, onRuns, onRender>>
chVars == <<
  chNow, chClock, chChosen, chPrice, chHistory, chAsked, chChart, chWidth,
  chMeasured, chWatched, chReview, chOrder>>

Pending == INSTANCE PendingPanel WITH
  Users <- Watchers, Deposits <- Arrivals, Confirmations <- Deep,
  sent <- peSent, depth <- peDepth, table <- peTable,
  credited <- peCredited, user <- peUser, asked <- peAsked,
  stored <- peStored, cached <- peCached, ran <- peRan,
  mempool <- peMempool, rows <- peRows, trackers <- peTrackers,
  losses <- peLosses, switches <- peSwitches, seen <- peSeen

Account == INSTANCE AccountPanel WITH
  Amounts <- MoveAmounts, Available0 <- AccountAvailable0,
  nonce <- acNonce, name <- acName,
  available <- acAvailable, accepted <- acAccepted, requests <- acRequests,
  signatures <- acSignatures, panel <- acPanel, balance <- acBalance,
  deposit <- acDeposit, withdraw <- acWithdraw, settings <- acSettings,
  calls <- acCalls, clicks <- acClicks

Onboard == INSTANCE Onboarding WITH
  Users <- Newcomers, referrer <- onReferrer,
  inviteCode <- onInviteCode, registry <- onRegistry, paused <- onPaused,
  pauses <- onPauses, wallet <- onWallet, connection <- onConnection,
  known <- onKnown, pauseKnown <- onPauseKnown, attempted <- onAttempted,
  step <- onStep, session <- onSession, links <- onLinks, runs <- onRuns,
  render <- onRender

Chart == INSTANCE TermChart WITH
  now <- chNow, clock <- chClock, chosen <- chChosen,
  price <- chPrice, history <- chHistory, asked <- chAsked,
  chart <- chChart, width <- chWidth, measured <- chMeasured,
  watched <- chWatched, review <- chReview, order <- chOrder

ASSUME PagesAssumption ==
  /\ Pending!PendingPanelAssumption /\ Account!AccountPanelAssumption
  /\ Onboard!OnboardingAssumption /\ Chart!TermChartAssumption

PagesInit ==
  /\ onPage \in {"pending", "account", "onboarding", "chart"}
  /\ Pending!Init /\ Account!Init /\ Onboard!Init /\ Chart!Init

PagesNext ==
  \/ onPage = "pending" /\ Pending!Next /\ UNCHANGED <<onPage, acVars, onVars, chVars>>
  \/ onPage = "account" /\ Account!Next /\ UNCHANGED <<onPage, peVars, onVars, chVars>>
  \/ onPage = "onboarding" /\ Onboard!Next /\ UNCHANGED <<onPage, peVars, acVars, chVars>>
  \/ onPage = "chart" /\ Chart!Next /\ UNCHANGED <<onPage, peVars, acVars, onVars>>

pagesVars == <<onPage, peVars, acVars, onVars, chVars>>

PagesSpec == PagesInit /\ [][PagesNext]_pagesVars
-----------------------------------------------------------------------------
(* However quickly the wallet changes accounts: no address is stored under *)
(* another account, no deposit of another account is shown, and one socket *)
(* watches at a time.                                                      *)
AccountsDoNotMix == Pending!StoredIsOwn /\ Pending!OnlyOwnShown /\ Pending!OneTracker

(* Requests of the account panel are carried out in the order their        *)
(* signatures were given, and a modal tells of its own request or deposit, *)
(* not of one that was closed away.                                        *)
ModalsTellOfTheirOwn ==
  /\ Account!InOrderSigned /\ Account!WaitingShowsItsOwn /\ Account!SuccessIsItsOwn

(* One attempt to open an account for each connection of a wallet, and the *)
(* records that it leaves agree: the referrer is the one whose code was    *)
(* followed, and codes, owners and registry belong together.               *)
OnboardedOnce ==
  /\ Onboard!OneAttemptPerConnection /\ Onboard!ReferralAsSigned
  /\ Onboard!InviteCodesAgree

(* What the pages tell of time comes true: the history has no hole, the    *)
(* chart is drawn to its container with its marks in order, and an option  *)
(* ends neither before nor, but for the hours that pass meanwhile, after   *)
(* the time its review told.                                               *)
PagesForetellExpiry ==
  /\ Chart!HistoryIsWhole /\ Chart!ChartFitsItsContainer /\ Chart!MarksInOrder
  /\ Chart!ReviewForetellsExpiry /\ Chart!NoneExpiresEarly
=============================================================================
