----------------------------- MODULE MCJobsEnd -----------------------------
(* The jobs that are to get to an end: the synchronisation of events, the  *)
(* tracking of a withdrawal and the shipping of logs, each with the        *)
(* fairness of its FairSpec.  They share no state, so one component moves  *)
(* while the others rest where they started.                               *)
EXTENDS EventLog, TLC

CONSTANTS j1, u1, w1, info, error

VARIABLE part   \* the component that moves

VARIABLES  \* of WithdrawalTracking
  wdNow, wdOutcome, wdMinter, wdRow, wdHandler, wdLate, wdJob, wdPart

VARIABLES  \* of LogShipping
  lgBuffer, lgLast, lgCounter, lgNow, lgUpgraded, lgCursor, lgShipped,
  lgJob, lgKills

wdVars == <<
  wdNow, wdOutcome, wdMinter, wdRow, wdHandler, wdLate, wdJob, wdPart>>
lgVars == <<
  lgBuffer, lgLast, lgCounter, lgNow, lgUpgraded, lgCursor, lgShipped,
  lgJob, lgKills>>

WithdrawalJob == INSTANCE WithdrawalTracking WITH
  Withdrawals <- {w1}, Jobs <- {j1}, Polls <- 1, DueLimit <- 1,
  MaxAge <- 0, FreshWindow <- 1, MaxBackoff <- 1, Horizon <- 2,
  now <- wdNow, outcome <- wdOutcome, minter <- wdMinter, row <- wdRow,
  handler <- wdHandler, late <- wdLate, job <- wdJob, part <- wdPart

LogJob == INSTANCE LogShipping WITH
  Jobs <- {j1}, Priorities <- {info, error}, Capacity <- 1, Limit <- 3,
  DefaultLimit <- 1, Lookback <- 1, MaxEntries <- 3, MaxNow <- 2,
  MaxUpgrades <- 0, MaxKills <- 1, buffer <- lgBuffer, last <- lgLast,
  counter <- lgCounter, now <- lgNow, upgraded <- lgUpgraded,
  cursor <- lgCursor, shipped <- lgShipped, job <- lgJob, kills <- lgKills

ASSUME
  /\ WithdrawalJob!WithdrawalTrackingAssumption
  /\ LogJob!LogShippingAssumption

UnionInit ==
  /\ part \in {"events", "withdrawals", "logs"}
  /\ Init /\ WithdrawalJob!Init /\ LogJob!Init

UnionNext ==
  \/ part = "events" /\ Next /\ UNCHANGED <<part, wdVars, lgVars>>
  \/ part = "withdrawals" /\ WithdrawalJob!Next /\ UNCHANGED <<part, vars, lgVars>>
  \/ part = "logs" /\ LogJob!Next /\ UNCHANGED <<part, vars, wdVars>>

unionVars == <<part, vars, wdVars, lgVars>>

Events(A) == part = "events" /\ A /\ UNCHANGED <<part, wdVars, lgVars>>
Tracking(A) == part = "withdrawals" /\ A /\ UNCHANGED <<part, vars, lgVars>>
Shipping(A) == part = "logs" /\ A /\ UNCHANGED <<part, vars, wdVars>>

UnionFairness ==
  /\ WF_unionVars(Events(SyncStep(j1))) /\ SF_unionVars(Events(CaughtUp(j1)))
  /\ WF_unionVars(Tracking(WithdrawalJob!Tick))
  /\ WF_unionVars(Tracking(WithdrawalJob!HandlerStep(w1)))
  /\ WF_unionVars(Tracking(WithdrawalJob!JobStep(j1)))
  /\ SF_unionVars(Tracking(WithdrawalJob!Tip(j1)))
  /\ SF_unionVars(Tracking(WithdrawalJob!Ask(j1, w1)))
  /\ SF_unionVars(Tracking(WithdrawalJob!Store(j1, w1)))
  /\ WF_unionVars(Shipping(LogJob!JobStep(j1))) /\ SF_unionVars(Shipping(LogJob!FetchAll(j1)))

UnionSpec == UnionInit /\ [][UnionNext]_unionVars /\ UnionFairness
-----------------------------------------------------------------------------
(* What the jobs are for gets done: every event is stored and every entry  *)
(* of the canister's logs shipped, unless the canister drops it first; and *)
(* the list of the user does not keep a withdrawal for ever, however its   *)
(* writers overlap.                                                        *)
EveryJobGetsThere ==
  /\ EveryEventIsCopied /\ LogJob!EveryEntryIsShipped
  /\ WithdrawalJob!EveryRowComesToAnEnd
=============================================================================
