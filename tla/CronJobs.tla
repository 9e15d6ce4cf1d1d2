------------------------------ MODULE CronJobs ------------------------------
(***************************************************************************)
(* The jobs of the cron triggers side by side: the synchronisation of      *)
(* events, the tracking of deposits and of withdrawals, the shipping of    *)
(* logs, the market data, and the price table over the oracle.  They share *)
(* no state: one component moves while the others rest where they started. *)
(***************************************************************************)
EXTENDS EventLog

CONSTANT Jobs                 \* runs of one job that may overlap

CONSTANTS                     \* of DepositTracking
  Deposits, Owner, Value, MintFee, Premiums, MinterConfs, MaxAttempts,
  MaxAge, MaxBackoff, DueLimit, MaxHeight, Horizon

CONSTANTS                     \* of WithdrawalTracking
  Withdrawals, Polls, WdDueLimit, WdMaxAge, FreshWindow, WdMaxBackoff,
  WdHorizon

CONSTANTS                     \* of LogShipping
  Priorities, Capacity, ShipLimit, DefaultLimit, Lookback, MaxEntries,
  ShipMaxNow, MaxUpgrades, ShipMaxKills

CONSTANTS                     \* of MarketData
  HistoryHours, WindowSpan, MaxCandles, SaveBatch, RefreshEvery, Start,
  MkHorizon, None

CONSTANTS                     \* of XrcArchive
  Accepts, Settlements, Snapshots, MaxRows, Expiry, Window,
  XrcAttempts, Wait, Kept, ArHorizon

VARIABLE part   \* the component that moves

VARIABLES  \* of DepositTracking
  depNow, depHeight, depMined, depMinted, depBalance, depPremiums, depRow,
  depCursor, depKnown, depSkipped, depJob, depPart, depCopy, depFresh,
  depCreditor

VARIABLES  \* of WithdrawalTracking
  wdNow, wdOutcome, wdMinter, wdRow, wdHandler, wdLate, wdJob, wdPart

VARIABLES  \* of LogShipping
  lgBuffer, lgLast, lgCounter, lgNow, lgUpgraded, lgCursor, lgShipped, lgJob,
  lgKills

VARIABLES  \* of MarketData
  mkNow, mkPrice, mkHistory, mkJobs

VARIABLES  \* of XrcArchive
  arNow, arRates, arCalls, arRows, arJobs, arLatests

depVars == <<
  depNow, depHeight, depMined, depMinted, depBalance, depPremiums, depRow,
  depCursor, depKnown, depSkipped, depJob, depPart, depCopy, depFresh,
  depCreditor>>
wdVars == <<
  wdNow, wdOutcome, wdMinter, wdRow, wdHandler, wdLate, wdJob, wdPart>>
lgVars == <<
  lgBuffer, lgLast, lgCounter, lgNow, lgUpgraded, lgCursor, lgShipped, lgJob,
  lgKills>>
mkVars == <<
  mkNow, mkPrice, mkHistory, mkJobs>>
arVars == <<
  arNow, arRates, arCalls, arRows, arJobs, arLatests>>

DepositJobs == INSTANCE DepositTracking WITH
  now <- depNow, height <- depHeight, mined <- depMined, minted <- depMinted,
  balance <- depBalance, premiums <- depPremiums, row <- depRow,
  cursor <- depCursor, known <- depKnown, skipped <- depSkipped,
  job <- depJob, part <- depPart, copy <- depCopy, fresh <- depFresh,
  creditor <- depCreditor

WithdrawalJobs == INSTANCE WithdrawalTracking WITH
  DueLimit <- WdDueLimit, MaxAge <- WdMaxAge, MaxBackoff <- WdMaxBackoff,
  Horizon <- WdHorizon, now <- wdNow, outcome <- wdOutcome,
  minter <- wdMinter, row <- wdRow, handler <- wdHandler, late <- wdLate,
  job <- wdJob, part <- wdPart

LogJobs == INSTANCE LogShipping WITH
  Limit <- ShipLimit, MaxNow <- ShipMaxNow, MaxKills <- ShipMaxKills,
  buffer <- lgBuffer, last <- lgLast, counter <- lgCounter, now <- lgNow,
  upgraded <- lgUpgraded, cursor <- lgCursor, shipped <- lgShipped,
  job <- lgJob, kills <- lgKills

MarketJobs == INSTANCE MarketData WITH
  Batch <- SaveBatch, Horizon <- MkHorizon, now <- mkNow, price <- mkPrice,
  history <- mkHistory, jobs <- mkJobs

Archive == INSTANCE XrcArchive WITH
  MaxAttempts <- XrcAttempts, Horizon <- ArHorizon, now <- arNow,
  rates <- arRates, calls <- arCalls, rows <- arRows, jobs <- arJobs,
  latests <- arLatests

ASSUME CronJobsAssumption ==
  /\ DepositJobs!DepositTrackingAssumption
  /\ WithdrawalJobs!WithdrawalTrackingAssumption
  /\ LogJobs!LogShippingAssumption
  /\ MarketJobs!MarketAssumption
  /\ Archive!OracleAssumption

UnionInit ==
  /\ part \in {"events", "deposits", "withdrawals", "logs", "market", "archive"}
  /\ Init /\ DepositJobs!Init /\ WithdrawalJobs!Init /\ LogJobs!Init
  /\ MarketJobs!Init /\ Archive!ArchiveInit

UnionNext ==
  \/ part = "events" /\ Next /\ UNCHANGED <<part, depVars, wdVars, lgVars, mkVars, arVars>>
  \/ part = "deposits" /\ DepositJobs!Next /\ UNCHANGED <<part, vars, wdVars, lgVars, mkVars, arVars>>
  \/ part = "withdrawals" /\ WithdrawalJobs!Next /\ UNCHANGED <<part, vars, depVars, lgVars, mkVars, arVars>>
  \/ part = "logs" /\ LogJobs!Next /\ UNCHANGED <<part, vars, depVars, wdVars, mkVars, arVars>>
  \/ part = "market" /\ MarketJobs!Next /\ UNCHANGED <<part, vars, depVars, wdVars, lgVars, arVars>>
  \/ part = "archive" /\ Archive!ArchiveNext /\ UNCHANGED <<part, vars, depVars, wdVars, lgVars, mkVars>>

unionVars == <<part, vars, depVars, wdVars, lgVars, mkVars, arVars>>

UnionSpec == UnionInit /\ [][UnionNext]_unionVars
-----------------------------------------------------------------------------
(* What overlapping jobs, killed where they stand, leave behind unseen: no *)
(* deposit the cursor has passed without a row, no entry of the canister's *)
(* logs the cursor has passed without having been shipped.                 *)
NothingIsOverlooked == DepositJobs!NoDepositOverlooked /\ LogJobs!NothingIsPassedOver

(* A job does not take back its own credit: that a deposit is credited is  *)
(* undone, if at all, by another job that read the row before.             *)
CreditSurvivesItsJob == DepositJobs!CreditSurvivesItsJob

(* A tracked withdrawal leaves the list the user sees only when its        *)
(* transaction is confirmed, when its failure is certain, or when it was   *)
(* followed for longer than MaxAge.                                        *)
LeavesTheListForAReason == WithdrawalJobs!LeavesTheListForAReason

(* No row of the market tables claims to be newer than what it holds, the  *)
(* history a reader gets has no hole and leaves nothing out, whichever job *)
(* wrote last and wherever one failed, and a row of the price table is     *)
(* older than one before it only if its job asked before that row was      *)
(* there or was answered by a replica that was behind.                     *)
MarketRowsAreTrue ==
  /\ MarketJobs!RowsAreNoOlderThanTheySay /\ MarketJobs!HistoryHasNoHole
  /\ MarketJobs!NothingIsLeftOut /\ Archive!RowsStepBackForAReason
=============================================================================
