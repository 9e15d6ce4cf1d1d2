------------------------------ MODULE Markets ------------------------------
(***************************************************************************)
(* What stands around a trade, side by side: the price oracle before it,   *)
(* the history after it, and the trading bots that make trades of their    *)
(* own.  They share no state: one moves while the others rest where they   *)
(* started.                                                                *)
(***************************************************************************)
EXTENDS Oracle, Sequences

CONSTANTS                     \* of TradeHistory
  Deals, Roles, Collects, PremiumFees, ProfitFeeBps, TransferFee, Prices,
  DayStarts, Day, PageSize, RoleChoices, ResultChoices, SortColumns,
  MaxTrades, MaxHour

CONSTANTS                     \* of TradingBot
  Bots, Writers, Slots, BotOf, Registered0, Book0, Available0,
  MinAccept, MaxAccept, MinCreate, MaxCreate, MaxPerTerm, MaxOpen,
  Strikes, Premiums, Actions, Deposit, MaxSigned, MaxFailures, MaxDeposits

CONSTANT Groups   \* calls to the oracle that are looked at together

VARIABLE part     \* what moves, and the calls to the oracle that do

VARIABLES  \* of TradeHistory
  hiFee, hiTrades, hiSettled, hiHour, hiEntries, hiPicked, hiColumns,
  hiSort, hiPage

VARIABLES  \* of TradingBot
  boRegistered, boNonce, boBook, boPending, boAvailable, boDeals, boReady,
  boTick, boSent, boFailures, boDeposits

hiVars == <<
  hiFee, hiTrades, hiSettled, hiHour, hiEntries, hiPicked, hiColumns,
  hiSort, hiPage>>
boVars == <<
  boRegistered, boNonce, boBook, boPending, boAvailable, boDeals, boReady,
  boTick, boSent, boFailures, boDeposits>>

History == INSTANCE TradeHistory WITH
  fee <- hiFee, trades <- hiTrades, settled <- hiSettled, hour <- hiHour,
  entries <- hiEntries, picked <- hiPicked, columns <- hiColumns,
  sort <- hiSort, page <- hiPage

Bot == INSTANCE TradingBot WITH
  registered <- boRegistered, nonce <- boNonce, book <- boBook,
  pending <- boPending, available <- boAvailable, deals <- boDeals,
  ready <- boReady, tick <- boTick, sent <- boSent,
  failures <- boFailures, deposits <- boDeposits

ASSUME MarketsAssumption ==
  History!TradeHistoryAssumption /\ Bot!TradingBotAssumption

Parts == [of : {"oracle"}, calls : Groups] \cup [of : {"history", "bot"}, calls : {{}}]

UnionInit == part \in Parts /\ Init /\ History!Init /\ Bot!Init

UnionNext ==
  \/ /\ part.of = "oracle" /\ Next /\ \A c \in Calls \ part.calls : calls'[c] = Idle
     /\ UNCHANGED <<part, hiVars, boVars>>
  \/ part.of = "history" /\ History!Next /\ UNCHANGED <<part, vars, boVars>>
  \/ part.of = "bot" /\ Bot!Next /\ UNCHANGED <<part, vars, hiVars>>

unionVars == <<part, vars, hiVars, boVars>>

UnionSpec == UnionInit /\ [][UnionNext]_unionVars
-----------------------------------------------------------------------------
(* What the application tells a user of his trades is so: the result of a  *)
(* settled trade is what it did to his balances, the card of an open one   *)
(* foretells it, the table shows what its header counts, and the page it   *)
(* stands on exists.                                                       *)
HistoryIsTrue ==
  /\ History!PnlIsWhatItDid /\ History!CardForetellsHistory
  /\ History!TableAgreesWithHeader /\ History!PageExists

(* However ticks overlap, fail and are repeated: one trade for a nonce,    *)
(* and one for a tick.                                                     *)
BotsTradeOnce == Bot!OneTradePerNonce /\ Bot!OneTradePerTick
=============================================================================
