---------------------------- MODULE TradeHistory ----------------------------
(***************************************************************************)
(* What the web application tells a user of his trades: the profit and     *)
(* loss of the settled ones (get-history), the history's table with its    *)
(* filters, order and pages (HistoryTable), and the card of an option that *)
(* is still open (use-option-card-data).                                   *)
(*                                                                         *)
(* A trade is known by what the canister keeps of it.  What it did to the  *)
(* balances of its two sides is kept beside it, in `gain', to compare the  *)
(* application's sums with.  The ledger's fees for the transfers of a sale *)
(* are part of neither.                                                    *)
(***************************************************************************)
EXTENDS Integers, FiniteSets, FiniteSetsExt, Sequences, SequencesExt

CONSTANTS
  Deals,            \* what may be sold: [quantity, premium, strike]
  Roles,            \* the user's side of a trade
  Collects,         \* whether the platform fee of a sale is collected
  PremiumFees,      \* premium_fee_basis_points, as configured over time
  ProfitFeeBps,     \* profit_fee_basis_points
  TransferFee,
  Prices,           \* settlement prices
  DayStarts,        \* first hour of each local day of the calendar
  Day,              \* hours the table takes a day to have: 24
  PageSize,         \* PAGE_SIZE: 15
  RoleChoices, ResultChoices, SortColumns,   \* what the user may pick
  MaxTrades, MaxHour                         \* bounds of the model

TradeHistoryAssumption ==
  /\ Deals \subseteq [quantity : Nat, premium : Nat, strike : Nat]
  /\ Roles \subseteq {"buyer", "writer"} /\ Collects \subseteq BOOLEAN
  /\ PremiumFees \subseteq 0 .. 10000 /\ PremiumFees # {}
  /\ ProfitFeeBps \in 0 .. 10000 /\ TransferFee \in Nat
  /\ Prices \subseteq Nat \ {0} /\ DayStarts \in Seq(Nat)
  /\ {Day, PageSize} \subseteq Nat \ {0} /\ {MaxTrades, MaxHour} \subseteq Nat

VARIABLES
  fee,       \* the premium fee as configured now
  trades,    \* every trade of the user, in the order of the sales
  settled,   \* numbers of the settled ones, in the order of their events
  hour,
  entries,   \* what the browser has of the history, newest first
  picked,    \* the filters as shown: role, result, first and last day
  columns,   \* the filters as the table applies them
  sort, page

table == <<picked, columns, sort, page>>
vars == <<fee, trades, settled, hour, entries, table>>

NoFilter == [role |-> "all", result |-> "all", from |-> 0, to |-> 0]

Init ==
  /\ fee \in PremiumFees
  /\ trades = <<>> /\ settled = <<>> /\ hour = 0 /\ entries = <<>>
  /\ picked = NoFilter /\ columns = [role |-> "all", result |-> "all"]
  /\ sort = [by |-> "settledAt", desc |-> TRUE] /\ page = 0

Share(amount, bps) == (amount * bps) \div 10000

-----------------------------------------------------------------------------
(* The canister.  A fee that could not be collected is refunded, and the   *)
(* premium recorded is then what the writer got.                           *)
Sell(role, d, collected) ==
  LET toWriter == d.premium - Share(d.premium, fee)
      paid == IF collected THEN d.premium ELSE toWriter
  IN
  /\ Len(trades) < MaxTrades
  /\ trades' = Append(trades,
       [role |-> role, deal |-> d, paid |-> paid, fee |-> fee, collected |-> collected,
        price |-> 0, payout |-> 0, at |-> 0,
        gain |-> [buyer |-> -paid, writer |-> toWriter - d.quantity]])
  /\ UNCHANGED <<fee, settled, hour, entries, table>>

SetFee(bps) ==
  /\ bps # fee /\ fee' = bps
  /\ UNCHANGED <<trades, settled, hour, entries, table>>

GrossPayout(d, price) ==
  IF price <= d.strike THEN 0 ELSE (d.quantity * (price - d.strike)) \div price

(* What the two sides are paid at a price.                                 *)
Division(d, price) ==
  LET gross == GrossPayout(d, price)
      profitFee == Share(gross, ProfitFeeBps)
      transfers == Cardinality({t \in {"buyer", "fee"} :
                     IF t = "buyer" THEN gross > profitFee ELSE profitFee > 0})
  IN  [buyer |-> gross - profitFee, fee |-> profitFee,
       charge |-> transfers * TransferFee,
       writer |-> Max({0, d.quantity - gross - transfers * TransferFee})]

(* The payload of OptionSettled, as the user's event has it.               *)
Settle(i, price) ==
  LET share == Division(trades[i].deal, price) IN
  /\ trades[i].price = 0
  /\ trades' = [trades EXCEPT ![i].price = price, ![i].at = hour,
                              ![i].payout = share[trades[i].role],
                              ![i].gain = [r \in DOMAIN @ |-> @[r] + share[r]]]
  /\ settled' = Append(settled, i)
  /\ UNCHANGED <<fee, hour, entries, table>>

Tick ==
  /\ hour < MaxHour /\ hour' = hour + 1
  /\ UNCHANGED <<fee, trades, settled, entries, table>>

-----------------------------------------------------------------------------
(* getHistory.                                                             *)

(* Fault: the writer's premium is shown as the buyer paid it.              *)
GrossPremium(gross, bps, role) == gross

NetPremium(gross, bps, role) ==
  IF role = "buyer" THEN gross ELSE gross - Share(gross, bps)

CalculatePnl(role, premium, payout, quantity) ==
  IF role = "buyer" THEN payout - premium ELSE payout + premium - quantity

TradeResult(pnl) ==
  CASE pnl > 0 -> "profit" [] pnl < 0 -> "loss" [] OTHER -> "breakeven"

Entry(i) ==
  LET t == trades[i]
      premium == NetPremium(t.paid, fee, t.role)
      pnl == CalculatePnl(t.role, premium, t.payout, t.deal.quantity)
  IN  [id |-> i, role |-> t.role, fee |-> fee, premium |-> premium, pnl |-> pnl,
       result |-> TradeResult(pnl), settledAt |-> t.at]

(* The database may be behind, and never forgets; new data turn the table  *)
(* back to its first page.                                                 *)
Fetch ==
  \E n \in Len(entries) .. Len(settled) :
    /\ entries' = Reverse([k \in 1 .. n |-> Entry(settled[k])])
    /\ page' = IF entries' = entries THEN page ELSE 0
    /\ UNCHANGED <<fee, trades, settled, hour, picked, columns, sort>>

-----------------------------------------------------------------------------
(* HistoryTable.                                                           *)
InRange(e) ==
  \/ picked.from = 0
  \/ /\ DayStarts[picked.from] <= e.settledAt
     /\ e.settledAt <= DayStarts[Max({picked.from, picked.to})] + Day

Matches(e) ==
  /\ InRange(e)
  /\ columns.role \in {"all", e.role} /\ columns.result \in {"all", e.result}

Filtered == {e \in ToSet(entries) : Matches(e)}

(* As the table sorts: by a column, then in the order they came.           *)
NotAfter(a, b) ==
  LET place(e) == CHOOSE k \in DOMAIN entries : entries[k] = e IN
  \/ IF sort.desc THEN a[sort.by] > b[sort.by] ELSE a[sort.by] < b[sort.by]
  \/ a[sort.by] = b[sort.by] /\ place(a) <= place(b)

Rows ==
  [i \in 1 .. Cardinality(Filtered) |->
     CHOOSE e \in Filtered : Cardinality({f \in Filtered : NotAfter(f, e)}) = i]

(* The header of the page, HistoryStats, and what is shared.               *)
Stats ==
  [pnl    |-> SumFunction([k \in DOMAIN entries |-> entries[k].pnl]),
   wins   |-> Cardinality({k \in DOMAIN entries : entries[k].result = "profit"}),
   volume |-> SumFunction([k \in DOMAIN entries |-> trades[entries[k].id].deal.quantity]),
   trades |-> Len(entries)]

PageCount == (Len(Rows) + PageSize - 1) \div PageSize

PickRole(r) ==
  /\ picked' = [picked EXCEPT !.role = r] /\ columns' = [columns EXCEPT !.role = r]
  /\ page' = 0 /\ UNCHANGED <<fee, trades, settled, hour, entries, sort>>

PickResult(r) ==
  /\ picked' = [picked EXCEPT !.result = r] /\ columns' = [columns EXCEPT !.result = r]
  /\ page' = 0 /\ UNCHANGED <<fee, trades, settled, hour, entries, sort>>

(* The calendar gives a first day alone (to = 0), then a range.            *)
PickDays(from, to) ==
  /\ picked' = [picked EXCEPT !.from = from, !.to = to]
  /\ page' = 0 /\ UNCHANGED <<fee, trades, settled, hour, entries, columns, sort>>

HasActiveFilters == picked # NoFilter

ClearFilters ==
  /\ HasActiveFilters /\ picked' = NoFilter
  /\ columns' = [role |-> "all", result |-> "all"]
  /\ page' = 0 /\ UNCHANGED <<fee, trades, settled, hour, entries, sort>>

ToggleSort(c) ==
  /\ sort' = [by |-> c, desc |-> sort = [by |-> c, desc |-> FALSE]]
  /\ page' = 0 /\ UNCHANGED <<fee, trades, settled, hour, entries, picked, columns>>

TurnTo(p) ==
  /\ p \in 0 .. (PageCount - 1) /\ p # page /\ page' = p
  /\ UNCHANGED <<fee, trades, settled, hour, entries, picked, columns, sort>>

Next ==
  \/ \E role \in Roles, d \in Deals, c \in Collects : Sell(role, d, c)
  \/ \E bps \in PremiumFees : SetFee(bps)
  \/ \E i \in DOMAIN trades, p \in Prices : Settle(i, p)
  \/ Tick \/ Fetch
  \/ \E r \in RoleChoices : PickRole(r)
  \/ \E r \in ResultChoices : PickResult(r)
  \/ \E from \in DOMAIN DayStarts, to \in {0} \cup DOMAIN DayStarts :
       (to = 0 \/ from <= to) /\ PickDays(from, to)
  \/ ClearFilters
  \/ \E c \in SortColumns : ToggleSort(c)
  \/ \E p \in 0 .. MaxTrades : TurnTo(p)

Spec == Init /\ [][Next]_vars
-----------------------------------------------------------------------------
(* The card of an open option, at the price of the moment: the payout is   *)
(* rounded, no fee is taken off it.                                        *)

CardPnl(t, price) ==
  LET payout == (2 * t.deal.quantity * Max({0, price - t.deal.strike}) + price) \div (2 * price)
      premium == NetPremium(t.paid, fee, t.role)
  IN  IF t.role = "buyer" THEN payout - premium ELSE premium - payout

Open == {i \in DOMAIN trades : trades[i].price = 0}

-----------------------------------------------------------------------------
TypeOK ==
  /\ fee \in PremiumFees /\ hour \in 0 .. MaxHour
  /\ ToSet(settled) = DOMAIN trades \ Open /\ IsInjective(settled)
  /\ Len(entries) <= Len(settled)
  /\ picked.from \in {0} \cup DOMAIN DayStarts /\ picked.to \in {0} \cup DOMAIN DayStarts
  /\ page \in Nat

(* The profit or loss of an entry is what the trade did to the balance of  *)
(* the user, from the sale to the settlement, as long as the premium fee   *)
(* was collected and is what it was at the sale (get-history, pnl.ts).     *)
PnlIsWhatItDid ==
  \A k \in DOMAIN entries :
    LET e == entries[k]  t == trades[e.id] IN
    (e.role = "buyer" \/ (t.collected /\ t.fee = e.fee)) => e.pnl = t.gain[e.role]

(* The card of an open option foretells the history: settled at the price  *)
(* the card is computed with, the trade ends with what the card showed     *)
(* less the fees of the user's side, up to a satoshi of rounding; a writer *)
(* pays the transfers as far as there is collateral left for them.         *)
CardForetellsHistory ==
  \A i \in Open, p \in Prices :
    LET t == trades[i]
        share == Division(t.deal, p)
        final == CalculatePnl(t.role, NetPremium(t.paid, fee, t.role),
                              share[t.role], t.deal.quantity)
        taken == IF t.role = "buyer" THEN share.fee
                 ELSE Min({share.charge, t.deal.quantity - GrossPayout(t.deal, p)})
    IN  CardPnl(t, p) - final - taken \in -1 .. 1

(* Table and header tell the same story: with no filter shown as active no *)
(* trade is hidden, with that of the profits alone the rows are the wins   *)
(* (clearFilters, and the two places a filter is kept in).                 *)
TableAgreesWithHeader ==
  /\ ~HasActiveFilters => Len(Rows) = Stats.trades
  /\ picked = [NoFilter EXCEPT !.result = "profit"] => Len(Rows) = Stats.wins

(* The table never stands on a page it has not, whatever filters and new   *)
(* data have done to its rows.                                             *)
PageExists == page = 0 \/ page < PageCount

(* The comment of calculatePnl says that a writer's result is the returned *)
(* collateral and the premium, less the locked collateral.                 *)
WriterPnlIsPremiumPlusRest ==
  \A k \in DOMAIN entries :
    entries[k].role = "writer" => entries[k].pnl = trades[entries[k].id].gain["writer"]

(* The documentation says that a settled option appears in History with    *)
(* the final result: what is shown of a trade does not change.             *)
FinalResultStays ==
  [][\A k \in DOMAIN entries : \E m \in DOMAIN entries' :
       entries'[m].id = entries[k].id /\ entries'[m].pnl = entries[k].pnl]_vars

(* The documentation says that there are no fees on losses: who ends a     *)
(* trade with a loss has not paid the profit fee.                          *)
NoFeesOnLosses ==
  \A i \in DOMAIN trades \ Open :
    trades[i].gain["buyer"] < 0 => Division(trades[i].deal, trades[i].price).fee = 0

(* The documentation offers to filter by date range: the range of one day  *)
(* shows every trade settled on it.                                        *)
DayHoldsItsTrades ==
  \A k \in DOMAIN entries :
    (picked.from > 0 /\ picked.to = 0 /\ columns = [role |-> "all", result |-> "all"]
       /\ DayStarts[picked.from] <= entries[k].settledAt
       /\ (picked.from < Len(DayStarts) => entries[k].settledAt < DayStarts[picked.from + 1]))
    => entries[k] \in ToSet(Rows)
=============================================================================
