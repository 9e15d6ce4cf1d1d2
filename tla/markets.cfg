SPECIFICATION UnionSpec
CONSTANTS
  Accepts = {a1}
  Settlements = {s1, s2}
  Snapshots = {p1}
  Expiry = 2
  Window = 2
  MaxAttempts = 2
  Wait = 1
  Kept = 4
  Horizon = 6
  None = None
  Groups <- MCGroups
  Deals <- MCDeals
  Roles = {"buyer", "writer"}
  Collects = {TRUE, FALSE}
  PremiumFees = {500}
  ProfitFeeBps = 2000
  TransferFee = 10
  Prices = {99, 103}
  DayStarts <- MCDayStarts
  Day = 2
  PageSize = 1
  RoleChoices = {"all", "buyer"}
  ResultChoices = {"all", "profit"}
  SortColumns = {"settledAt", "pnl"}
  MaxTrades = 2
  MaxHour = 1
  Bots = {"b"}
  Writers = {"w"}
  Slots = {"t1", "t2"}
  BotOf <- MCBotOf
  Registered0 = {}
  Book0 <- MCBook0
  Available0 <- MCAvailable0
  MinAccept = 2
  MaxAccept = 8
  MinCreate = 2
  MaxCreate = 4
  MaxPerTerm = 2
  MaxOpen = 1
  Strikes = {11000}
  Premiums = {2500}
  Actions = {"random", "create"}
  Deposit = 2
  MaxSigned = 2
  MaxFailures = 1
  MaxDeposits = 1
  a1 = a1
  p1 = p1
  s1 = s1
  s2 = s2
INVARIANTS
  HistoryIsTrue
  BotsTradeOnce
PROPERTIES
  LaterPricesAreNoWorse
  AcceptsArePricedWell
CHECK_DEADLOCK FALSE
