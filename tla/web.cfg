SPECIFICATION WebSpec
CONSTANTS
  Watchers = {"u1", "u2"}
  Arrivals = {"d1", "d2"}
  To <- ToEach
  Deep = 1
  MaxDelay = 4
  MaxDepth = 1
  MaxLosses = 1
  MaxSwitches = 3
  Names = {"alice"}
  MoveAmounts = {1, 3}
  MinDeposit = 2
  MinWithdraw = 2
  Wallet = 6
  Reserve = 2
  AccountAvailable0 = 5
  MaxClicks = 2
  MaxRequests = 2
  MaxDisconnects = 1
  Newcomers = {"fay", "ann", "bob"}
  Codes = {"F", "A"}
  Friend = "fay"
  Candidates <- InviteCandidates
  MaxRuns = 3
  MaxConnections = 2
  MaxLinks = 1
  MaxPauses = 1
  HourTicks = 2
  DayHours = 2
  WindowHours = 3
  MaxCandles = 5
  MinDays = 2
  MaxDays = 3
  Terms = {1, 2}
  Strikes = {5}
  ClosingPrice <- ClosingPrices
  Prices = {10}
  Sizes = {20, 32}
  Left = 4
  Right = 1
  Top = 2
  Height = 20
  Clocks <- BrowserClocks
  Start = 19
  MaxNow = 20
INVARIANTS
  AccountsDoNotMix
  ModalsTellOfTheirOwn
  OnboardedOnce
  PagesForetellExpiry
CHECK_DEADLOCK FALSE
