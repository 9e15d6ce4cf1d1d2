SPECIFICATION UnionSpec
CONSTANTS
  j1 = j1
  j2 = j2
  u1 = u1
  d1 = d1
  w1 = w1
  info = info
  error = error
  None = None
  Syncs = {j1, j2}
  Jobs = {j1, j2}
  Users = {u1}
  Limit = 2
  Batch = 1
  HistoryLimit = 2
  Week = 1
  Day = 2
  NanosPerSecond = 10
  MaxEvents = 3
  MaxNow = 2
  MaxKills = 1
  Deposits = {d1}
  Owner <- MCOwner
  Value <- MCValue
  MintFee = 1
  Premiums = {}
  MinterConfs = 1
  MaxAttempts = 2
  MaxAge = 0
  MaxBackoff = 2
  DueLimit = 1
  MaxHeight = 1
  Horizon = 1
  Withdrawals = {w1}
  Polls = 1
  WdDueLimit = 1
  WdMaxAge = 0
  FreshWindow = 1
  WdMaxBackoff = 2
  WdHorizon = 1
  Priorities = {info, error}
  Capacity = 2
  ShipLimit = 5
  DefaultLimit = 1
  Lookback = 1
  MaxEntries = 3
  ShipMaxNow = 1
  MaxUpgrades = 1
  ShipMaxKills = 1
  HistoryHours = 3
  WindowSpan = 2
  MaxCandles = 3
  SaveBatch = 2
  RefreshEvery = 2
  Start = 3
  MkHorizon = 6
  Accepts = {}
  Settlements = {w1}
  Snapshots = {d1}
  MaxRows = 2
  Expiry = 1
  Window = 1
  XrcAttempts = 1
  Wait = 1
  Kept = 2
  ArHorizon = 3
SYMMETRY JobSymmetry
INVARIANTS
  NothingBehindTheCursorIsMissing
  NothingIsOverlooked
  LeavesTheListForAReason
  MarketRowsAreTrue
PROPERTIES
  CreditSurvivesItsJob
CHECK_DEADLOCK FALSE
