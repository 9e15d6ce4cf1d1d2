SPECIFICATION UnionSpec
CONSTANTS
  j1 = j1
  u1 = u1
  w1 = w1
  info = info
  error = error
  Syncs = {j1}
  Users = {u1}
  Limit = 2
  Batch = 1
  HistoryLimit = 2
  Week = 1
  Day = 2
  NanosPerSecond = 10
  MaxEvents = 3
  MaxNow = 2
  MaxKills = 1
PROPERTY
  EveryJobGetsThere
CHECK_DEADLOCK FALSE
