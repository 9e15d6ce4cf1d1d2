SPECIFICATION UnionSpec
CONSTANTS
  user = user
  w1 = w1
  w2 = w2
  v1 = v1
  v2 = v2
  b1 = b1
  o1 = o1
  o2 = o2
  a1 = a1
  Users = {user}
  Withdrawals = {w1, w2}
  Owner <- MCOwner
  Amounts = {3, 4}
  MinNet = 2
  Available0 <- MCAvailable
  Fees = {1, 2}
INVARIANTS
  RecordsAgree
  RefundsMatchLedger
  SentAtMostOnce
PROPERTIES
  EveryWithdrawalComesToRest
  EveryAcceptComesToRest
CHECK_DEADLOCK FALSE
