SPECIFICATION Spec
CONSTANTS
  user = user
  w1 = w1
  w2 = w2
  Users = {user}
  Withdrawals = {w1, w2}
  Owner <- MCOwner
  Amounts = {3, 4}
  MinNet = 2
  Available0 <- MCAvailable
  Fees = {1, 2}
INVARIANT AvailableIsSpendable
CHECK_DEADLOCK FALSE
