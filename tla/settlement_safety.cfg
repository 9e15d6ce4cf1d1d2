SPECIFICATION MCSpec
CONSTANTS
  writer = writer
  buyer = buyer
  other = other
  o1 = o1
  o2 = o2
  Options = {o1, o2}
  Users = {writer, buyer, other}
  Writer <- MCWriter
  Buyer <- MCBuyer
  Quantity <- MCQuantity
  Strike <- MCStrike
  Available0 <- MCAvailable
  Prices = {4, 8}
  ProfitFeeBps = 2500
  Fees = {1, 2}
INVARIANTS
  RecordsAgree
  CollateralIsKept
  BooksMatchLedger
PROPERTIES
  PayoutKeepsItsPromise
  TheOneComesToRest
CHECK_DEADLOCK FALSE
