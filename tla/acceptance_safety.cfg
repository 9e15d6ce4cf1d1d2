SPECIFICATION Spec
CONSTANTS
  w1 = w1
  w2 = w2
  b1 = b1
  b2 = b2
  o1 = o1
  o2 = o2
  a1 = a1
  a2 = a2
  Users = {w1, b1, b2}
  Offers = {o1, o2}
  Accepts = {a1, a2}
  Writer <- RivalWriter
  Total <- RivalTotal
  PremiumBps <- RivalPremiumBps
  Buyer <- RivalBuyer
  Items <- RivalItems
  Stitching = TRUE
  PartialFilling = TRUE
  PremiumFeeBps = 5000
  MaxOffers = 5
  Available0 <- RivalAvailable
  Fees = {1, 2}
INVARIANTS
  RecordsAgree
  EveryOptionIsCovered
  BooksMatchLedger
PROPERTIES
  AcceptKeepsItsPromise
CHECK_DEADLOCK FALSE
