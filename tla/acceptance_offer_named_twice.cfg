SPECIFICATION Spec
CONSTANTS
  w1 = w1
  w2 = w2
  b1 = b1
  b2 = b2
  o1 = o1
  o2 = o2
  a1 = a1
  a2 = a2
  Users = {w1, b1}
  Offers = {o1}
  Accepts = {a1}
  Writer <- TwiceWriter
  Total <- TwiceTotal
  PremiumBps <- TwicePremiumBps
  Buyer <- TwiceBuyer
  Items <- TwiceItems
  Stitching = TRUE
  PartialFilling = TRUE
  PremiumFeeBps = 5000
  MaxOffers = 5
  Available0 <- TwiceAvailable
  Fees = {1, 2}
INVARIANTS
  NoMoreSoldThanOffered
CHECK_DEADLOCK FALSE
