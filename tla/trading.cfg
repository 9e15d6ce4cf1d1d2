SPECIFICATION UnionSpec
CONSTANTS
  Users <- MCUsers
  Offers <- MCOffers
  Writer <- MCWriter
  PremiumBps <- MCPremiumBps
  MinAccept = 2
  MaxAccept = 8
  Buyer = "b"
  Quantity0 <- MCQuantity0
  Available0 <- MCAvailable0
  TransferFee = 1
  Amounts = {2}
  MaxSigned = 2
  MaxMoves = 1
  Self = "w"
  WriteBook <- MCWriteBook
  WriteAvailable0 <- MCWriteAvailable0
  MinCreate = 2
  MaxCreate = 8
  MaxOffers = 2
  PremiumValues <- MCPremiumValues
  WriteAmounts = {4}
  MaxWriteSigned = 1
  MaxWriteMoves = 1
  TermOptions = {1, 3, 7}
  StrikeOptions = {1, 5, 8}
  DefaultTerm = 7
  DefaultStrike = 5
  Limits <- MCLimits
  Lists <- MCLists
  MaxChanges = 2
INVARIANTS
  PremiumWithinAmount
  OneSignatureOneTrade
  SuccessIsTrue
  TheFormFitsTheBook
  WritersAreToldTheTruth
  WhatIsShownIsOrdered
CHECK_DEADLOCK FALSE
