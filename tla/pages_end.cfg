SPECIFICATION UnionSpec
CONSTANTS
  Names = {"alice"}
  Amounts = {3}
  MinDeposit = 2
  MinWithdraw = 2
  Wallet = 6
  Reserve = 2
  Available0 = 5
  MaxClicks = 1
  MaxRequests = 1
  MaxDisconnects = 1
PROPERTY
  NobodyWaitsForEver
CHECK_DEADLOCK FALSE
