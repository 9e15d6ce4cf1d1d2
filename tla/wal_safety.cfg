\* Operation 1 retries by itself (an Accept or a Settlement), operation 2 is a
\* withdrawal.
SPECIFICATION FairSpec
CONSTANTS
  Ops = {1, 2}
  AutoOps = {1}
  Drainers = {d1, d2}
  MaxRetries = 2
  Backoff = 1
  StaleTimeout = 1
  RetryMaxAge = 2
  Retention = 1
  ScanLimit = 2
  Horizon = 3
  AttemptBound = 2
INVARIANTS
  TypeOK
  AttemptOwnsRow
  WithdrawalsNeedACaller
PROPERTIES
  SucceededIsFinal
  EveryOperationComesToRest
