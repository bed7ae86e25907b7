SPECIFICATION Spec
CONSTANTS
  Repos <- MCRepos
  Extends <- MCExtends
  Concurrency = 1
  MaximumAttempts = 2
  MaxRuns = 3
  ByHand = {2}
  MaxFaults = 2
INVARIANTS
  TypeOK
  SecretValid
  RenewedHolds
  NothingLeaks
CHECK_DEADLOCK FALSE
