\* One AptlyCleanup (RegistryGC's steps and one more), every fault once.
SPECIFICATION Spec
CONSTANTS
  RegistryRuns = {}
  AptlyRuns = {a1}
  MaximumAttempts = 3
  Faults = {"cancel", "terminate", "crash", "stall", "churn", "late"}
INVARIANTS
  TypeOK
  NeverSilentlyStranded
  WorkOffline
  AtMostOneContainer
PROPERTIES
  CompensationIsSent
  BackInService
  KeepsContract
CHECK_DEADLOCK FALSE
