\* Two RegistryGC executions on the job, one of which may be cancelled.
SPECIFICATION Spec
CONSTANTS
  RegistryRuns = {r1, r2}
  AptlyRuns = {}
  MaximumAttempts = 2
  Faults = {"cancel", "terminate"}
INVARIANTS
  NeverSilentlyStranded
PROPERTIES
  KeepsContract
CHECK_DEADLOCK FALSE
