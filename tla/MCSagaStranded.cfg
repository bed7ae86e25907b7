\* One RegistryGC, no fault but failing API calls.
SPECIFICATION Spec
CONSTANTS
  RegistryRuns = {r1}
  AptlyRuns = {}
  MaximumAttempts = 3
  Faults = {}
INVARIANT StrandedOnlyByScaleBack
CHECK_DEADLOCK FALSE
