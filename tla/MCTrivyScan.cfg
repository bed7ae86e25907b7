SPECIFICATION Spec
CONSTANTS
  Images <- MCImages
  Reports <- MCReports
  Concurrency = 1
  MaximumAttempts = 2
  MaxFaults = 3
INVARIANTS
  TypeOK
  ScansAreComplete
  SummaryIsStored
  EveryImageOnRecord
CHECK_DEADLOCK FALSE
