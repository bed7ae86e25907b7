\* One snapshot, two databases, one slot: a run after one whose database uploads failed.
SPECIFICATION Spec
CONSTANTS
  Snapshots = {"nomad"}
  Databases = {"d1", "d2"}
  DumpConcurrency = 1
  MaximumAttempts = 2
  MaxEvictions = 1
  LocalDays = 1
  S3Days = 1
  S3Cleanup = TRUE
  Earlier = 1
  Uploaded = {"nomad", "globals"}
  MaxRuns = 1
  MaxFaults = 2
INVARIANTS
  TypeOK
  BackupComplete
  ReportedStored
PROPERTIES
  LocalKept
  RunCloses
CHECK_DEADLOCK FALSE
