SPECIFICATION Spec
CONSTANTS
  IssueAttempts = 3
  PublishAttempts = 2
  MaxRuns = 2
  MaxFaults = 3
INVARIANTS
  TypeOK
  PublishedFresh
  OneAccount
  NoIssuanceForPublish
CHECK_DEADLOCK FALSE
