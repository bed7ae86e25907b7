SPECIFICATION Spec
CONSTANTS
  Folders <- MCFolders
  Files <- MCFiles
  Concurrency = 2
  MaximumAttempts = 2
  MaxFaults = 3
INVARIANTS
  TypeOK
  EpisodeOrMovie
  ScannedAfterImport
  NoFolderForgotten
PROPERTIES
  ImportsOnlyMissing
CHECK_DEADLOCK FALSE
