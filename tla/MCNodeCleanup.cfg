SPECIFICATION Spec
CONSTANTS
  Nodes = {"n1", "n2"}
  Items <- MCItems
  Kind <- MCKind
  Home <- MCHome
  Names = {"web"}
  Users <- MCUsers
  StripIndex <- MCStripIndex
  Excluded = {}
  LiveStore = {}
  Prunes = {"image", "rootfs"}
  Concurrency = 1
  MaximumAttempts = 2
  MaxFaults = 2
INVARIANTS
  TypeOK
  SweptOrReported
PROPERTIES
  DeletesOnlyOrphans
  RunCloses
CHECK_DEADLOCK FALSE
