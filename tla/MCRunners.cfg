\* One repository: two plain jobs under its cap, one of the vm profile. Any one fault.
SPECIFICATION Spec
CONSTANTS
  j1 = j1
  j2 = j2
  j3 = j3
  app = app
  forge = forge
  Jobs = {j1, j2, j3}
  RepoOf <- GitHubRepo
  LabelsOf <- GitHubLabels
  RepoCfgs <- GitHubCfg
  RunnerJobID = "ci-runner"
  Runners = {1, 2}
  Faults = {"tick", "list", "info", "start", "reject", "lost", "cancel", "worker",
            "slow", "reap", "misread", "die", "wedge", "withdraw"}
  MaxFaults = 1
INVARIANTS
  TypeOK
  BucketCap
  OrphanIsReported
PROPERTIES
  ReapsOnlyFinished
CHECK_DEADLOCK FALSE
