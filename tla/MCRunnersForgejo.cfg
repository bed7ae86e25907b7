\* One Forgejo repository with a cap of one, two equal jobs, no fault.
SPECIFICATION Spec
CONSTANTS
  j1 = j1
  j2 = j2
  j3 = j3
  app = app
  forge = forge
  Jobs = {j1, j2}
  RepoOf <- ForgejoRepo
  LabelsOf <- PlainLabels
  RepoCfgs <- ForgejoCfg
  RunnerJobID = "ci-runner"
  Runners = {1, 2}
  Faults = {}
  MaxFaults = 0
INVARIANT ForgejoCap
CHECK_DEADLOCK FALSE
