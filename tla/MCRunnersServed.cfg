\* A plain job that runners of the vm profile may take too, and a vm job.
SPECIFICATION Spec
CONSTANTS
  j1 = j1
  j2 = j2
  j3 = j3
  app = app
  forge = forge
  Jobs = {j1, j3}
  RepoOf <- GitHubRepo
  LabelsOf <- GitHubLabels
  RepoCfgs <- GitHubCfg
  RunnerJobID = "ci-runner"
  Runners = {1, 2}
  Faults = {"tick", "list", "info", "lost", "reap", "misread", "die", "wedge"}
  MaxFaults = 1
PROPERTY JobsServed
CHECK_DEADLOCK FALSE
