---------------------------- MODULE MCRunnerScaler ----------------------------
(***************************************************************************)
(* Instances of RunnerScaler: their jobs, and a configuration each.        *)
(***************************************************************************)
EXTENDS RunnerScaler, TLC

CONSTANTS j1, j2, j3, app, forge

plain == {"self-hosted"}
vm == {"self-hosted", "vm"}

vmRule == [label |-> "vm", job |-> "vm-runner", maxConcurrent |-> 1]

\* One GitHub repository: two plain jobs under the repository's cap, and one
\* whose label routes it to another pool, whose runners also take plain jobs.
GitHubRepo == [j \in Jobs |-> app]
GitHubLabels == [j \in Jobs |-> IF j = j3 THEN vm ELSE plain]
GitHubCfg == app :> [mode |-> "app", maxConcurrent |-> 1, profiles |-> <<vmRule>>]

PlainLabels == [j \in Jobs |-> plain]

\* A repository on a Forgejo instance.
ForgejoRepo == [j \in Jobs |-> forge]
ForgejoCfg == forge :> [mode |-> "forgejo", maxConcurrent |-> 1, profiles |-> <<>>]
=============================================================================
