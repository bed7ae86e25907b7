# Verification of nomad-temporal-jobs

TLA+ models of the Temporal workflows of this repository, TLC runs that check
them on small instances, and TLAPS proofs about them. Paths are relative to the
repository's root, with `src/` left out in running text.

| Module | What it is |
|---|---|
| `OutageContract` | what a maintenance saga promises about the job it works on |
| `MaintenanceSaga` | RegistryGC and AptlyCleanup, shown to implement the contract |
| `MaintenanceSagaProofs` | theorems about `MaintenanceSaga`, with their proofs |
| `RunnerScaler` | PollAndDispatch and HandleRunner |
| `MCRunnerScaler` | the configurations and jobs of `RunnerScaler`'s instances |
| `Backup` | the Backup workflow |
| `NodeCleanup` | the Cleanup workflow and its sweeps |
| `CertAcquirer` | the CertAcquirer workflow |
| `CertAcquirerProofs` | theorems about `CertAcquirer`, with their proofs |
| `TokenRenewer` | RenewTokens and RenewSonarCloudTokens |
| `TrivyScan` | the Scan workflow |
| `MediaImport` | the Reconcile workflow |
| `RunnerScalerProofs`, `BackupProofs`, `NodeCleanupProofs`, `TokenRenewerProofs`, `TrivyScanProofs`, `MediaImportProofs` | theorems about these, with their proofs |
| `MCNodeCleanup`, `MCTokenRenewer`, `MCTrivyScan`, `MCMediaImport` | the items, names, reports and files of the instances of these |

`MCx.cfg` files are the instances. A module without an `MC` module needs nothing
but constants and is instantiated by its cfg alone.

All modules of a workflow share three conventions. A *fault* is anything that
fails, is lost, or comes late; `MaxFaults` (or, in `MaintenanceSaga`, the set of
kinds) bounds how many there are in a behaviour, and each run allows at least as
many as it takes to use up the attempts of an activity. An *attempt that was
given up* may still do what its code can do after its context has expired. A
definition whose comment says *Slip* is a plausible mistake in the definition
after it; no run uses it, and the property it is paired with in `PROJECT.json`
fails when it takes that definition's place.

## The system

Seven worker binaries poll Temporal task queues. A workflow is deterministic
code in a Temporal execution; it awaits activities, which run on some worker, at
most once at a time as far as the server knows, and in truth perhaps twice: the
server gives an attempt up when its StartToClose or heartbeat timeout passes and
starts the next one, whatever the first one still does. Almost everything that
is hard here comes from that, and from external systems (Nomad, S3, the forge,
Vault) that act on a request whose answer is lost. Schedules live in another
repository; a one-off start may overlap with a scheduled one.

| Component | State | Operations | Talks to | Hard because | Correct when |
|---|---|---|---|---|---|
| Maintenance sagas (`maintenance/registrygc`, `maintenance/aptlycleanup`, `maintenance/internal/nodes`) | the workflow's position, its errors; the job's count; a one-shot container | find node, resolve image, measure, scale, wait drained, run container, measure, scale back, wait running | Nomad, Docker over SSH | lost answers, cancellation, termination, worker death, overlapping runs | the job comes back or an error says so; the container runs alone and once |
| Runner scaler (`runnerscaler`) | per poll: queued jobs by bucket; per child: its runner's job | load config, scan, count, dispatch shortfall; dispatch, wait, reap | Consul, GitHub or Forgejo, Nomad | three views of a runner that drift apart; abandoned children; a count that is stale when used | caps hold, no runner is lost silently, none is killed at work, every job is served |
| Backup (`backup`, `shared/client/s3store`) | artifacts on disk, objects in a bucket | snapshots, globals, per-database dumps, upload with eviction, retention | Nomad, Consul, Postgres, S3 | three concurrent legs and a fan-out, abandoned uploads that go on evicting, partial failure | success means complete; retention never takes the last good backup; a reported key exists |
| Node cleanup (`maintenance/nodecleanup`, `shared/client/ssh`) | data directories, images, rootfs entries of each node | list nodes, classify, delete, prune | Nomad, SFTP, Docker, containerd | the running set and the mount table are read once and used for minutes | nothing in use is deleted |
| Cert acquirer (`certacquirer`) | account, staged and published certificate in Vault | register, obtain, stage, publish | ACME, Vault | crash between two writes | one account, no needless issuance, certificate and key match |
| Token renewer (`ghtokenrenewer`) | tokens at GitHub and SonarCloud, a secret per repository | mint, seal and set, revoke older | Consul, GitHub, SonarCloud | retries under one name, overlapping runs | the secret always holds a live token |
| Trivy scan (`trivyscan`) | scan rows in Postgres | list images, scan and store, record failure | Nomad, Trivy, Postgres | retry after a lost commit | each image has one row a run |
| Media import (`mediaimport`) | the media libraries | list torrents, Sonarr, Radarr, refresh | Deluge, Sonarr, Radarr, Jellyfin | retry after a lost import answer | what was imported is refreshed |
| Postgres maintenance (`maintenance/postgresmaint`) | none of its own | list, vacuum each | Postgres | the fan-out, as in Backup | every database is attempted |
| Bounded fan-out (in seven workflows) | a buffered channel as semaphore, a wait group | acquire, work, release, join | - | early return without release | all items attempted, join reached |
| Shared runtime (`shared`), service clients (`shared/client`) | connections | bootstrap, telemetry, requests | all of the above | - | - |

## Reading the proofs

Each workflow's module has a `*Proofs` module beside it. It begins with the
inductive invariant, as named conjuncts with a sentence each; the sections after
it prove one conjunct each, action by action; the theorems come last, or where
their invariant is complete. A theorem speaks of `Spec`, of every value of the
constants that the `ASSUME`s of the component's module allow, and rests on
nothing else: bounds such as `MaxFaults` and `MaxRuns` are numbers without limit
there, and fairness plays no part. The assumptions on constants are types and
finiteness, and TLC evaluates them on every run.

Every invariant and action property of a passing run is stated by a theorem. What
is left to TLC: `BackInService`, `JobsServed`, both `RunCloses`, and the liveness
part of `KeepsContract`, because the prover knows neither `ENABLED` nor fairness.

`PROJECT.json` lists the hazards of each of them at the line where they bite,
with the properties that cover them.

## MaintenanceSaga

**State and code.** `pc[s]` is the activity that execution `s` awaits; the order
of the activities is the functions `RegistryGC` and `AptlyCleanup`, one case per
call of `ExecuteActivity`. Where an error leads is `AfterError`: before the
scale-down has succeeded the function returns, after it the deferred function
runs first, because that is where the code registers it. `errs[s]` collects what
the execution returns, the compensation's errors joined to it (`Reported`). An
activity is attempted `Attempts(step)` times; `call[s]` says how far an attempt
is: `sent`, and `applied` once Nomad has acted on a scale request. An attempt may
fail in either state, so a lost answer is an ordinary failure of an `applied`
attempt. Any failed attempt may be the last, because its error is not retryable
or because the activity's ScheduleToClose timeout is used up; and since that
timeout also counts the time in the queue, an activity that no worker takes fails
without an attempt (`QueueTimeout`; `call[s]` is `expired` until the workflow
sees it). `task[s]` and `box[s]` are the worker's side of the container activity:
the goroutine that dials, creates, waits, and removes the container on return,
and the container's process itself. They go on when the workflow has stopped
waiting (`Resolve`). The container can outlive its call: the daemon may have
started it when the answer to the start is lost, the wait ends in an error when
the connection drops, and the deferred removal goes over the same connection and
discards its own error (`StartContainerFails`, `RunContainerAborted`). `count`
and `alloc` are Nomad's. `overlooked` is auxiliary: the runs whose drain passed
over a pending allocation, which `WaitJobDrained` does not count.

Faults are named in `FaultKinds` and each occurs at most once in a behaviour:
cancellation, termination, a worker's death, a stalled heartbeat, an allocation
that dies and is replaced, and a scale request applied after its attempt timed
out. Failing attempts are unlimited up to the retry policy, and a lost connection
or an empty worker pool is no fault of this kind: they may happen at any time.

**Assumptions.** The job stays registered (`ErrJobNotFound` ends the retries of
a job that has nothing to scale back). Durations are abstracted: a timeout may
pass whenever its activity is outstanding. Measurements read only. A request that
Nomad applies after its client has given up (`"late"`) voids the contract: no
client-side code can exclude it, and the model does not pretend otherwise.

**What is checked.** `saga_faults` runs one AptlyCleanup, whose steps include
RegistryGC's, with all six faults; `saga_overlap` two RegistryGC executions of
two attempts each. Two executions are enough to interleave any scale-up with any
scale-down; three attempts are the code's, two keep a retry.

- `NeverSilentlyStranded`: runs that are all closed and clean leave count 1.
- `KeepsContract`: refinement of `OutageContract`, with its liveness.
- `WorkOffline`: a single run's container never works beside the job's own process
  unless somebody is told: the run was terminated, or it reports the container
  activity's error, or its allocation had died and the drain passed over the
  replacement that was still pending.
- `CompensationIsSent`: a run past its scale-down that is not terminated closes
  from its compensation only, and from a step of it that was attempted, or that
  no worker took in time.
- `AtMostOneContainer`, `BackInService`.

`saga_stranded` shows a statement of the documentation that the code does not
keep: a scale-down whose answers are lost is not compensated. A second one is not
kept either, and needs no run of its own, because it is what `WorkOffline` has to
allow: the container should run "only while the aptly job is scaled to 0"
(`maintenance/aptlycleanup/activities.go:84`). When the connection to its node
drops, its removal fails without a word (`shared/client/ssh/docker.go:123`) and the
job is scaled back beside it: `StartContainer`, `RunContainerAborted` with `box`
left as it was, and the compensation, without any of the faults. A cancellation,
which resolves the awaited activity at once while the worker still removes the
container, a stalled heartbeat and the worker's death have the same effect. In each
of these cases the run reports the container activity's error, and that is what
`WorkOffline` holds the code to.

**Fairness.** Weak fairness of each execution's steps and of its container
activity, because Temporal's timeouts end every attempt and the server schedules
what follows; of Nomad's scheduler. None for faults, for a container's exit, or
for a stray request.

**What is proved** (`MaintenanceSagaProofs`), for any number of executions, any
number of attempts and any set of faults, from the assumptions named in the
module:

| Theorem | Statement |
|---|---|
| `TypeCorrect` | `Spec => []TypeOK` |
| `NoSilentStranding` | `Spec => []NeverSilentlyStranded` |
| `ImplementsContract` | `Safe => Contract!SafeSpec` |
| `ContainerNotRestarted` | `Spec => []AtMostOneContainer` |
| `CompensationNotSkipped` | `Spec => CompensationIsSent` |
| `ContainerWorksOffline` | `Spec => []WorkOffline` |

Typing needs that an attempt starts only while one is left and that only open
executions have one under way (`RunInv`). Stranding is not inductive as stated:
while the count is 0 some open execution must still be due to scale up, or have
an error to report, and a request of a given-up attempt must belong to an
execution that has reported it (`Accounted`, `StrayOwned`); so the last one to
close cannot be clean over a job that is down. The contract's steps follow from
the same invariant. One container per execution rests on `ContainerOnce`: once
an execution has started its container or left that step, no attempt of it is
left. `WorkOffline` speaks of a single run. `Offline` says what each of its steps
may rely on as long as it has nothing to report about its container (`Told`): the
scale-down's own drain has been seen (`Drained`, or `Missed` for a drain that
passed over a replaced allocation), a container is up only while its call is
awaited, and no request of a given-up attempt is left to scale the job up
(`Isolated`). An error of the container activity stays among the run's errors
(`Lasting`), so a container that outlives its call is covered for good
(`ContainerFailureTold`). `CompensationIsSent` rests on `CallOpen`: an attempt
under way has been counted, so what leaves a step was attempted or has expired.
The liveness properties and all that concerns time are checked by TLC only.

## RunnerScaler

**State and code.** `phase`, `scanned`, `found` and `need` are the poll's: the
concurrent scans, then one count, then the children started one after another.
`pc[r]` is the child of runner `r`: `DispatchRunner`, `WaitRunnerDone`,
`ReapRunner`. `sent[r]` is a dispatch request under way, which outlives a child
that stopped waiting. `alloc[r]` is the dispatched job in Nomad: `registered`
before it has an allocation (not counted, not terminal), `active`, `dead`,
`purged`. `work[r]` is the CI job that the forge handed to it; any runner whose
labels cover the job's may get it. `Shortfall`, `Limit`, `matchProfile`,
`RunnerBucketKey` and `repoFromURL` are the pure functions of the same names.
A number of `Runners` is reused when its child has closed and its job is gone, so
the number bounds the runners at a time, not in a behaviour. `blind` is
auxiliary: the buckets that exceed their cap because a count could not see one of
their runners. So is `misread`: the runners that a failing call was about whose
error passed for "job not found". `IsJobNotFound` also matches any text that
contains 404, and the text of a network error quotes the dispatched ID, so a poll
or a deregister that failed may count as a runner that is gone (`WaitRunnerDone`,
`ReapMisread`).

**Assumptions.** One poll at a time (the schedule skips overlaps). A repository's
scan reads its queued jobs at one instant. The backstop exceeds the time in which
a healthy runner is placed, finds a job that is there and runs it, but for one
`slow` job; it is then that it fires. Labels are sets. Credentials are left out.

**What is checked.** `runners`: three jobs, two profiles, two runners, any one of
the fourteen kinds of fault. Two runners suffice to exceed each of the caps,
which are one, and three jobs to have a bucket wait while another is served.

- `BucketCap`: over the cap only through a count that missed a runner.
- `OrphanIsReported`: a live runner without child was left by a child that failed,
  or that misread an error about it.
- `ReapsOnlyFinished`: a runner that is not finished is reaped only by a child
  whose wait ended early, or that misread an error about it.
- `JobsServed` (`runners_served`): a queued job is eventually taken, unless a
  wedged runner that nobody reaps occupies the bucket. Two jobs, and the faults
  that lose a runner or a tick.

`runners_forgejo` shows a bug: Forgejo runners are never counted. A second bug is in
the wording of two properties: `IsJobNotFound` (`shared/client/nomad/nomad.go:450`)
takes any text with 404 in it, as in a timestamp, for "not found". One failing poll
can so make a child reap a busy runner, although "a blip never triggers an early
reap of a still-running runner" (`runnerscaler/activities/activities.go:504-506`),
and a failing deregister can make it end well over a live one
(`ReapsOnlyFinished`, `OrphanIsReported`: `r \in misread`). Two more
statements of the documentation are wider than what the code does, and the
properties are worded accordingly: the cap holds for each label set and not for
a pool (`BucketCap` is about buckets), and a worker restart during the wait leads
to the reap of a runner that is busy (`ReapsOnlyFinished` exempts a wait that
ended early).

**Fairness.** The poll (the schedule fires every 30 s), each child, the answer to
a dispatch that is awaited, and each placed runner. None for faults, for new CI
jobs, or for a dispatch nobody awaits.

**What is proved** (`RunnerScalerProofs`), for any jobs, runners, repositories,
profiles and faults:

| Theorem | Statement |
|---|---|
| `TypeCorrect` | `Spec => []TypeOK` |
| `KeepsCap` | `Spec => []BucketCap` |
| `OrphansAreReported` | `Spec => []OrphanIsReported` |
| `ReapsFinishedOnly` | `Spec => ReapsOnlyFinished` |

A cap in a profile or a repository is any integer, as in the configuration that
the code decodes: only a positive one caps, and that `need` is a natural number
in spite of it is part of `TypeCorrect`. `BucketCap` is not inductive, since a
poll plans from a count and starts its children later. `CapInv` counts both: the
runners that live in a bucket and those the poll has yet to start for it stay
within the limit, on every bucket whose count missed none (`blind` holds the
others). Its base is a lemma about `Shortfall`: what a plan starts, added to what
it counted, is within the limit. That a count misses none of a GitHub bucket's
runners unless one is unseen needs that the bucket key of a running runner is the
one its job was bucketed by, which is what fails for Forgejo. `ChildInv` gives
`OrphanIsReported` its last case (a child past its dispatch has no request under
way, so nothing is started for it later) and `ReapInv` is what a child knows when
it reaps: its wait ended early, it misread an error, or the runner is done.

## Backup

**State and code.** `pc[k]` follows each kind of artifact (a snapshot, the
globals, a database) through dump and upload; the Postgres leg lists the
databases after the globals and gives each a slot of the semaphore
(`Acquire`, `Slots`) that it holds until its goroutine returns. `tries[k]`
counts the failed attempts of the awaited activity, `round[k]` the evictions of
one attempt of `UploadToS3`. `remote` gives each object of the bucket its
LastModified (`Now` is later than all of them), and `DeleteOldest` deletes the
least of those under the prefix but the uploaded key; the globals' prefix covers
the databases' ones.
`ghosts` are upload attempts that timed out and go on. `failed` holds what is
fatal; `Join` decides on retention.

**Assumptions.** A run a day: artifacts and objects are told apart by kind and
run, and those exactly as old as the retention window may be on either side of
the cutoff. Attempts of one run write files of different names. The databases do
not change, and their sanitized names are distinct. An eviction's listing and
deletion are one step: only an abandoned upload of the globals shares objects
with another one. Failing attempts, quota errors and the cancellation share the
budget `MaxFaults`. A termination is not modelled.

**What is checked.** `backup`: one snapshot leg (the other is its twin), the
globals and two databases that share one slot; two attempts, one eviction each,
two faults; the bucket holds older objects of two kinds, and a window of one run
makes retention meet the artifacts of the run before. Two faults are what it
takes to lose a dump for good, or to have an abandoned attempt evict.

- `BackupComplete`: success means a whole artifact of every kind; a failure takes
  no other database's dump with it.
- `ReportedStored`: a reported key stays in the bucket until the next run.
- `LocalKept`: retention never takes the last whole artifact of a kind.
- `RunCloses`: no slot is lost.

`TypeOK` bounds the evictions of one attempt. The documentation speaks of three
evictions for an upload, which its three attempts may exceed.

**Fairness.** Of the workflow and of abandoned attempts as a whole: Temporal's
timeouts end them. None for faults and none for starting a run.

**What is proved** (`BackupProofs`), for any snapshots and databases, retention
windows, numbers of slots, attempts, evictions, runs and faults:

| Theorem | Statement |
|---|---|
| `TypeCorrect` | `Spec => []TypeOK` |
| `RunsAreComplete` | `Spec => []BackupComplete` |
| `ReportsStoredKeys` | `Spec => []ReportedStored` |
| `KeepsLastBackup` | `Spec => LocalKept` |

`BackupComplete` is about closed runs; what leads to it is `Dumped` (a leg that
is past its dump without having failed has a whole artifact on the disk), `Stages`
(no database is dumped before the globals are over and the listing is known) and
`Closing` (retention starts, and a run ends well, only with nothing failed). They
also give `LocalKept`: retention finds an artifact of this run of each kind, which
is younger than any window. `ReportedStored` needs the order of the uploads: a
database is reported only after the globals' upload is over, so that an eviction
for the globals takes a reported key only by an abandoned attempt (`Uploads`); and
that a bucket has a latest time, so that `Now` exists (`Dated`). `RunCloses` is
checked by TLC only.

## NodeCleanup

**State and code.** `pc[n]` is the coroutine of node `n` in `Cleanup`, `Slots`
its semaphore. An attempt of `CleanupNodeViaSSH` is a pair of a node and a
number; `at[a]` is the sweep it is in and its step there: first the looks, in
the order of `Looks`, then the removals. For directories the looks are
`RunningJobIDs` and `ReadDir`, for images the references of the containers and
the image list, for rootfs entries the directory and then the mount table. `left`
holds the candidates, which are removed one after another (`RemoveAll`), while
jobs and containers start and stop (`Start`, `Stop`). `isJobRunning` resolves the
index of a task group; the grace period is the set `young`. A directory that
cannot be deleted makes the attempt `dirty` and the run fail; a failing sweep of
the other kinds leaves a note in the output only. `guard` and `stale` are
auxiliary: what has had to be kept since the attempt looked, and the directories
that nothing used in this run.

**Assumptions.** A directory belongs to the jobs that its name may stand for.
The modification time is that of the directory itself, so that a job can use it
without making it young. Jobs and containers move only while something sweeps,
which is when it matters. `docker system prune` and the buildx volumes are left
to the daemon, which decides by itself what is in use.

**What is checked.** `node_cleanup`: two nodes that share one slot, on one of
them a directory with an index, an image and a rootfs entry of one job; two
attempts (three in the code; the third adds no other kind of overlap), two
faults, which is what it takes for a node to fail for good.

- `DeletesOnlyOrphans`: what is removed was neither in use when the sweep could
  last see it nor ever since; never an excluded or young directory, an image of a
  live store, or anything in a dry run; also beside an abandoned attempt. What
  the code cannot exclude is in the wording: a job that starts after the running
  set was read may lose its old directory, and a rootfs entry that comes into use
  after the mount table was read may be removed. The comment at
  `shared/client/ssh/rootfs.go:13-15` and `README.md:215`, by which a live rootfs
  is never touched, promise more than this.
- `SweptOrReported`: a run that ends well has left no directory, on the nodes it
  was given, that was old when it began and unused since.
- `RunCloses`.

**Fairness.** Of the workflow's own steps and of the attempt each node awaits:
the server dispatches what is awaited, and StartToClose ends an attempt that
hangs. None for abandoned attempts, jobs, containers or faults.

The documentation describes two settings otherwise than the code has them: the
page of this workflow says that a dry run is the default (the code's zero value
is off), and that the grace period spares what was recently used (it spares what
was recently changed at its top).

**What is proved** (`NodeCleanupProofs`), for any nodes, items, users, exclusions,
sweeps asked for, numbers of attempts and faults:

| Theorem | Statement |
|---|---|
| `TypeCorrect` | `Spec => []TypeOK` |
| `SweepsOrReports` | `Spec => []SweptOrReported` |
| `RemovesOnlyOrphans` | `Spec => DeletesOnlyOrphans` |

`GuardInv` follows an attempt through its looks: of directories and images it has
read the use first, so that what must stay and is listed later was seen in use or
is kept anyway; of rootfs entries it has the list first, and the mount table
afterwards strikes out what is used by then. Past the looks no candidate must
stay, and a removal takes candidates only. `SweepInv` is the other direction: no
stale directory is seen in use, every one on the node is a candidate, and the
sweep leaves one behind only by making its attempt dirty; `DoneInv` carries that
to the end of the node's activity and `FlowInv` to that of the run. That only the
attempt whose answer is used matters, and an abandoned one beside it takes nothing
away, is in the quantifier over all attempts. `RunCloses` is checked by TLC only.

## CertAcquirer

**State and code.** `phase` is the awaited activity, `pc` its next request:
`load`, `register`, `save`, `obtain`, `stage` of `IssueWildcardCert`; `read` and
`publish` of `PublishWildcardCert`. `account`, `staging` and `published` are the
three paths in Vault, `registered` and `issued` what the authority has made; the
numbers of accounts and certificates are their order. A failing attempt leaves a
request that was not carried out, was, or is in `late` and may be
(`AttemptFails`, `Late`). `ReadKVMaybe` tells an absent account (`None`) from a
Vault that cannot be read, which is a failing attempt. A rate limit is not
retried.

**Assumptions.** Runs are days apart, so no request outlives its run. Neither
activity heartbeats and lego does not look at its context, which is why a request
may be carried out after StartToClose. Giving up before the last attempt stands
for ScheduleToClose.

**What is checked.** `cert_acquirer`: two runs, three issue attempts as in the
code, two of the five publish attempts, three faults.

- `PublishedFresh`: Traefik reads what it read before the run or a certificate of
  this run, and the latter if the run ends well.
- `OneAccount`: another account is registered only for an attempt that failed
  between asking for one and knowing it saved.
- `NoIssuanceForPublish`: a certificate a run, and one for each attempt that
  failed between asking for it and knowing it staged.

No fairness and no liveness property: two activities in a row close by
Temporal's timeouts alone.

**What is proved** (`CertAcquirerProofs`), for any number of attempts, runs and
faults, from `ConstantsAssumption` alone:

| Theorem | Statement |
|---|---|
| `TypeCorrect` | `Spec => []TypeOK` |
| `OneAccountServes` | `Spec => []OneAccount` |
| `PublishingCostsNoIssuance` | `Spec => []NoIssuanceForPublish` |
| `TraefikReadsFresh` | `Spec => []PublishedFresh` |

The two counts are not inductive: a late request raises them when no attempt is
at fault any more. `AccountsCounted` therefore counts the late requests as made
already, and says that the one account beyond the failed attempts' is owed to an
attempt that is about to save it or has saved it; `CertsCounted` does the same
for the certificate of the run. `FreshInHand` gives `PublishedFresh`: whatever an
attempt holds to stage or publish, whatever such request is late, and what is
staged while the run publishes, is of this run.

## TokenRenewer

**State and code.** A task is a repository in a run; `pc[t]` is the next request
of its attempt: `mint`, `set`, and at SonarCloud `search` and `revoke`. A token is
known by repository, run and attempt, and its name by the first two alone, since
`sonarTokenName` is built from the activity's scheduled time: what an earlier
attempt has minted makes the retry fail (`MintRefused`), until no attempt is left. `Prior` is
what `revokeOldSonarTokens` finds by its prefix. `service` chooses between the
two workflows, which share `renewAll`.

**Assumptions.** Scheduled runs do not overlap; those in `ByHand` may start
beside an open one. No request outlives the attempts' run, up to the start of a
later one. Two runs never start in the same second. The repositories are a set: a
list that names one twice, which `shared/client/git/repos.go` does not exclude,
would renew it in two tasks of one run at once. The expiry of tokens is left out.

**What is checked.** `token_renewer`: two repositories, one name beginning with
the other; three runs, the second of which may overlap; two attempts and two
faults, so that a renewal can fail for good and a later run has to find what it
leaked.

- `SecretValid`: no repository holds a revoked token, but after two runs that
  renewed it at once. (Of those each revokes the other's, and the last secret to be
  set may be of a revoked token until the next run.)
- `RenewedHolds`: a run that ended well has left a valid token of its own.
- `NothingLeaks`: a renewal that revoked all it found leaves no older token.

`activities/sonarcloud.go:12-13` says that a scan that runs mid-rotation always
has a valid token. That holds of the secret, and not of a value that a running
scan read before: it is revoked right after the new one is set.

**What is proved** (`TokenRenewerProofs`), for any repositories, whichever names
extend which, any number of runs, of attempts and of faults:

| Theorem | Statement |
|---|---|
| `TypeCorrect` | `Spec => []TypeOK` |
| `SecretsStayValid` | `Spec => []SecretValid` |
| `RenewalsHold` | `Spec => []RenewedHolds` |
| `NoTokenLeaks` | `Spec => []NothingLeaks` |

`Apart` says when two runs can touch the forge at once: only if both are beside
another, and then every secret is suspect. So what acts otherwise is the latest
run alone (`Lone`), and `LoneInv` says that nobody revokes what it has minted and
that it revokes, itself or by a late request, only for a repository whose secret
is already its own. `Named` ties a request to its task: a task mints and writes
tokens of its own run and revokes others, which is where a prefix that matches too
much would break it. All requests, those of an attempt and late ones, satisfy
`Doing`, and `RemoteKept` says what any of them leaves as it was. `NothingLeaks`
rests on `LeaksListed`: what a task that revokes has not yet revoked, of earlier
runs, it has listed.

## TrivyScan

**State and code.** `act[i]` and `pc[i]` follow an image through `ScanImage`
(Trivy, then the transaction: scan row, vulnerabilities, commit) and, when that
has failed for good, `SaveScanResult`. `tx[i]` is the open transaction; `db` holds
committed rows with their vulnerabilities; `late` a commit under way when its
attempt was given up. `Firsts`, `Vulns` and `Counts` are `parseTrivyOutput` on a
report given as the sequence of its findings. The status that `ScanImage` sets on
a failure is lost with its result, and the row says `error` for every kind of
failure, as in the code.

**Assumptions.** Nobody cancels the workflow. Cancelled, `Scan` returns without an
error although images may have no row, so `EveryImageOnRecord` is about runs that
go to their end.

**What is checked.** `trivy_scan`: two images that share a slot, one with two
possible reports, in each a finding that matters to the counts or the
deduplication; two attempts, three faults (a scan fails for good with two, and
its row with one more).

- `ScansAreComplete`: a stored scan is all that a report lists, once for each ID.
- `SummaryIsStored`: the counts the workflow got are those of a stored scan.
- `EveryImageOnRecord`: a row for each image, unless saving its failure failed,
  and more than one only for lost commits.

No fairness and no liveness property: the fan-out is the one of `Backup`.

**What is proved** (`TrivyScanProofs`), for any images, reports, numbers of slots
and attempts, and faults:

| Theorem | Statement |
|---|---|
| `TypeCorrect` | `Spec => []TypeOK` |
| `StoresWholeScans` | `Spec => []ScansAreComplete` |
| `ReportsStoredScans` | `Spec => []SummaryIsStored` |
| `EveryImageIsOnRecord` | `Spec => []EveryImageOnRecord` |

`AttemptInv` says what an open transaction holds: nothing at its start, and at
the commit all of the report in hand, which is one of the image's or the empty one
of a failure's row. `RowsWhole` extends that to commits whose answer is not known
yet. `SummaryIsStored` needs a fact about `parseTrivyOutput`: the number of
findings it counts is that of the vulnerabilities it stores (`CountsOfVulns`, by a
bijection from first occurrences to findings). For `EveryImageOnRecord` two
countings are inductive: the rows of an image, stored or under way, exceed its
lost answers by at most one, and that one only when it is done (`RowsCounted`); an
image that is done without a row has cost two faults (`FaultsCounted`).

## MediaImport

**State and code.** `app[f]` and `pc[f]` follow a folder through `SonarrImport`
and, when that recognises nothing, `RadarrImport`: `ask` for the decisions, `post`
the import. `importable` and `NoMatch` decide as in the code. `accepted` are the
imports the services have taken on and `library` those they have carried out,
which they do later (`Import`); `scanned` is what was accepted when Jellyfin was
last asked.

**Assumptions.** A file that a service has is listed with one more rejection,
"not an upgrade", as the comment of `importable` has it. Files that Sonarr takes
for episodes may be known to it beforehand. The folders are a set:
`ListCompleted` does not exclude two torrents of one name, whose activities would
then share an ID.

**What is checked.** `media_import`: a season with a file that only the
overridden guard rejects, one rejected for good, and a film that Sonarr takes for
a series without episodes; two attempts, three faults.

- `ImportsOnlyMissing`: only from completed downloads, only without a reason to
  reject, nothing in a dry run.
- `EpisodeOrMovie`: no file becomes both, even when answers are lost.
- `ScannedAfterImport`: a scan is asked for after the imports, but for one whose
  answer nobody got: the retry finds nothing to import and counts nothing.
- `NoFolderForgotten`: each folder is imported from, skipped, or flagged. A *file*
  that Sonarr cannot map, in a folder where it maps another, is not flagged by
  the code, and the property does not say so.

An import that was accepted may be carried out after the scan: nothing in the
code waits for it.

**What is proved** (`MediaImportProofs`), for any finite set of files in any
folders, numbers of slots and attempts, and faults:

| Theorem | Statement |
|---|---|
| `TypeCorrect` | `Spec => []TypeOK` |
| `ImportsAreWanted` | `Spec => ImportsOnlyMissing` |
| `SortsEachFile` | `Spec => []EpisodeOrMovie` |
| `ScansItsImports` | `Spec => []ScannedAfterImport` |
| `AccountsForFolders` | `Spec => []NoFolderForgotten` |

A folder goes to Radarr only when Sonarr recognises nothing in it, and what an
attempt posts is recognised, wanted and in its folder (`OfferInv`). `RequestInv`
says the same of every import ever asked for, including those that may still be
accepted: each is of an episode or of a folder without any (`Sorted`), so no file
is both. `ScanInv` follows an accepted import to the scan: until one was asked
for, its folder is done with something imported and so makes the run ask, or its
answer is lost. That the results of a folder account for each file recognised in
it is a lemma about the cardinalities of what `importable` splits.

## Not modelled

Postgres maintenance runs one idempotent activity per database in the fan-out
that `Backup` and `NodeCleanup` check; nothing of its own is left. Docker's
system prune and the buildx volumes (in NodeCleanup) are the daemon's. The
runtime and telemetry keep no state the workflows depend on; of the client
adapters credentials, dialling and encoding are left out, and what a request
does is modelled where it is made. Out of the prover's reach, and left to TLC:
liveness and fairness. No module defines a recursive operator.

## Plan

Done: the sagas with their contract, the certificate, the runner scaler, the
backup, the node cleanup, the tokens, the scan and the media import, each with
proofs of all its invariants and action properties.

Left, in this order:

1. Abstract specifications of what `TokenRenewer` and `Backup` promise (a secret
   that is replaced by valid tokens; a shelf of artifacts of which the last whole
   one stays), with refinement by TLC and the step simulation by TLAPS, from the
   invariants that are proved.
2. `RunnerScaler`: pure facts about `matchProfile` and `Shortfall` (a job that no
   profile matches runs under the default; a plan never starts more runners than
   jobs wait).
