----------------------------- MODULE RunnerScaler -----------------------------
(***************************************************************************)
(* The runner scaler: PollAndDispatch, the scheduled poller that compares  *)
(* the CI jobs queued at the forge with the runners active in Nomad and    *)
(* starts the shortfall, and HandleRunner, the abandoned child that        *)
(* dispatches one ephemeral runner, waits until it is done and reaps it.   *)
(*                                                                         *)
(* The three views of a runner drift apart, and the model keeps them       *)
(* apart: the child workflow (pc), the dispatched job and its allocation   *)
(* in Nomad (alloc), and the CI job the forge gave it (work).  One poll    *)
(* runs at a time; the children of all polls run together.                 *)
(***************************************************************************)
EXTENDS Integers, Sequences, FiniteSets, FiniteSetsExt

CONSTANTS
  Jobs,         \* the CI jobs that will be queued
  RepoOf,       \* the repository of each
  LabelsOf,     \* the runs-on labels of each
  RepoCfgs,     \* the configuration: repo |-> [mode, maxConcurrent, profiles]
  RunnerJobID,  \* the parameterized job of the default runner
  Runners,      \* numbers 1..n for the runners, at most n at a time
  Faults,       \* the kinds of fault that may occur
  MaxFaults     \* bounds how often one occurs in a behaviour

FaultKinds == {
  "tick",      \* the poll fails: configuration or active count unreadable
  "list",      \* a repository cannot be scanned
  "info",      \* a dispatched job's Info call fails
  "start",     \* a child workflow does not start
  "reject",    \* the dispatch fails before Nomad accepts it
  "lost",      \* the dispatch times out, whether Nomad accepts it or not
  "cancel",    \* a child is cancelled
  "worker",    \* a waiting child's activity loses its worker
  "slow",      \* a CI job is still running at the backstop
  "reap",      \* every attempt of the reap fails
  "misread",   \* a failing call's error text contains "404"
  "die",       \* a runner's allocation fails
  "wedge",     \* a runner starts and never takes a job
  "withdraw"}  \* a queued CI job is cancelled at the forge

Repos == DOMAIN RepoCfgs
Modes == {"app", "vault", "forgejo"}

ASSUME JobsAssumption ==
  IsFiniteSet(Jobs) /\ RepoOf \in [Jobs -> Repos] /\ LabelsOf \in [Jobs -> SUBSET STRING]
ASSUME ConfigAssumption ==
  \A repo \in Repos :
    /\ RepoCfgs[repo].mode \in Modes
    /\ RepoCfgs[repo].maxConcurrent \in Int
    /\ RepoCfgs[repo].profiles \in Seq([label : STRING, job : STRING, maxConcurrent : Int])
ASSUME BoundsAssumption ==
  Runners \in SUBSET Nat /\ IsFiniteSet(Runners) /\ Faults \subseteq FaultKinds /\ MaxFaults \in Nat

VARIABLES
  job,        \* the CI jobs at the forge
  phase,      \* the poll: "idle", "scan", "start"
  scanned,    \* the repositories it has scanned
  found,      \* the queued jobs it has found there
  need,       \* the runners it still has to start, by bucket
  pc,         \* the child of each runner: the activity it awaits
  slot,       \* the bucket it serves
  cancelled,  \* its context is cancelled
  early,      \* its wait ended before the runner was done
  failed,     \* its result is an error
  misread,    \* history: the runners a failed call about which passed for "not found"
  sent,       \* its dispatch request is under way
  alloc,      \* the runner in Nomad
  work,       \* the CI job it runs
  wedged,     \* the runners that never take one
  blind,      \* the buckets over their cap because a count missed a runner
  faults      \* the faults that have occurred

poll == <<phase, scanned, found, need>>
child == <<pc, slot, cancelled, early, failed, misread>>
vars == <<job, poll, child, sent, alloc, work, wedged, blind, faults>>

--------------------------------------------------------------------------------
\* Pure parts.

\* Labels are compared as sets: the code sorts and joins them.
RunnerBucketKey(repo, labels) == <<repo, labels>>

Bucket(j) == RunnerBucketKey(RepoOf[j], LabelsOf[j])
Buckets == {Bucket(j) : j \in Jobs}

\* The first rule whose label the job carries, else the default.
matchProfile(profiles, labels) ==
  LET matching == {n \in DOMAIN profiles : profiles[n].label \in labels}
  IN  IF matching = {} THEN [job |-> RunnerJobID, maxConcurrent |-> 0]
                       ELSE profiles[Min(matching)]

\* What a number that is free serves.
NoBucket == RunnerBucketKey({}, {})

Rule(b) == matchProfile(RepoCfgs[b[1]].profiles, b[2])

\* The profile's cap, else the repository's; only a positive one caps.
Limit(b) == IF Rule(b).maxConcurrent # 0 THEN Rule(b).maxConcurrent
                                         ELSE RepoCfgs[b[1]].maxConcurrent

\* The repo_url of a dispatch: the forge's root and the repository.
repoURL(b) ==
  <<IF RepoCfgs[b[1]].mode = "forgejo" THEN "forgejoUrl" ELSE "https://github.com/", b[1]>>

\* Only GitHub's root is stripped: another forge's URL stays whole.
repoFromURL(url) == IF url[1] = "https://github.com/" THEN url[2] ELSE url

\* The dispatch jobs that the profiles name.
profileJobs ==
  {rule.job : rule \in UNION {{RepoCfgs[repo].profiles[i] :
                                 i \in DOMAIN RepoCfgs[repo].profiles} : repo \in Repos}}

--------------------------------------------------------------------------------
\* What the activities read, and what the poll makes of it.

\* A dispatched job without an allocation is neither active nor terminal.
Active == {r \in Runners : alloc[r] = "active"}

\* Slip: a runner that has no allocation yet taken for finished.
RunnerTerminalVacuously(r) == alloc[r] # "active"

\* What a poll that Nomad answers tells.
RunnerTerminal(r) == alloc[r] \in {"dead", "purged"}

\* Slip: terminal runners counted too, until their job is purged.
ActiveRunnerSlotsAll(seen) ==
  {r \in Runners : alloc[r] \in {"active", "dead"} /\ Rule(slot[r]).job \in {RunnerJobID} \cup profileJobs}

\* The active children of the counted jobs, those whose Info call succeeded.
ActiveRunnerSlots(seen) ==
  {r \in seen : Rule(slot[r]).job \in {RunnerJobID} \cup profileJobs}

CountActiveRunners(seen, b) ==
  Cardinality({r \in ActiveRunnerSlots(seen) :
                 RunnerBucketKey(repoFromURL(repoURL(slot[r])), slot[r][2]) = b})

\* Slip: the cap compared with the shortfall alone.
ShortfallUncounted(seen, b) ==
  LET needed == Cardinality({j \in found : Bucket(j) = b}) - CountActiveRunners(seen, b)
  IN  Max({0, IF Limit(b) > 0 THEN Min({needed, Limit(b)}) ELSE needed})

\* Slip: an over-covered bucket taken to need a negative number.
ShortfallSigned(seen, b) ==
  Cardinality({j \in found : Bucket(j) = b}) - CountActiveRunners(seen, b)

\* What is queued and not covered, as far as the cap allows.
Shortfall(seen, b) ==
  LET active == CountActiveRunners(seen, b)
      needed == Cardinality({j \in found : Bucket(j) = b}) - active
  IN  Max({0, IF Limit(b) > 0 THEN Min({needed, Limit(b) - active}) ELSE needed})

--------------------------------------------------------------------------------
\* Auxiliary: which runners exist, and which ones a count cannot see.

Unseen == {r \in Runners : sent[r] \/ alloc[r] = "registered"}
Live == Unseen \cup Active
LiveIn(b) == {r \in Live : slot[r] = b}
OverCap(b) == Limit(b) > 0 /\ Cardinality(LiveIn(b)) > Limit(b)

Fault(kind) ==
  /\ kind \in Faults
  /\ faults < MaxFaults
  /\ faults' = faults + 1

Init ==
  /\ job = [j \in Jobs |-> "new"]
  /\ phase = "idle"
  /\ scanned = {}
  /\ found = {}
  /\ need = [b \in Buckets |-> 0]
  /\ pc = [r \in Runners |-> "closed"]
  /\ slot = [r \in Runners |-> NoBucket]
  /\ cancelled = [r \in Runners |-> FALSE]
  /\ early = [r \in Runners |-> FALSE]
  /\ failed = [r \in Runners |-> FALSE]
  /\ misread = {}
  /\ sent = [r \in Runners |-> FALSE]
  /\ alloc = [r \in Runners |-> "purged"]
  /\ work = [r \in Runners |-> {}]
  /\ wedged = {}
  /\ blind = {}
  /\ faults = 0

--------------------------------------------------------------------------------
\* PollAndDispatch.

runner == <<child, sent, alloc, work, wedged>>

LoadConfig ==
  /\ phase = "idle"
  /\ phase' = "scan"
  /\ scanned' = {}
  /\ found' = {}
  /\ UNCHANGED <<job, need, runner, blind, faults>>

\* The repositories are scanned concurrently; one that cannot be is left empty.
ListQueuedJobs(repo) ==
  /\ phase = "scan"
  /\ repo \notin scanned
  /\ scanned' = scanned \cup {repo}
  /\ \/ /\ found' = found \cup {j \in Jobs : RepoOf[j] = repo /\ job[j] = "queued"}
        /\ UNCHANGED faults
     \/ Fault("list") /\ UNCHANGED found
  /\ UNCHANGED <<job, phase, need, runner, blind>>

\* The count follows the scans.  A job whose Info call fails counts for nothing.
CountAndPlan ==
  /\ phase = "scan"
  /\ scanned = Repos
  /\ \E missed \in SUBSET Active :
       /\ IF missed = {} THEN UNCHANGED faults ELSE Cardinality(missed) = 1 /\ Fault("info")
       /\ need' = [b \in Buckets |-> Shortfall(Active \ missed, b)]
       /\ blind' = {slot[r] : r \in Unseen \cup missed} \cup {b \in blind : OverCap(b)}
  /\ phase' = "start"
  /\ scanned' = {}
  /\ found' = {}
  /\ UNCHANGED <<job, runner>>

\* Numbers of no child and no runner.
Free == {r \in Runners : pc[r] = "closed" /\ ~sent[r] /\ alloc[r] \in {"dead", "purged"}}

\* The poll waits for each child to start, and leaves it.
startRunnerChild(r, b) ==
  /\ phase = "start"
  /\ need[b] > 0
  /\ r \in Free /\ r = Min(Free)
  /\ need' = [need EXCEPT ![b] = @ - 1]
  /\ pc' = [pc EXCEPT ![r] = "DispatchRunner"]
  /\ slot' = [slot EXCEPT ![r] = b]
  /\ cancelled' = [cancelled EXCEPT ![r] = FALSE]
  /\ early' = [early EXCEPT ![r] = FALSE]
  /\ failed' = [failed EXCEPT ![r] = FALSE]
  /\ misread' = misread \ {r}
  /\ sent' = [sent EXCEPT ![r] = TRUE]
  /\ alloc' = [alloc EXCEPT ![r] = "purged"]
  /\ wedged' = wedged \ {r}
  /\ UNCHANGED <<job, phase, scanned, found, work, blind, faults>>

StartFails(b) ==
  /\ phase = "start"
  /\ need[b] > 0
  /\ Fault("start")
  /\ need' = [need EXCEPT ![b] = @ - 1]
  /\ UNCHANGED <<job, phase, scanned, found, runner, blind>>

PollComplete ==
  /\ phase = "start"
  /\ \A b \in Buckets : need[b] = 0
  /\ phase' = "idle"
  /\ UNCHANGED <<job, scanned, found, need, runner, blind, faults>>

\* LoadConfig or CountActiveRunners fails, or the poll is terminated.
PollFails ==
  /\ phase # "idle"
  /\ Fault("tick")
  /\ phase' = "idle"
  /\ scanned' = {}
  /\ found' = {}
  /\ need' = [b \in Buckets |-> 0]
  /\ UNCHANGED <<job, runner, blind>>

--------------------------------------------------------------------------------
\* HandleRunner.

Await(r, activity) ==
  /\ pc' = [pc EXCEPT ![r] = activity]
  /\ UNCHANGED <<slot, cancelled, failed>>

ReturnError(r) ==
  /\ pc' = [pc EXCEPT ![r] = "closed"]
  /\ failed' = [failed EXCEPT ![r] = TRUE]
  /\ UNCHANGED <<slot, cancelled, early, misread>>

\* Nomad accepts the dispatch, whoever still waits for it.
DispatchRunner(r) ==
  /\ sent[r]
  /\ sent' = [sent EXCEPT ![r] = FALSE]
  /\ alloc' = [alloc EXCEPT ![r] = "registered"]
  /\ UNCHANGED <<job, poll, child, work, wedged, blind, faults>>

DispatchReturns(r) ==
  /\ pc[r] = "DispatchRunner"
  /\ ~sent[r]
  /\ Await(r, "WaitRunnerDone")
  /\ UNCHANGED <<early, misread, job, poll, sent, alloc, work, wedged, blind, faults>>

\* NoRetry: the child ends with the error.  A request that was lost, or left
\* behind by a cancellation, may have been or still be accepted.
DispatchFails(r) ==
  /\ pc[r] = "DispatchRunner"
  /\ \/ Fault("reject") /\ sent[r] /\ sent' = [sent EXCEPT ![r] = FALSE]
     \/ Fault("lost") /\ UNCHANGED sent
     \/ cancelled[r] /\ UNCHANGED <<sent, faults>>
  /\ ReturnError(r)
  /\ UNCHANGED <<job, poll, alloc, work, wedged, blind>>

\* Slip: a wait that ends early skips the reap.
AfterWaitNothing(endsEarly) == IF endsEarly THEN "closed" ELSE "ReapRunner"

\* However the wait ends, the reap follows.
AfterWait(endsEarly) == "ReapRunner"

\* An error of a Nomad call about r passes for "job not found" when its text
\* contains 404: a network error quotes the request's URL, and with it the
\* dispatched ID's timestamp and suffix, or a port.
IsJobNotFound(r) == Fault("misread") /\ misread' = misread \cup {r}

\* A poll finds the runner terminal, or fails with an error taken for that; any
\* other failing poll is repeated.
WaitRunnerDone(r) ==
  /\ pc[r] = "WaitRunnerDone"
  /\ \/ RunnerTerminal(r) /\ UNCHANGED <<misread, faults>>
     \/ IsJobNotFound(r)
  /\ Await(r, AfterWait(FALSE))
  /\ UNCHANGED <<early, job, poll, sent, alloc, work, wedged, blind>>

\* CI jobs that the forge may hand to runner r.
Claimable(r) ==
  {j \in Jobs : job[j] = "queued" /\ RepoOf[j] = slot[r][1] /\ LabelsOf[j] \subseteq slot[r][2]}

\* The backstop is taken to exceed the time a healthy runner needs to be placed,
\* to find a job that is there, and to run it; but for one "slow" job.
WaitEndsEarly(r) ==
  /\ pc[r] = "WaitRunnerDone"
  /\ \/ cancelled[r] /\ UNCHANGED faults
     \/ Fault("worker")
     \/ alloc[r] = "active" /\ work[r] # {} /\ Fault("slow")
     \/ /\ alloc[r] = "active" /\ work[r] = {}
        /\ r \in wedged \/ Claimable(r) = {}
        /\ UNCHANGED faults
  /\ Await(r, AfterWait(TRUE))
  /\ early' = [early EXCEPT ![r] = TRUE]
  /\ UNCHANGED <<misread, job, poll, sent, alloc, work, wedged, blind>>

\* The job is deregistered and purged, with whatever it runs.
StopJob(r) ==
  /\ pc[r] = "ReapRunner"
  /\ alloc[r] # "purged"
  /\ alloc' = [alloc EXCEPT ![r] = "purged"]
  /\ work' = [work EXCEPT ![r] = {}]
  /\ job' = [j \in Jobs |-> IF j \in work[r] THEN "killed" ELSE job[j]]
  /\ UNCHANGED <<poll, child, sent, wedged, blind, faults>>

\* A job that is already gone counts as reaped, so retries are harmless.  With
\* the child its number is free.
ReapRunner(r) ==
  /\ pc[r] = "ReapRunner"
  /\ alloc[r] = "purged"
  /\ pc' = [pc EXCEPT ![r] = "closed"]
  /\ slot' = [slot EXCEPT ![r] = NoBucket]
  /\ cancelled' = [cancelled EXCEPT ![r] = FALSE]
  /\ early' = [early EXCEPT ![r] = FALSE]
  /\ misread' = misread \ {r}
  /\ UNCHANGED <<failed, job, poll, sent, alloc, work, wedged, blind, faults>>

\* A deregister that failed passes for the same: the child returns normally, and
\* the runner stays.
ReapMisread(r) ==
  /\ pc[r] = "ReapRunner"
  /\ IsJobNotFound(r)
  /\ pc' = [pc EXCEPT ![r] = "closed"]
  /\ UNCHANGED <<slot, cancelled, early, failed, job, poll, sent, alloc, work, wedged, blind>>

ReapFails(r) ==
  /\ pc[r] = "ReapRunner"
  /\ Fault("reap")
  /\ ReturnError(r)
  /\ UNCHANGED <<job, poll, sent, alloc, work, wedged, blind>>

Cancel(r) ==
  /\ pc[r] # "closed"
  /\ Fault("cancel")
  /\ cancelled' = [cancelled EXCEPT ![r] = TRUE]
  /\ UNCHANGED <<job, poll, pc, slot, early, failed, misread, sent, alloc, work, wedged, blind>>

--------------------------------------------------------------------------------
\* Nomad, the runners and the forge.

\* The dispatched job gets its allocation, pending or running.
Place(r) ==
  /\ alloc[r] = "registered"
  /\ alloc' = [alloc EXCEPT ![r] = "active"]
  /\ \/ UNCHANGED <<wedged, faults>>
     \/ Fault("wedge") /\ wedged' = wedged \cup {r}
  /\ UNCHANGED <<job, poll, child, sent, work, blind>>

\* The forge hands any queued job whose labels match to an idle runner.
Claim(r, j) ==
  /\ alloc[r] = "active" /\ work[r] = {} /\ r \notin wedged
  /\ j \in Claimable(r)
  /\ work' = [work EXCEPT ![r] = {j}]
  /\ job' = [job EXCEPT ![j] = "running"]
  /\ UNCHANGED <<poll, child, sent, alloc, wedged, blind, faults>>

\* An ephemeral runner runs one job and exits; or its allocation fails.
Finish(r) ==
  /\ alloc[r] = "active"
  /\ \/ work[r] # {} /\ UNCHANGED faults
     \/ Fault("die")
  /\ alloc' = [alloc EXCEPT ![r] = "dead"]
  /\ work' = [work EXCEPT ![r] = {}]
  /\ job' = [j \in Jobs |-> IF j \in work[r] THEN "done" ELSE job[j]]
  /\ UNCHANGED <<poll, child, sent, wedged, blind>>

QueueJob(j) ==
  /\ \/ /\ job[j] = "new"
        /\ job' = [job EXCEPT ![j] = "queued"]
        /\ UNCHANGED faults
     \/ /\ job[j] = "queued"
        /\ job' = [job EXCEPT ![j] = "done"]
        /\ Fault("withdraw")
  /\ UNCHANGED <<poll, runner, blind>>

--------------------------------------------------------------------------------
\* The system.

PollAndDispatch ==
  \/ LoadConfig \/ CountAndPlan \/ PollComplete
  \/ \E repo \in Repos : ListQueuedJobs(repo)
  \/ \E b \in Buckets : StartFails(b) \/ \E r \in Runners : startRunnerChild(r, b)

HandleRunner(r) ==
  \/ DispatchReturns(r) \/ DispatchFails(r) \/ WaitRunnerDone(r) \/ WaitEndsEarly(r)
  \/ StopJob(r) \/ ReapRunner(r) \/ ReapMisread(r) \/ ReapFails(r)

\* A placed runner that may take a job takes one, and ends it.
Runner(r) == Place(r) \/ Finish(r) \/ \E j \in Jobs : Claim(r, j)

Next ==
  \/ PollAndDispatch \/ PollFails
  \/ \E r \in Runners : HandleRunner(r) \/ DispatchRunner(r) \/ Runner(r) \/ Cancel(r)
  \/ \E j \in Jobs : QueueJob(j)

\* The schedule fires again and again; Temporal runs the children and ends what
\* they await; Nomad places what it accepted; runners take and end jobs.
\* Nothing makes a fault happen, nor a CI job be queued.  An awaited dispatch is
\* answered; one left behind need never be accepted.
Fairness ==
  /\ WF_vars(PollAndDispatch)
  /\ \A r \in Runners :
       /\ WF_vars(HandleRunner(r) \/ (pc[r] = "DispatchRunner" /\ DispatchRunner(r)))
       /\ WF_vars(Runner(r))

Spec == Init /\ [][Next]_vars /\ Fairness

--------------------------------------------------------------------------------
\* Properties.

TypeOK ==
  /\ job \in [Jobs -> {"new", "queued", "running", "done", "killed"}]
  /\ phase \in {"idle", "scan", "start"}
  /\ scanned \subseteq Repos
  /\ found \subseteq Jobs
  /\ need \in [Buckets -> Nat]
  /\ pc \in [Runners -> {"closed", "DispatchRunner", "WaitRunnerDone", "ReapRunner"}]
  /\ slot \in [Runners -> Buckets \cup {NoBucket}]
  /\ cancelled \in [Runners -> BOOLEAN]
  /\ early \in [Runners -> BOOLEAN]
  /\ failed \in [Runners -> BOOLEAN]
  /\ misread \subseteq Runners
  /\ sent \in [Runners -> BOOLEAN]
  /\ alloc \in [Runners -> {"registered", "active", "dead", "purged"}]
  /\ work \in [Runners -> SUBSET Jobs]
  /\ wedged \subseteq Runners
  /\ blind \subseteq Buckets
  /\ faults \in 0..MaxFaults

\* On a repository whose forge is GitHub, a bucket holds more runners than its
\* cap only if, since it last kept to it, some poll counted while one of its
\* runners was dispatched and had no allocation yet, or could not be read:
\* concurrent scans, withdrawn jobs, diverted, orphaned and dying runners and
\* failing polls never add up to more.
BucketCap ==
  \A b \in Buckets :
    (RepoCfgs[b[1]].mode # "forgejo" /\ b \notin blind) => ~OverCap(b)

\* A runner that no child looks after any more was left by one that reported an
\* error, or whose error about it was misread as "not found": a child that ends
\* normally otherwise leaves none, whatever was cancelled, lost or late.
OrphanIsReported ==
  \A r \in Runners : (pc[r] = "closed" /\ r \in Live) => failed[r] \/ r \in misread

\* A runner that is still to start, waits for a job or runs one is reaped only by
\* a child whose wait ended early, or that misread an error as "not found": a job
\* without allocations, another failing poll or a retry never passes for a
\* finished runner.
ReapsOnlyFinished ==
  [][\A r \in Runners :
       (alloc[r] \in {"registered", "active"} /\ alloc'[r] = "purged")
         => early[r] \/ r \in misread]_vars

\* A runner that takes no job and that no child will reap.
Leaked == \E r \in wedged : pc[r] = "closed" /\ alloc[r] = "active"

\* Every queued job is taken, though runners are not bound to jobs: one that is
\* diverted, dies or is never started is replaced by a later poll.  (Unless a
\* leaked runner occupies the bucket.)
JobsServed == \A j \in Jobs : job[j] = "queued" ~> (job[j] # "queued" \/ Leaked)

--------------------------------------------------------------------------------
\* What the documentation promises without condition.

\* forgejo repositories "behave like app repos from there on": their runners are
\* counted like any other's.
ForgejoCap == \A b \in Buckets : b \notin blind => ~OverCap(b)
=============================================================================
