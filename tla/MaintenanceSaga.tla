---------------------------- MODULE MaintenanceSaga ----------------------------
(***************************************************************************)
(* The RegistryGC and AptlyCleanup workflows: scale a Nomad job to 0, run  *)
(* a one-shot container against its data directory, scale it back to 1 in  *)
(* a deferred compensation.  One job, several executions of the workflow   *)
(* on it, the Temporal server that attempts and retries their activities,  *)
(* the worker that executes them, and Nomad's scheduler.                   *)
(*                                                                         *)
(* Each step of a workflow awaits one activity.  call[s] says how far the  *)
(* current attempt got ("sent", and "applied" once Nomad has acted on it), *)
(* or that the activity's time ran out before a worker took it; task[s]    *)
(* and box[s] follow the container run on the worker's side, which may go  *)
(* on when the workflow no longer waits for it.                            *)
(***************************************************************************)
EXTENDS Naturals

CONSTANTS
  RegistryRuns,     \* executions of RegistryGC
  AptlyRuns,        \* executions of AptlyCleanup with no image override
  MaximumAttempts,  \* StandardRetry's MaximumAttempts: 3 in the code
  Faults            \* the kinds of fault that may occur, each at most once

FaultKinds == {
  "cancel",     \* the workflow is cancelled
  "terminate",  \* the execution is terminated or times out: no code of it runs
  "crash",      \* the worker running the container activity dies
  "stall",      \* that activity stops heartbeating in time, and yet goes on
  "churn",      \* the job's allocation dies and Nomad replaces it
  "late"}       \* Nomad applies a scale request after its attempt timed out

\* The runs share one job, so they are runs of one workflow.
ASSUME OneJob == RegistryRuns = {} \/ AptlyRuns = {}
ASSUME SomeRun == RegistryRuns \cup AptlyRuns # {}
ASSUME AttemptsAssumption == MaximumAttempts \in Nat \ {0}
ASSUME FaultsAssumption == Faults \subseteq FaultKinds

Saga == RegistryRuns \cup AptlyRuns

VARIABLES
  pc,         \* the activity each workflow awaits
  attempt,    \* attempts of it started
  call,       \* "idle" between attempts, "sent", "applied" once Nomad acted;
              \*   "expired": no worker took it within its ScheduleToClose timeout
  cancelled,  \* the workflow's context is cancelled
  errs,       \* the steps whose errors the execution reports
  task,       \* the worker's RunContainer call: "none", "prep", "wait"
  box,        \* its container is running
  started,    \* containers started so far
  count,      \* the task group's count in Nomad
  alloc,      \* its allocation: "none", "pending", "running"
  stray,      \* scale requests nobody waits for any more
  hit,        \* the faults that have occurred
  overlooked  \* history: the runs whose drain passed over a pending allocation

run == <<pc, attempt, call, errs, overlooked>>
container == <<task, box, started>>
nomad == <<count, alloc>>
vars == <<pc, attempt, call, cancelled, errs, task, box, started, count, alloc, stray, hit,
          overlooked>>

--------------------------------------------------------------------------------
\* The workflows, as the order of their activities.

Compensation == {"ScaleUp", "WaitJobRunning"}
Body == {"FindJobNode", "ResolveJobImage", "MeasureBefore", "ScaleDown",
         "WaitJobDrained", "RunContainer", "MeasureAfter"}
Steps == Body \cup Compensation

\* Slip: a scale-back that only follows an error.
RegistryGCGatedOnError(step) ==
  CASE step = "FindJobNode"    -> "MeasureBefore"
    [] step = "MeasureBefore"  -> "ScaleDown"
    [] step = "ScaleDown"      -> "WaitJobDrained"
    [] step = "WaitJobDrained" -> "RunContainer"
    [] step = "RunContainer"   -> "MeasureAfter"
    [] step = "ScaleUp"        -> "WaitJobRunning"
    [] OTHER                   -> "closed"

\* RegistryGC's body and, once it returns, the deferred compensation.
RegistryGC(step) ==
  CASE step = "FindJobNode"    -> "MeasureBefore"
    [] step = "MeasureBefore"  -> "ScaleDown"
    [] step = "ScaleDown"      -> "WaitJobDrained"
    [] step = "WaitJobDrained" -> "RunContainer"
    [] step = "RunContainer"   -> "MeasureAfter"
    [] step = "MeasureAfter"   -> "ScaleUp"
    [] step = "ScaleUp"        -> "WaitJobRunning"
    [] OTHER                   -> "closed"

\* AptlyCleanup also resolves the deployed image first.
AptlyCleanup(step) ==
  CASE step = "FindJobNode"     -> "ResolveJobImage"
    [] step = "ResolveJobImage" -> "MeasureBefore"
    [] OTHER                    -> RegistryGC(step)

AfterStep(s) == IF s \in AptlyRuns THEN AptlyCleanup(pc[s]) ELSE RegistryGC(pc[s])

\* Measurements are best effort: their errors are logged and swallowed.
MeasureBestEffort == {"MeasureBefore", "MeasureAfter"}

\* The compensation is registered once ScaleDown has succeeded: before that an
\* error just returns, after it the deferred scale-back runs first.
AfterError(s) ==
  CASE pc[s] \in MeasureBestEffort                  -> AfterStep(s)
    [] pc[s] \in {"WaitJobDrained", "RunContainer"} -> "ScaleUp"
    [] OTHER                                        -> "closed"

\* Slip: the compensation's error logged, and not joined to the result.
ReportedUnjoined(step) == {step} \ (MeasureBestEffort \cup Compensation)

\* The errors a failed step adds to what the execution returns; those of the
\* compensation are joined to it.
Reported(step) == {step} \ MeasureBestEffort

\* Slips: the container activity retried like the others; one attempt too many.
AttemptsAllRetried(step) == MaximumAttempts
AttemptsOffByOne(step) == IF step = "RunContainer" THEN 1 ELSE MaximumAttempts + 1

\* The container activity has NoRetry, every other one StandardRetry.
Attempts(step) == IF step = "RunContainer" THEN 1 ELSE MaximumAttempts

Scaling == {"ScaleDown", "ScaleUp"}
Polling == {"WaitJobDrained", "WaitJobRunning"}
Target(step) == IF step = "ScaleUp" THEN 1 ELSE 0

--------------------------------------------------------------------------------
\* Initially the job is up, and no run has started.

Init ==
  /\ pc = [s \in Saga |-> "FindJobNode"]
  /\ attempt = [s \in Saga |-> 0]
  /\ call = [s \in Saga |-> "idle"]
  /\ cancelled = [s \in Saga |-> FALSE]
  /\ errs = [s \in Saga |-> {}]
  /\ task = [s \in Saga |-> "none"]
  /\ box = [s \in Saga |-> FALSE]
  /\ started = [s \in Saga |-> 0]
  /\ count = 1
  /\ alloc \in {"pending", "running"}
  /\ stray = {}
  /\ hit = {}
  /\ overlooked = {}

--------------------------------------------------------------------------------
\* The workflow's side of an activity: schedule, retry, succeed, fail.

Enter(s, step) ==
  /\ pc' = [pc EXCEPT ![s] = step]
  /\ attempt' = [attempt EXCEPT ![s] = 0]
  /\ call' = [call EXCEPT ![s] = "idle"]

Succeed(s) ==
  /\ Enter(s, AfterStep(s))
  /\ overlooked' = IF pc[s] = "WaitJobDrained" /\ alloc = "pending"
                   THEN overlooked \cup {s} ELSE overlooked
  /\ UNCHANGED errs

Fail(s) ==
  /\ Enter(s, AfterError(s))
  /\ errs' = [errs EXCEPT ![s] = @ \cup Reported(pc[s])]
  /\ UNCHANGED overlooked

\* Slip: the compensation run on the workflow's own context.
ContextCancelledEverywhere(s) == cancelled[s] /\ pc[s] # "closed"

\* The body runs on the workflow's own context; the compensation runs on a
\* disconnected one, which a cancellation does not reach.
ContextCancelled(s) == cancelled[s] /\ pc[s] \in Body

\* An attempt of the awaited activity starts on a worker.
StartAttempt(s) ==
  /\ pc[s] # "closed"
  /\ call[s] = "idle"
  /\ ~ContextCancelled(s)
  /\ call' = [call EXCEPT ![s] = "sent"]
  /\ attempt' = [attempt EXCEPT ![s] = @ + 1]
  /\ task' = [task EXCEPT ![s] = IF pc[s] = "RunContainer" THEN "prep" ELSE @]
  /\ UNCHANGED <<pc, cancelled, errs, box, started, nomad, stray, hit, overlooked>>

\* A worker has the current attempt.
UnderWay(s) == call[s] \in {"sent", "applied"}

\* A failed attempt is retried while the policy has one left, or is the last: by
\* the policy, because its error is not retryable, or because the activity's
\* ScheduleToClose timeout, which runs from its first queueing, is used up.
RetryOrFail(s) ==
  \/ /\ attempt[s] < Attempts(pc[s])
     /\ call' = [call EXCEPT ![s] = "idle"]
     /\ UNCHANGED <<pc, attempt, errs, overlooked>>
  \/ Fail(s)

\* An attempt ends in an error or its timeout.  When call[s] is "applied" the
\* work was done and only its answer was lost.
AttemptFails(s) ==
  /\ UnderWay(s)
  /\ pc[s] # "RunContainer"
  /\ RetryOrFail(s)
  /\ UNCHANGED <<cancelled, container, nomad, stray, hit>>

\* No worker takes the queued activity within its ScheduleToClose timeout: not
\* even once, if every worker is away when the activity is scheduled.
QueueTimeout(s) ==
  /\ pc[s] # "closed"
  /\ call[s] = "idle"
  /\ call' = [call EXCEPT ![s] = "expired"]
  /\ UNCHANGED <<pc, attempt, cancelled, errs, container, nomad, stray, hit, overlooked>>

ObserveTimeout(s) ==
  /\ call[s] = "expired"
  /\ Fail(s)
  /\ UNCHANGED <<cancelled, container, nomad, stray, hit>>

\* A scale request outlives its attempt: Nomad may still apply it later.
AttemptOutlived(s) ==
  /\ "late" \in Faults \ hit
  /\ pc[s] \in Scaling
  /\ call[s] = "sent"
  /\ stray' = stray \cup {<<s, Target(pc[s])>>}
  /\ hit' = hit \cup {"late"}
  /\ RetryOrFail(s)
  /\ UNCHANGED <<cancelled, container, nomad>>

\* The awaited activity of a cancelled workflow resolves to a CanceledError at
\* once.  Nobody tells the activity, which does not heartbeat: a scale request
\* on its way still reaches Nomad.
ObserveCancel(s) ==
  /\ ContextCancelled(s)
  /\ Fail(s)
  /\ stray' = IF pc[s] \in Scaling /\ call[s] = "sent"
              THEN stray \cup {<<s, Target(pc[s])>>} ELSE stray
  /\ UNCHANGED <<cancelled, container, nomad, hit>>

--------------------------------------------------------------------------------
\* The saga activities.

Returns(s, step) ==
  /\ pc[s] = step
  /\ UnderWay(s)
  /\ Succeed(s)
  /\ UNCHANGED <<cancelled, container, nomad, stray, hit>>

FindJobNode(s) == alloc = "running" /\ Returns(s, "FindJobNode")

ResolveJobImage(s) == Returns(s, "ResolveJobImage")

MeasureDataDir(s) == \E step \in MeasureBestEffort : Returns(s, step)

\* Nomad applies the scale request of the current attempt.
ScaleJob(s) ==
  /\ pc[s] \in Scaling
  /\ call[s] = "sent"
  /\ call' = [call EXCEPT ![s] = "applied"]
  /\ count' = Target(pc[s])
  /\ UNCHANGED <<pc, attempt, cancelled, errs, container, alloc, stray, hit, overlooked>>

ScaleJobReturns(s) == call[s] = "applied" /\ \E step \in Scaling : Returns(s, step)

\* Slip: a drain that does not look at the allocations.
WaitJobDrainedBlindly(s) == Returns(s, "WaitJobDrained")

\* Only running allocations count: a pending one does not hold the drain up.
WaitJobDrained(s) == alloc # "running" /\ Returns(s, "WaitJobDrained")

WaitJobRunning(s) == alloc = "running" /\ Returns(s, "WaitJobRunning")

--------------------------------------------------------------------------------
\* RunRegistryGarbageCollect and RunAptlyDBCleanup: one container, started over
\* SSH, waited for, and removed when the call returns.

Awaited(s) == pc[s] = "RunContainer" /\ call[s] = "sent"

\* The workflow, if it still waits, takes the activity's outcome; the activity
\* that nobody waits for any more just ends.
Resolve(s, outcome) ==
  IF Awaited(s) THEN outcome ELSE UNCHANGED run

StartContainer(s) ==
  /\ task[s] = "prep"
  /\ task' = [task EXCEPT ![s] = "wait"]
  /\ box' = [box EXCEPT ![s] = TRUE]
  /\ started' = [started EXCEPT ![s] = @ + 1]
  /\ UNCHANGED <<run, cancelled, nomad, stray, hit>>

\* Dialling the node, or creating or starting the container, fails.  The daemon
\* may have started it all the same, its answer lost; then the deferred removal,
\* which goes over the same connection and whose error is discarded, removes the
\* container or leaves it running.
StartContainerFails(s) ==
  /\ task[s] = "prep"
  /\ task' = [task EXCEPT ![s] = "none"]
  /\ \/ UNCHANGED <<box, started>>
     \/ /\ started' = [started EXCEPT ![s] = @ + 1]
        /\ box' \in {box, [box EXCEPT ![s] = TRUE]}
  /\ Resolve(s, RetryOrFail(s))
  /\ UNCHANGED <<cancelled, nomad, stray, hit>>

\* The container's process exits by itself, whoever still watches it.
ContainerExits(s) ==
  /\ box[s]
  /\ box' = [box EXCEPT ![s] = FALSE]
  /\ UNCHANGED <<run, cancelled, task, started, nomad, stray, hit>>

\* The wait tells that the container has exited: success, or an error (a status
\* other than 0, unreadable logs).
RunContainerReturns(s) ==
  /\ task[s] = "wait"
  /\ ~box[s]
  /\ task' = [task EXCEPT ![s] = "none"]
  /\ Resolve(s, Succeed(s) \/ RetryOrFail(s))
  /\ UNCHANGED <<cancelled, box, started, nomad, stray, hit>>

\* The call ends in an error without the container's exit: its StartToClose
\* deadline passes, a heartbeat learns that the workflow has stopped waiting, or
\* the connection to the node or its daemon drops.  The removal may fail as well,
\* its error discarded: then the container runs on.
RunContainerAborted(s) ==
  /\ task[s] = "wait"
  /\ task' = [task EXCEPT ![s] = "none"]
  /\ box' \in {box, [box EXCEPT ![s] = FALSE]}
  /\ Resolve(s, RetryOrFail(s))
  /\ UNCHANGED <<cancelled, started, nomad, stray, hit>>

\* The server hears no heartbeat for two minutes: the worker is gone, or stalls.
HeartbeatTimeout(s) ==
  /\ Awaited(s)
  /\ \/ task[s] = "none" /\ UNCHANGED hit
     \/ /\ task[s] # "none"
        /\ "stall" \in Faults \ hit
        /\ hit' = hit \cup {"stall"}
  /\ RetryOrFail(s)
  /\ UNCHANGED <<cancelled, container, nomad, stray>>

--------------------------------------------------------------------------------
\* Faults, and Nomad's scheduler.

Cancel(s) ==
  /\ "cancel" \in Faults \ hit
  /\ pc[s] # "closed"
  /\ cancelled' = [cancelled EXCEPT ![s] = TRUE]
  /\ hit' = hit \cup {"cancel"}
  /\ UNCHANGED <<run, container, nomad, stray>>

\* The server closes the execution; its deferred functions never run.
Terminate(s) ==
  /\ "terminate" \in Faults \ hit
  /\ pc[s] # "closed"
  /\ Enter(s, "closed")
  /\ errs' = [errs EXCEPT ![s] = @ \cup {"terminated"}]
  /\ stray' = IF pc[s] \in Scaling /\ call[s] = "sent"
              THEN stray \cup {<<s, Target(pc[s])>>} ELSE stray
  /\ hit' = hit \cup {"terminate"}
  /\ UNCHANGED <<cancelled, container, nomad, overlooked>>

\* The deferred removal dies with the worker: the container stays.
WorkerCrash(s) ==
  /\ "crash" \in Faults \ hit
  /\ task[s] # "none"
  /\ task' = [task EXCEPT ![s] = "none"]
  /\ hit' = hit \cup {"crash"}
  /\ UNCHANGED <<run, cancelled, box, started, nomad, stray>>

StrayLands ==
  /\ \E m \in stray : count' = m[2] /\ stray' = stray \ {m}
  /\ UNCHANGED <<run, cancelled, container, alloc, hit>>

AllocPlaced == count = 1 /\ alloc = "none" /\ alloc' = "pending" /\ UNCHANGED hit

\* A client may start an allocation before it learns that it must stop.
AllocStarts == alloc = "pending" /\ alloc' = "running" /\ UNCHANGED hit

AllocStops == count = 0 /\ alloc # "none" /\ alloc' = "none" /\ UNCHANGED hit

AllocDies ==
  /\ "churn" \in Faults \ hit
  /\ alloc = "running"
  /\ alloc' = "none"
  /\ hit' = hit \cup {"churn"}

Nomad ==
  /\ AllocPlaced \/ AllocStarts \/ AllocStops \/ AllocDies
  /\ UNCHANGED <<run, cancelled, container, count, stray>>

--------------------------------------------------------------------------------
\* The system.

Workflow(s) ==
  \/ StartAttempt(s) \/ AttemptFails(s) \/ AttemptOutlived(s)
  \/ QueueTimeout(s) \/ ObserveTimeout(s) \/ ObserveCancel(s)
  \/ FindJobNode(s) \/ ResolveJobImage(s) \/ MeasureDataDir(s)
  \/ ScaleJob(s) \/ ScaleJobReturns(s) \/ WaitJobDrained(s) \/ WaitJobRunning(s)

Container(s) ==
  \/ StartContainer(s) \/ StartContainerFails(s) \/ RunContainerReturns(s)
  \/ RunContainerAborted(s) \/ HeartbeatTimeout(s)

Next ==
  \/ \E s \in Saga :
       Workflow(s) \/ Container(s) \/ ContainerExits(s)
         \/ Cancel(s) \/ Terminate(s) \/ WorkerCrash(s)
  \/ StrayLands
  \/ Nomad

Safe == Init /\ [][Next]_vars

\* Every activity ends: Temporal's timeouts see to it.  Nomad's scheduler acts on
\* the count.  Nothing makes a fault happen, nor a stray request land.
Fairness ==
  /\ \A s \in Saga : WF_vars(Workflow(s)) /\ WF_vars(Container(s))
  /\ WF_vars(Nomad)

Spec == Safe /\ Fairness

--------------------------------------------------------------------------------
\* Properties.

TypeOK ==
  /\ pc \in [Saga -> Steps \cup {"closed"}]
  /\ attempt \in [Saga -> 0..MaximumAttempts]
  /\ call \in [Saga -> {"idle", "sent", "applied", "expired"}]
  /\ cancelled \in [Saga -> BOOLEAN]
  /\ errs \in [Saga -> SUBSET (Steps \cup {"terminated"})]
  /\ task \in [Saga -> {"none", "prep", "wait"}]
  /\ box \in [Saga -> BOOLEAN]
  /\ started \in [Saga -> Nat]
  /\ count \in {0, 1}
  /\ alloc \in {"none", "pending", "running"}
  /\ stray \subseteq (Saga \X {0, 1})
  /\ hit \subseteq FaultKinds
  /\ overlooked \subseteq Saga

AllClosed == \A s \in Saga : pc[s] = "closed"
Clean == \A s \in Saga : errs[s] = {}

\* Whatever fails, however the runs overlap and are cancelled, the job is never
\* left at count 0 by runs that all report success: the deferred scale-back, or
\* the joined errors when it fails, account for every scale-down that Nomad
\* applied.  (Not when a request outlives its attempt.)
NeverSilentlyStranded ==
  (AllClosed /\ count = 0 /\ "late" \notin hit) => ~Clean

\* A single run's container never works on the data directory beside the job's
\* own process without somebody being told: the run was terminated, or it reports
\* the container activity's error (cancelled, timed out, connection or worker
\* lost), or its allocation had died under it and the drain did not count the
\* replacement that was still pending.  Scale-down, drain, container and
\* scale-back are otherwise really in sequence, through every retry and every
\* lost answer.
WorkOffline ==
  (\A s, t \in Saga : s = t) =>
    \A s \in Saga :
      box[s] /\ alloc = "running" =>
        \/ errs[s] \cap {"RunContainer", "terminated"} # {}
        \/ s \in overlooked /\ "churn" \in hit

\* "Don't restart a partially finished GC": at most one container per execution,
\* even when the worker dies and the first one is orphaned.
AtMostOneContainer == \A s \in Saga : started[s] <= 1

\* Once the scale-down is known to have succeeded, a run that is not terminated
\* closes only from its compensation, cancelled or not, and from a step of it that
\* was attempted or that no worker took in time.
CompensationIsSent ==
  [][\A s \in Saga :
       (/\ pc[s] \in Steps \ {"FindJobNode", "ResolveJobImage", "MeasureBefore", "ScaleDown"}
        /\ pc'[s] = "closed"
        /\ "terminated" \notin errs'[s])
       => /\ pc[s] \in Compensation
          /\ attempt[s] > 0 \/ call[s] = "expired"]_vars

\* When all is over the job runs again, or some execution reports an error.
BackInService == <>[](alloc = "running" \/ ~Clean \/ "late" \in hit)

\* What the closed runs have reported together.
Outcome ==
  CASE "late" \in hit                            -> "void"
    [] "late" \notin hit /\ ~AllClosed           -> "open"
    [] "late" \notin hit /\ AllClosed /\ Clean   -> "ok"
    [] "late" \notin hit /\ AllClosed /\ ~Clean  -> "error"

Contract == INSTANCE OutageContract WITH
  job <- IF count = 1 THEN "up" ELSE "down",
  outcome <- Outcome

\* The runs together implement the contract: a clean report is made over a job
\* that is up and that no request of theirs can still take down, and the runs
\* all close.
KeepsContract == Contract!Spec

--------------------------------------------------------------------------------
\* What the documentation promises without condition.

\* "so the job being maintained is never left stranded offline", unless "the
\* scale-back itself fails": closed runs leave the job at 0 only if a scale-up
\* was tried and failed.
StrandedOnlyByScaleBack ==
  (AllClosed /\ count = 0) => \E s \in Saga : "ScaleUp" \in errs[s]
=============================================================================
