------------------------- MODULE MaintenanceSagaProofs -------------------------
(***************************************************************************)
(* What MaintenanceSaga guarantees for every number of runs, every number  *)
(* of attempts and every set of faults.                                    *)
(***************************************************************************)
EXTENDS MaintenanceSaga, TLAPS

\* The part of the state that the activities' outcomes move.
RunTypeOK ==
  /\ pc \in [Saga -> Steps \cup {"closed"}]
  /\ attempt \in [Saga -> 0..MaximumAttempts]
  /\ call \in [Saga -> {"idle", "sent", "applied", "expired"}]
  /\ errs \in [Saga -> SUBSET (Steps \cup {"terminated"})]
  /\ overlooked \subseteq Saga

\* An attempt can start only while one is left.
AttemptLeft ==
  \A s \in Saga : (pc[s] # "closed" /\ call[s] = "idle") => attempt[s] < Attempts(pc[s])

\* Only an open run has an activity outstanding, and attempts are counted.
CallOpen ==
  \A s \in Saga :
    /\ call[s] # "idle" => pc[s] # "closed"
    /\ UnderWay(s) => attempt[s] > 0

RunInv == RunTypeOK /\ AttemptLeft /\ CallOpen

LEMMA StepsAreSteps ==
  ASSUME RunTypeOK, NEW s \in Saga, pc[s] # "closed"
  PROVE  /\ AfterStep(s) \in Steps \cup {"closed"}
         /\ AfterError(s) \in Steps \cup {"closed"}
         /\ Reported(pc[s]) \subseteq Steps
  BY DEF RunTypeOK, AfterStep, AfterError, Reported, RegistryGC, AptlyCleanup,
         Steps, Body, Compensation, MeasureBestEffort

LEMMA AttemptsPositive ==
  ASSUME NEW step PROVE Attempts(step) \in 1..MaximumAttempts
  BY AttemptsAssumption DEF Attempts

LEMMA EnterKeeps ==
  ASSUME RunInv, NEW s \in Saga, NEW step \in Steps \cup {"closed"}, Enter(s, step),
         errs' \in [Saga -> SUBSET (Steps \cup {"terminated"})], overlooked' \subseteq Saga
  PROVE  RunInv'
<1>1. RunTypeOK'
  <2>1. pc' \in [Saga -> Steps \cup {"closed"}]
    BY DEF RunInv, RunTypeOK, Enter
  <2>2. attempt' \in [Saga -> 0..MaximumAttempts]
    BY AttemptsAssumption DEF RunInv, RunTypeOK, Enter
  <2>3. call' \in [Saga -> {"idle", "sent", "applied", "expired"}]
    BY DEF RunInv, RunTypeOK, Enter
  <2>4. QED
    BY <2>1, <2>2, <2>3 DEF RunTypeOK
<1>2. AttemptLeft'
  <2> SUFFICES ASSUME NEW t \in Saga, pc'[t] # "closed", call'[t] = "idle"
               PROVE  attempt'[t] < Attempts(pc'[t])
    BY DEF AttemptLeft
  <2>1. CASE t = s
    BY <2>1, AttemptsPositive DEF RunInv, RunTypeOK, Enter
  <2>2. CASE t # s
    BY <2>2 DEF RunInv, RunTypeOK, AttemptLeft, Enter
  <2>3. QED
    BY <2>1, <2>2
<1>3. CallOpen'
  BY DEF RunInv, RunTypeOK, CallOpen, UnderWay, Enter
<1>4. QED
  BY <1>1, <1>2, <1>3 DEF RunInv

LEMMA SucceedKeeps ==
  ASSUME RunInv, NEW s \in Saga, pc[s] # "closed", Succeed(s)
  PROVE  RunInv'
  BY StepsAreSteps, EnterKeeps DEF Succeed, RunInv, RunTypeOK

LEMMA FailKeeps ==
  ASSUME RunInv, NEW s \in Saga, pc[s] # "closed", Fail(s)
  PROVE  RunInv'
<1>1. errs' \in [Saga -> SUBSET (Steps \cup {"terminated"})] /\ overlooked' \subseteq Saga
  BY StepsAreSteps DEF Fail, RunInv, RunTypeOK
<1>2. QED
  BY <1>1, StepsAreSteps, EnterKeeps DEF Fail, RunInv

LEMMA RetryOrFailKeeps ==
  ASSUME RunInv, NEW s \in Saga, pc[s] # "closed", RetryOrFail(s)
  PROVE  RunInv'
<1>1. CASE Fail(s)
  BY <1>1, FailKeeps
<1>2. CASE /\ attempt[s] < Attempts(pc[s])
           /\ call' = [call EXCEPT ![s] = "idle"]
           /\ UNCHANGED <<pc, attempt, errs, overlooked>>
  BY <1>2 DEF RunInv, RunTypeOK, AttemptLeft, CallOpen, UnderWay, Attempts
<1>3. QED
  BY <1>1, <1>2 DEF RetryOrFail

LEMMA RunUnchangedKeeps ==
  ASSUME RunInv, UNCHANGED run PROVE RunInv'
  BY DEF RunInv, RunTypeOK, AttemptLeft, CallOpen, UnderWay, run, Attempts

\* The rest of the state.
EnvTypeOK ==
  /\ cancelled \in [Saga -> BOOLEAN]
  /\ task \in [Saga -> {"none", "prep", "wait"}]
  /\ box \in [Saga -> BOOLEAN]
  /\ started \in [Saga -> Nat]
  /\ count \in {0, 1}
  /\ alloc \in {"none", "pending", "running"}
  /\ stray \subseteq (Saga \X {0, 1})
  /\ hit \subseteq FaultKinds

LEMMA TypeSplit == TypeOK <=> RunTypeOK /\ EnvTypeOK
  BY DEF TypeOK, RunTypeOK, EnvTypeOK

LEMMA TargetType == ASSUME NEW step PROVE Target(step) \in {0, 1}
  BY DEF Target

LEMMA ReturnsKeeps ==
  ASSUME RunInv, NEW s \in Saga, NEW step, Returns(s, step)
  PROVE  RunInv'
  BY SucceedKeeps DEF Returns, RunInv, CallOpen, UnderWay

LEMMA ResolveKeeps ==
  ASSUME RunInv, NEW s \in Saga, Resolve(s, Succeed(s) \/ RetryOrFail(s))
  PROVE  RunInv'
<1>1. CASE ~Awaited(s)
  BY <1>1, RunUnchangedKeeps DEF Resolve
<1>2. CASE Awaited(s)
  BY <1>2, SucceedKeeps, RetryOrFailKeeps DEF Resolve, Awaited
<1>3. QED
  BY <1>1, <1>2

LEMMA ResolveRetryKeeps ==
  ASSUME RunInv, NEW s \in Saga, Resolve(s, RetryOrFail(s))
  PROVE  RunInv'
  BY ResolveKeeps DEF Resolve

\* One step per action: the attempts of a run stay well formed.
LEMMA WorkflowKeepsRun ==
  ASSUME RunInv, NEW s \in Saga, Workflow(s)
  PROVE  RunInv'
<1>1. CASE StartAttempt(s)
  <2>1. RunTypeOK'
    BY <1>1, AttemptsPositive, AttemptsAssumption
    DEF StartAttempt, RunInv, RunTypeOK, AttemptLeft
  <2>2. AttemptLeft'
    BY <1>1 DEF StartAttempt, RunInv, RunTypeOK, AttemptLeft, Attempts
  <2>3. CallOpen'
    BY <1>1, AttemptsAssumption DEF StartAttempt, RunInv, RunTypeOK, CallOpen, UnderWay
  <2>4. QED
    BY <2>1, <2>2, <2>3 DEF RunInv
<1>2. CASE AttemptFails(s)
  BY <1>2, RetryOrFailKeeps DEF AttemptFails, RunInv, CallOpen, UnderWay
<1>3. CASE AttemptOutlived(s)
  BY <1>3, RetryOrFailKeeps DEF AttemptOutlived, RunInv, CallOpen, UnderWay
<1>4. CASE ObserveCancel(s)
  BY <1>4, FailKeeps DEF ObserveCancel, ContextCancelled, Body
<1>5. CASE ScaleJob(s)
  BY <1>5
  DEF ScaleJob, RunInv, RunTypeOK, AttemptLeft, CallOpen, UnderWay, Scaling, Attempts
<1>6. CASE \E step : Returns(s, step)
  BY <1>6, ReturnsKeeps
<1>7. CASE QueueTimeout(s)
  BY <1>7
  DEF QueueTimeout, RunInv, RunTypeOK, AttemptLeft, CallOpen, UnderWay, Attempts
<1>8. CASE ObserveTimeout(s)
  BY <1>8, FailKeeps DEF ObserveTimeout, RunInv, CallOpen
<1>9. QED
  BY <1>1, <1>2, <1>3, <1>4, <1>5, <1>6, <1>7, <1>8
  DEF Workflow, FindJobNode, ResolveJobImage, MeasureDataDir, ScaleJobReturns,
      WaitJobDrained, WaitJobRunning

LEMMA ContainerKeepsRun ==
  ASSUME RunInv, NEW s \in Saga, Container(s)
  PROVE  RunInv'
<1>1. CASE StartContainer(s)
  BY <1>1, RunUnchangedKeeps DEF StartContainer
<1>2. CASE StartContainerFails(s)
  BY <1>2, ResolveRetryKeeps DEF StartContainerFails
<1>3. CASE RunContainerReturns(s)
  BY <1>3, ResolveKeeps DEF RunContainerReturns
<1>4. CASE RunContainerAborted(s)
  BY <1>4, ResolveRetryKeeps DEF RunContainerAborted
<1>5. CASE HeartbeatTimeout(s)
  BY <1>5, RetryOrFailKeeps DEF HeartbeatTimeout, Awaited
<1>6. QED
  BY <1>1, <1>2, <1>3, <1>4, <1>5 DEF Container

LEMMA NextKeepsRun ==
  ASSUME RunInv, [Next]_vars
  PROVE  RunInv'
<1>1. ASSUME NEW s \in Saga, Workflow(s) PROVE RunInv'
  BY <1>1, WorkflowKeepsRun
<1>2. ASSUME NEW s \in Saga, Container(s) PROVE RunInv'
  BY <1>2, ContainerKeepsRun
<1>3. ASSUME NEW s \in Saga, Terminate(s) PROVE RunInv'
  <2>1. errs' \in [Saga -> SUBSET (Steps \cup {"terminated"})] /\ overlooked' \subseteq Saga
    BY <1>3 DEF Terminate, RunInv, RunTypeOK
  <2>2. QED
    BY <1>3, <2>1, EnterKeeps DEF Terminate
<1>4. ASSUME NEW s \in Saga, ContainerExits(s) \/ Cancel(s) \/ WorkerCrash(s) PROVE RunInv'
  BY <1>4, RunUnchangedKeeps DEF ContainerExits, Cancel, WorkerCrash
<1>5. CASE StrayLands \/ Nomad
  BY <1>5, RunUnchangedKeeps DEF StrayLands, Nomad
<1>6. CASE UNCHANGED vars
  BY <1>6, RunUnchangedKeeps DEF vars, run
<1>7. QED
  BY <1>1, <1>2, <1>3, <1>4, <1>5, <1>6 DEF Next

\* The stray requests, the worker's side and Nomad's side.
LEMMA NextKeepsEnv ==
  ASSUME RunInv, EnvTypeOK, [Next]_vars
  PROVE  EnvTypeOK'
<1> USE DEF EnvTypeOK, container, nomad
<1>1. ASSUME NEW s \in Saga, Workflow(s) PROVE EnvTypeOK'
  <2>1. CASE StartAttempt(s)
    BY <2>1 DEF StartAttempt
  <2>2. CASE AttemptFails(s)
    BY <2>2 DEF AttemptFails
  <2>3. CASE AttemptOutlived(s)
    BY <2>3, TargetType, FaultsAssumption DEF AttemptOutlived
  <2>4. CASE ObserveCancel(s)
    BY <2>4, TargetType DEF ObserveCancel
  <2>5. CASE ScaleJob(s)
    BY <2>5, TargetType DEF ScaleJob
  <2>6. CASE \E step : Returns(s, step)
    BY <2>6 DEF Returns
  <2>7. CASE QueueTimeout(s) \/ ObserveTimeout(s)
    BY <2>7 DEF QueueTimeout, ObserveTimeout
  <2>8. QED
    BY <1>1, <2>1, <2>2, <2>3, <2>4, <2>5, <2>6, <2>7
    DEF Workflow, FindJobNode, ResolveJobImage, MeasureDataDir, ScaleJobReturns,
        WaitJobDrained, WaitJobRunning
<1>2. ASSUME NEW s \in Saga, Container(s) PROVE EnvTypeOK'
  <2>1. CASE StartContainer(s)
    BY <2>1 DEF StartContainer
  <2>2. CASE StartContainerFails(s)
    <3>1. started' \in [Saga -> Nat]
      <4>1. CASE UNCHANGED started
        BY <4>1
      <4>2. CASE started' = [started EXCEPT ![s] = @ + 1]
        BY <4>2
      <4>3. QED
        BY <2>2, <4>1, <4>2 DEF StartContainerFails
    <3>2. box' \in [Saga -> BOOLEAN]
      BY <2>2 DEF StartContainerFails
    <3>3. QED
      BY <2>2, <3>1, <3>2 DEF StartContainerFails
  <2>3. CASE RunContainerReturns(s)
    BY <2>3 DEF RunContainerReturns
  <2>4. CASE RunContainerAborted(s)
    BY <2>4 DEF RunContainerAborted
  <2>5. CASE HeartbeatTimeout(s)
    BY <2>5, FaultsAssumption DEF HeartbeatTimeout
  <2>6. QED
    BY <1>2, <2>1, <2>2, <2>3, <2>4, <2>5 DEF Container
<1>3. ASSUME NEW s \in Saga, Terminate(s) PROVE EnvTypeOK'
  BY <1>3, TargetType, FaultsAssumption DEF Terminate
<1>4. ASSUME NEW s \in Saga, ContainerExits(s) \/ Cancel(s) \/ WorkerCrash(s)
      PROVE  EnvTypeOK'
  BY <1>4, FaultsAssumption DEF ContainerExits, Cancel, WorkerCrash
<1>5. CASE StrayLands
  BY <1>5 DEF StrayLands
<1>6. CASE Nomad
  BY <1>6, FaultsAssumption DEF Nomad, AllocPlaced, AllocStarts, AllocStops, AllocDies
<1>7. CASE UNCHANGED vars
  BY <1>7 DEF vars
<1>8. QED
  BY <1>1, <1>2, <1>3, <1>4, <1>5, <1>6, <1>7 DEF Next

LEMMA InitRun == Init => RunInv /\ EnvTypeOK
  BY AttemptsAssumption
  DEF Init, RunInv, RunTypeOK, AttemptLeft, CallOpen, UnderWay, EnvTypeOK, Attempts, Steps, Body

LEMMA RunInvariant == Safe => [](RunInv /\ EnvTypeOK)
<1>1. RunInv /\ EnvTypeOK /\ [Next]_vars => (RunInv /\ EnvTypeOK)'
  BY NextKeepsRun, NextKeepsEnv
<1>2. QED
  BY InitRun, <1>1, PTL DEF Safe

\* The variables keep their types: in particular no activity is ever attempted
\* more often than its retry policy allows.
THEOREM TypeCorrect == Spec => []TypeOK
  BY RunInvariant, TypeSplit, PTL DEF Spec, RunInv

--------------------------------------------------------------------------------
\* The stranded job.

\* Run s answers for the job being down: it has an error to report, or its
\* scale-down may have been applied, or it still owes the scale-up.
Answers(s) ==
  \/ errs[s] # {}
  \/ pc[s] = "ScaleDown" /\ attempt[s] > 0
  \/ pc[s] \in {"WaitJobDrained", "RunContainer", "MeasureAfter"}
  \/ pc[s] = "ScaleUp" /\ call[s] # "applied"

Accounted == (count = 0 /\ "late" \notin hit) => \E s \in Saga : Answers(s)

\* A request nobody waits for belongs to a run that reports an error.
StrayOwned == "late" \notin hit => \A m \in stray : errs[m[1]] # {}

LEMMA FailAnswers ==
  ASSUME RunInv, NEW s \in Saga, pc[s] # "closed", Fail(s)
  PROVE  /\ Answers(s) => Answers(s)'
         /\ pc[s] \notin MeasureBestEffort => errs'[s] # {}
         /\ \A t \in Saga \ {s} : Answers(t) => Answers(t)'
         /\ \A t \in Saga : errs[t] # {} => errs'[t] # {}
<1>1. errs[s] # {} => errs'[s] # {}
  BY DEF RunInv, RunTypeOK, Fail
<1>2. pc[s] \notin MeasureBestEffort => errs'[s] # {}
  BY DEF RunInv, RunTypeOK, Fail, Reported
<1>3. \A t \in Saga \ {s} : pc'[t] = pc[t] /\ attempt'[t] = attempt[t]
                              /\ call'[t] = call[t] /\ errs'[t] = errs[t]
  BY DEF RunInv, RunTypeOK, Fail, Enter
<1>4. CASE pc[s] = "MeasureAfter"
  <2>1. AfterError(s) = "ScaleUp"
    BY <1>4 DEF AfterError, AfterStep, MeasureBestEffort, RegistryGC, AptlyCleanup
  <2>2. pc'[s] = "ScaleUp" /\ call'[s] = "idle"
    BY <2>1 DEF Fail, Enter, RunInv, RunTypeOK
  <2>3. QED
    BY <1>1, <1>2, <1>3, <2>2 DEF Answers
<1>5. CASE pc[s] # "MeasureAfter"
  BY <1>1, <1>2, <1>3, <1>5 DEF Answers, MeasureBestEffort
<1>6. QED
  BY <1>4, <1>5

LEMMA SucceedAnswers ==
  ASSUME RunInv, NEW s \in Saga, pc[s] # "closed", Succeed(s),
         pc[s] = "ScaleUp" => call[s] = "applied"
  PROVE  /\ \A t \in Saga : Answers(t) => Answers(t)'
         /\ errs' = errs
<1>1. \A t \in Saga \ {s} : pc'[t] = pc[t] /\ attempt'[t] = attempt[t] /\ call'[t] = call[t]
  BY DEF RunInv, RunTypeOK, Succeed, Enter
<1>2. errs' = errs
  BY DEF Succeed
<1>3. pc'[s] = AfterStep(s) /\ call'[s] = "idle"
  BY DEF Succeed, Enter, RunInv, RunTypeOK
<1>4. Answers(s) => Answers(s)'
  BY <1>2, <1>3 DEF Answers, AfterStep, RegistryGC, AptlyCleanup
<1>5. QED
  BY <1>1, <1>2, <1>4 DEF Answers

LEMMA RetryOrFailAnswers ==
  ASSUME RunInv, NEW s \in Saga, pc[s] # "closed", RetryOrFail(s)
  PROVE  /\ \A t \in Saga : Answers(t) => Answers(t)'
         /\ \A t \in Saga : errs[t] # {} => errs'[t] # {}
<1>1. CASE Fail(s)
  BY <1>1, FailAnswers
<1>2. CASE /\ call' = [call EXCEPT ![s] = "idle"]
           /\ UNCHANGED <<pc, attempt, errs, overlooked>>
  BY <1>2 DEF Answers, RunInv, RunTypeOK
<1>3. QED
  BY <1>1, <1>2 DEF RetryOrFail

LEMMA ResolveAnswers ==
  ASSUME RunInv, NEW s \in Saga, Resolve(s, Succeed(s) \/ RetryOrFail(s))
  PROVE  /\ \A t \in Saga : Answers(t) => Answers(t)'
         /\ \A t \in Saga : errs[t] # {} => errs'[t] # {}
<1>1. CASE Awaited(s)
  BY <1>1, SucceedAnswers, RetryOrFailAnswers DEF Awaited, Resolve
<1>2. CASE ~Awaited(s)
  BY <1>2 DEF Resolve, run, Answers
<1>3. QED
  BY <1>1, <1>2

\* A step that moves neither the count nor the stray requests.
LEMMA QuietKeepsAccount ==
  ASSUME EnvTypeOK, Accounted, StrayOwned,
         UNCHANGED <<count, stray>>, hit \subseteq hit',
         \A t \in Saga : Answers(t) => Answers(t)',
         \A t \in Saga : errs[t] # {} => errs'[t] # {}
  PROVE  Accounted' /\ StrayOwned'
<1>1. \A m \in stray : m[1] \in Saga
  BY DEF EnvTypeOK
<1>2. QED
  BY <1>1 DEF Accounted, StrayOwned

LEMMA RunUnchangedAnswers ==
  ASSUME UNCHANGED run
  PROVE  /\ \A t \in Saga : Answers(t) => Answers(t)'
         /\ \A t \in Saga : errs[t] # {} => errs'[t] # {}
  BY DEF run, Answers

\* A run leaves its activity unawaited, and what that still sends is its own.
LEMMA LeavingKeepsAccount ==
  ASSUME EnvTypeOK, Accounted, StrayOwned, NEW s \in Saga,
         UNCHANGED count, hit \subseteq hit',
         stray' = IF pc[s] \in Scaling /\ call[s] = "sent"
                  THEN stray \cup {<<s, Target(pc[s])>>} ELSE stray,
         \A t \in Saga : Answers(t) => Answers(t)',
         \A t \in Saga : errs[t] # {} => errs'[t] # {},
         pc[s] \in Scaling => errs'[s] # {}
  PROVE  Accounted' /\ StrayOwned'
<1>1. \A m \in stray : m[1] \in Saga
  BY DEF EnvTypeOK
<1>2. Accounted'
  BY DEF Accounted
<1>3. StrayOwned'
  <2> SUFFICES ASSUME "late" \notin hit', NEW m \in stray' PROVE errs'[m[1]] # {}
    BY DEF StrayOwned
  <2>1. CASE m \in stray
    BY <1>1, <2>1 DEF StrayOwned
  <2>2. CASE m \notin stray
    BY <2>2
  <2>3. QED
    BY <2>1, <2>2
<1>4. QED
  BY <1>2, <1>3

LEMMA WorkflowKeepsAccount ==
  ASSUME RunInv, EnvTypeOK, Accounted, StrayOwned, NEW s \in Saga, Workflow(s)
  PROVE  Accounted' /\ StrayOwned'
<1> USE DEF container, nomad
<1>1. CASE StartAttempt(s)
  <2>1. \A t \in Saga : Answers(t) => Answers(t)'
    BY <1>1 DEF StartAttempt, Answers, RunInv, RunTypeOK
  <2>2. QED
    BY <1>1, <2>1, QuietKeepsAccount DEF StartAttempt
<1>2. CASE AttemptFails(s)
  BY <1>2, RetryOrFailAnswers, QuietKeepsAccount DEF AttemptFails, RunInv, CallOpen, UnderWay
<1>3. CASE AttemptOutlived(s)
  BY <1>3 DEF AttemptOutlived, Accounted, StrayOwned
<1>4. CASE ObserveCancel(s)
  <2>1. pc[s] # "closed" /\ Fail(s)
    BY <1>4 DEF ObserveCancel, ContextCancelled, Body
  <2>2. pc[s] \in Scaling => errs'[s] # {}
    BY <2>1, FailAnswers DEF Scaling, MeasureBestEffort
  <2>3. \A t \in Saga : Answers(t) => Answers(t)'
    BY <2>1, FailAnswers
  <2>4. \A t \in Saga : errs[t] # {} => errs'[t] # {}
    BY <2>1, FailAnswers
  <2>5. QED
    BY <1>4, <2>2, <2>3, <2>4, LeavingKeepsAccount DEF ObserveCancel
<1>5. CASE ScaleJob(s)
  <2>1. Accounted'
    <3> SUFFICES ASSUME count' = 0, "late" \notin hit'
                 PROVE  \E t \in Saga : Answers(t)'
      BY DEF Accounted
    <3>1. pc[s] = "ScaleDown" /\ pc'[s] = "ScaleDown" /\ attempt'[s] > 0
      BY <1>5 DEF ScaleJob, Scaling, Target, RunInv, CallOpen, UnderWay
    <3>2. QED
      BY <3>1 DEF Answers
  <2>2. StrayOwned'
    BY <1>5 DEF ScaleJob, StrayOwned
  <2>3. QED
    BY <2>1, <2>2
<1>6. CASE \E step : Returns(s, step) /\ (pc[s] = "ScaleUp" => call[s] = "applied")
  <2>1. pc[s] # "closed" /\ Succeed(s) /\ UNCHANGED <<count, stray, hit>>
    BY <1>6 DEF Returns, RunInv, CallOpen, UnderWay
  <2>2. /\ \A t \in Saga : Answers(t) => Answers(t)'
        /\ errs' = errs
    BY <1>6, <2>1, SucceedAnswers
  <2>3. QED
    BY <2>1, <2>2, QuietKeepsAccount
<1>7. Returns(s, "FindJobNode") \/ Returns(s, "ResolveJobImage")
       \/ Returns(s, "MeasureBefore") \/ Returns(s, "MeasureAfter")
       \/ Returns(s, "WaitJobDrained") \/ Returns(s, "WaitJobRunning")
       => \E step : Returns(s, step) /\ (pc[s] = "ScaleUp" => call[s] = "applied")
  BY DEF Returns
<1>8. ScaleJobReturns(s)
       => \E step : Returns(s, step) /\ (pc[s] = "ScaleUp" => call[s] = "applied")
  BY DEF ScaleJobReturns
<1>9. CASE QueueTimeout(s)
  <2>1. \A t \in Saga : Answers(t) => Answers(t)'
    BY <1>9 DEF QueueTimeout, Answers, RunInv, RunTypeOK
  <2>2. QED
    BY <1>9, <2>1, QuietKeepsAccount DEF QueueTimeout
<1>10. CASE ObserveTimeout(s)
  <2>1. pc[s] # "closed" /\ RetryOrFail(s)
    BY <1>10 DEF ObserveTimeout, RetryOrFail, RunInv, CallOpen
  <2>2. QED
    BY <1>10, <2>1, RetryOrFailAnswers, QuietKeepsAccount DEF ObserveTimeout
<1>11. QED
  BY <1>1, <1>2, <1>3, <1>4, <1>5, <1>6, <1>7, <1>8, <1>9, <1>10
  DEF Workflow, FindJobNode, ResolveJobImage, MeasureDataDir, WaitJobDrained,
      WaitJobRunning, MeasureBestEffort

LEMMA ContainerKeepsAccount ==
  ASSUME RunInv, EnvTypeOK, Accounted, StrayOwned, NEW s \in Saga, Container(s)
  PROVE  Accounted' /\ StrayOwned'
<1> USE DEF container, nomad
<1>1. CASE StartContainer(s)
  BY <1>1, RunUnchangedAnswers, QuietKeepsAccount DEF StartContainer
<1>2. CASE Resolve(s, Succeed(s) \/ RetryOrFail(s)) /\ UNCHANGED <<count, stray, hit>>
  BY <1>2, ResolveAnswers, QuietKeepsAccount
<1>3. CASE HeartbeatTimeout(s)
  BY <1>3, RetryOrFailAnswers, QuietKeepsAccount DEF HeartbeatTimeout, Awaited
<1>4. Resolve(s, RetryOrFail(s)) => Resolve(s, Succeed(s) \/ RetryOrFail(s))
  BY DEF Resolve
<1>5. QED
  BY <1>1, <1>2, <1>3, <1>4
  DEF Container, StartContainerFails, RunContainerReturns, RunContainerAborted

LEMMA NextKeepsAccount ==
  ASSUME RunInv, EnvTypeOK, Accounted, StrayOwned, [Next]_vars
  PROVE  Accounted' /\ StrayOwned'
<1> USE DEF container, nomad
<1>1. ASSUME NEW s \in Saga, Workflow(s) PROVE Accounted' /\ StrayOwned'
  BY <1>1, WorkflowKeepsAccount
<1>2. ASSUME NEW s \in Saga, Container(s) PROVE Accounted' /\ StrayOwned'
  BY <1>2, ContainerKeepsAccount
<1>3. ASSUME NEW s \in Saga, Terminate(s) PROVE Accounted' /\ StrayOwned'
  <2>1. errs'[s] # {} /\ \A t \in Saga : errs[t] # {} => errs'[t] # {}
    BY <1>3 DEF Terminate, RunInv, RunTypeOK
  <2>2. \A t \in Saga : Answers(t) => Answers(t)'
    BY <1>3, <2>1 DEF Terminate, Enter, Answers, RunInv, RunTypeOK
  <2>3. QED
    BY <1>3, <2>1, <2>2, LeavingKeepsAccount DEF Terminate
<1>4. ASSUME NEW s \in Saga, ContainerExits(s) \/ Cancel(s) \/ WorkerCrash(s)
      PROVE  Accounted' /\ StrayOwned'
  BY <1>4, RunUnchangedAnswers, QuietKeepsAccount DEF ContainerExits, Cancel, WorkerCrash
<1>5. CASE StrayLands
  <2>1. PICK m \in stray : count' = m[2] /\ stray' = stray \ {m}
    BY <1>5 DEF StrayLands
  <2>2. m[1] \in Saga /\ UNCHANGED <<hit, errs>>
    BY <1>5, <2>1 DEF StrayLands, EnvTypeOK, run
  <2>3. "late" \notin hit' => Answers(m[1])'
    BY <2>1, <2>2 DEF StrayOwned, Answers
  <2>4. QED
    BY <2>1, <2>2, <2>3 DEF Accounted, StrayOwned
<1>6. CASE Nomad
  <2>1. UNCHANGED run /\ UNCHANGED <<count, stray>> /\ hit \subseteq hit'
    BY <1>6 DEF Nomad, AllocPlaced, AllocStarts, AllocStops, AllocDies
  <2>2. QED
    BY <2>1, RunUnchangedAnswers, QuietKeepsAccount
<1>7. CASE UNCHANGED vars
  BY <1>7, RunUnchangedAnswers, QuietKeepsAccount DEF vars, run
<1>8. QED
  BY <1>1, <1>2, <1>3, <1>4, <1>5, <1>6, <1>7 DEF Next

LEMMA AccountInvariant == Safe => [](RunInv /\ EnvTypeOK /\ Accounted /\ StrayOwned)
<1>1. Init => Accounted /\ StrayOwned
  BY DEF Init, Accounted, StrayOwned
<1>2. RunInv /\ EnvTypeOK /\ Accounted /\ StrayOwned /\ [Next]_vars
      => (Accounted /\ StrayOwned)'
  BY NextKeepsAccount
<1>3. QED
  BY RunInvariant, <1>1, <1>2, PTL DEF Safe

LEMMA ClosedCleanIsUp ==
  ASSUME EnvTypeOK, Accounted, AllClosed, Clean, "late" \notin hit
  PROVE  count = 1
  BY DEF EnvTypeOK, Accounted, Answers, AllClosed, Clean

\* However many runs overlap, however often they are retried, cancelled,
\* terminated or lose their workers: the job is not left at 0 unless some run
\* reports an error (or Nomad applied a request after its attempt's timeout).
THEOREM NoSilentStranding == Spec => []NeverSilentlyStranded
<1>1. EnvTypeOK /\ Accounted => NeverSilentlyStranded
  BY ClosedCleanIsUp DEF NeverSilentlyStranded
<1>2. QED
  BY AccountInvariant, <1>1, PTL DEF Spec

--------------------------------------------------------------------------------
\* The refinement of OutageContract.

\* A step that changes the count leaves what the runs report alone, and comes
\* from a run that is open or from a request that outlived one.
RescaleShape ==
  count' # count =>
    /\ UNCHANGED <<pc, errs, hit>>
    /\ stray = {} => ~AllClosed

\* Closed runs stay closed, and their reports stay as they are.
ClosedShape == AllClosed => UNCHANGED <<pc, errs>>

LEMMA NextShape ==
  ASSUME RunInv, [Next]_vars
  PROVE  RescaleShape /\ ClosedShape /\ hit \subseteq hit'
<1> USE DEF RescaleShape, ClosedShape, container, nomad, run
<1>1. ASSUME NEW s \in Saga, Workflow(s)
      PROVE  RescaleShape /\ ClosedShape /\ hit \subseteq hit'
  <2>1. pc[s] # "closed"
    BY <1>1
    DEF RunInv, CallOpen, UnderWay, Workflow, StartAttempt, AttemptFails, AttemptOutlived,
        QueueTimeout, ObserveTimeout, ObserveCancel,
        ContextCancelled, Body, FindJobNode, ResolveJobImage, MeasureDataDir,
        MeasureBestEffort, ScaleJob, Scaling, ScaleJobReturns, WaitJobDrained,
        WaitJobRunning, Returns
  <2>2. hit \subseteq hit'
    BY <1>1
    DEF Workflow, StartAttempt, AttemptFails, AttemptOutlived, QueueTimeout,
        ObserveTimeout, ObserveCancel,
        FindJobNode, ResolveJobImage, MeasureDataDir, ScaleJob, ScaleJobReturns,
        WaitJobDrained, WaitJobRunning, Returns
  <2>3. count' # count => UNCHANGED <<pc, errs, hit>>
    BY <1>1
    DEF Workflow, StartAttempt, AttemptFails, AttemptOutlived, QueueTimeout,
        ObserveTimeout, ObserveCancel,
        FindJobNode, ResolveJobImage, MeasureDataDir, ScaleJob, ScaleJobReturns,
        WaitJobDrained, WaitJobRunning, Returns
  <2>4. QED
    BY <2>1, <2>2, <2>3 DEF AllClosed
<1>2. ASSUME NEW s \in Saga, Container(s)
      PROVE  RescaleShape /\ ClosedShape /\ hit \subseteq hit'
  <2>1. count' = count /\ hit \subseteq hit'
    BY <1>2
    DEF Container, StartContainer, StartContainerFails, RunContainerReturns,
        RunContainerAborted, HeartbeatTimeout
  <2>2. pc[s] = "closed" => UNCHANGED run
    BY <1>2
    DEF Container, StartContainer, StartContainerFails, RunContainerReturns,
        RunContainerAborted, HeartbeatTimeout, Resolve, Awaited
  <2>3. QED
    BY <2>1, <2>2 DEF AllClosed
<1>3. ASSUME NEW s \in Saga,
             Terminate(s) \/ ContainerExits(s) \/ Cancel(s) \/ WorkerCrash(s)
      PROVE  RescaleShape /\ ClosedShape /\ hit \subseteq hit'
  BY <1>3 DEF Terminate, ContainerExits, Cancel, WorkerCrash, AllClosed
<1>4. CASE StrayLands
  BY <1>4 DEF StrayLands
<1>5. CASE Nomad
  BY <1>5 DEF Nomad, AllocPlaced, AllocStarts, AllocStops, AllocDies
<1>6. CASE UNCHANGED vars
  BY <1>6 DEF vars
<1>7. QED
  BY <1>1, <1>2, <1>3, <1>4, <1>5, <1>6 DEF Next

LEMMA StepKeepsContract ==
  ASSUME RunInv, EnvTypeOK, Accounted, StrayOwned, [Next]_vars,
         EnvTypeOK', Accounted'
  PROVE  [Contract!Next]_(Contract!vars)
<1> USE DEF Contract!Next, Contract!vars, Contract!Rescale, Contract!Close, Contract!Void
<1>1. CASE "late" \in hit'
  <2>1. Outcome' = "void"
    BY <1>1 DEF Outcome
  <2>2. CASE "late" \in hit
    <3>1. Outcome = "void"
      BY <2>2 DEF Outcome
    <3>2. QED
      BY <2>1, <3>1
  <2>3. CASE "late" \notin hit
    <3>1. count' = count
      BY <1>1, <2>3, NextShape DEF RescaleShape
    <3>2. QED
      BY <2>1, <3>1
  <2>4. QED
    BY <2>2, <2>3
<1>2. CASE "late" \notin hit'
  <2>1. "late" \notin hit
    BY <1>2, NextShape
  <2>2. CASE count' # count
    <3>1. UNCHANGED <<pc, errs, hit>> /\ (stray = {} => ~AllClosed)
      BY <2>2, NextShape DEF RescaleShape
    <3>2. Outcome' = Outcome
      BY <3>1 DEF Outcome, AllClosed, Clean
    <3>3. ~AllClosed \/ ~Clean
      BY <2>1, <3>1 DEF StrayOwned, EnvTypeOK, Clean
    <3>4. Outcome # "ok"
      BY <2>1, <3>3 DEF Outcome
    <3>5. QED
      BY <3>2, <3>4
  <2>3. CASE count' = count
    <3>1. CASE AllClosed
      <4>1. Outcome' = Outcome
        BY <1>2, <2>1, <3>1, NextShape DEF ClosedShape, Outcome, AllClosed, Clean
      <4>2. QED
        BY <2>3, <4>1
    <3>2. CASE ~AllClosed
      <4>1. Outcome = "open"
        BY <2>1, <3>2 DEF Outcome
      <4>2. CASE Outcome' = "ok"
        <5>1. AllClosed' /\ Clean'
          BY <1>2, <4>2 DEF Outcome
        <5>2. count' = 1
          BY <1>2, <5>1, ClosedCleanIsUp DEF EnvTypeOK, Accounted, Answers, AllClosed, Clean
        <5>3. QED
          BY <2>3, <4>1, <4>2, <5>2
      <4>3. CASE Outcome' # "ok"
        <5>1. Outcome' \in {"open", "error"}
          BY <1>2, <4>3 DEF Outcome
        <5>2. QED
          BY <2>3, <4>1, <5>1
      <4>4. QED
        BY <4>2, <4>3
    <3>3. QED
      BY <3>1, <3>2
  <2>4. QED
    BY <2>2, <2>3
<1>3. QED
  BY <1>1, <1>2

\* Every step of the runs, the worker and Nomad is a step the contract allows or
\* changes nothing it speaks about: an execution reports success only over a job
\* that is up, and nothing its runs have sent takes the job down afterwards.
THEOREM ImplementsContract == Safe => Contract!SafeSpec
<1>1. Init => Contract!Init
  BY SomeRun DEF Init, Contract!Init, Outcome, AllClosed, Saga
<1>2. QED
  BY AccountInvariant, StepKeepsContract, <1>1, PTL DEF Safe, Contract!SafeSpec

--------------------------------------------------------------------------------
\* The container.

\* Run s has not begun its one attempt at the container activity.
Before(s) ==
  \/ pc[s] \in {"FindJobNode", "ResolveJobImage", "MeasureBefore", "ScaleDown",
                "WaitJobDrained"}
  \/ pc[s] = "RunContainer" /\ call[s] = "idle"

\* Until then it has started none, and no worker is about to.
ContainerOnce ==
  \A s \in Saga :
    /\ started[s] <= 1
    /\ task[s] = "prep" => started[s] = 0
    /\ Before(s) => started[s] = 0 /\ task[s] = "none"

\* No outcome of an activity leads back to before the container activity.
LEMMA SucceedMovesOn ==
  ASSUME RunInv, NEW s \in Saga, pc[s] # "closed", Succeed(s)
  PROVE  \A t \in Saga : Before(t)' => Before(t)
<1>1. \A t \in Saga \ {s} : pc'[t] = pc[t] /\ call'[t] = call[t]
  BY DEF RunInv, RunTypeOK, Succeed, Enter
<1>2. pc'[s] = AfterStep(s)
  BY DEF RunInv, RunTypeOK, Succeed, Enter
<1>3. Before(s)' => Before(s)
  BY <1>2 DEF Before, AfterStep, RegistryGC, AptlyCleanup
<1>4. QED
  BY <1>1, <1>3 DEF Before

LEMMA FailMovesOn ==
  ASSUME RunInv, NEW s \in Saga, pc[s] # "closed", Fail(s)
  PROVE  \A t \in Saga : Before(t)' => Before(t)
<1>1. \A t \in Saga \ {s} : pc'[t] = pc[t] /\ call'[t] = call[t]
  BY DEF RunInv, RunTypeOK, Fail, Enter
<1>2. pc'[s] = AfterError(s)
  BY DEF RunInv, RunTypeOK, Fail, Enter
<1>3. Before(s)' => Before(s)
  BY <1>2 DEF Before, AfterError, AfterStep, MeasureBestEffort, RegistryGC, AptlyCleanup
<1>4. QED
  BY <1>1, <1>3 DEF Before

\* The container activity's one attempt leaves none to retry.
LEMMA RetryOrFailMovesOn ==
  ASSUME RunInv, NEW s \in Saga, UnderWay(s), RetryOrFail(s)
  PROVE  \A t \in Saga : Before(t)' => Before(t)
<1>1. CASE Fail(s)
  BY <1>1, FailMovesOn DEF RunInv, CallOpen, UnderWay
<1>2. CASE /\ attempt[s] < Attempts(pc[s])
           /\ call' = [call EXCEPT ![s] = "idle"]
           /\ UNCHANGED <<pc, attempt, errs, overlooked>>
  <2>1. pc[s] # "RunContainer"
    BY <1>2 DEF RunInv, RunTypeOK, CallOpen, UnderWay, Attempts
  <2>2. QED
    BY <1>2, <2>1 DEF Before, RunInv, RunTypeOK
<1>3. QED
  BY <1>1, <1>2 DEF RetryOrFail

LEMMA ResolveMovesOn ==
  ASSUME RunInv, NEW s \in Saga, Resolve(s, Succeed(s) \/ RetryOrFail(s))
  PROVE  \A t \in Saga : Before(t)' => Before(t)
<1>1. CASE Awaited(s)
  BY <1>1, SucceedMovesOn, RetryOrFailMovesOn DEF Resolve, Awaited, UnderWay
<1>2. CASE ~Awaited(s)
  BY <1>2 DEF Resolve, run, Before
<1>3. QED
  BY <1>1, <1>2

\* A step that starts no container and gives no worker the activity.
LEMMA IdleKeepsOnce ==
  ASSUME ContainerOnce, EnvTypeOK, UNCHANGED started,
         \A t \in Saga : task'[t] \in {task[t], "none"},
         \A t \in Saga : Before(t)' => Before(t)
  PROVE  ContainerOnce'
  BY DEF ContainerOnce, EnvTypeOK

LEMMA WorkflowKeepsOnce ==
  ASSUME RunInv, EnvTypeOK, ContainerOnce, NEW s \in Saga, Workflow(s)
  PROVE  ContainerOnce'
<1> USE DEF container, nomad
<1>1. CASE StartAttempt(s)
  <2>1. \A t \in Saga \ {s} : /\ Before(t)' => Before(t)
                              /\ task'[t] = task[t]
    BY <1>1 DEF StartAttempt, Before, RunInv, RunTypeOK, EnvTypeOK
  <2>2. Before(s)' => Before(s) /\ task'[s] = task[s]
    BY <1>1 DEF StartAttempt, Before, RunInv, RunTypeOK, EnvTypeOK
  <2>3. task'[s] # task[s] => Before(s)
    BY <1>1 DEF StartAttempt, Before, EnvTypeOK
  <2>4. UNCHANGED started
    BY <1>1 DEF StartAttempt
  <2>5. QED
    BY <2>1, <2>2, <2>3, <2>4 DEF ContainerOnce
<1>2. CASE AttemptFails(s)
  BY <1>2, RetryOrFailMovesOn, IdleKeepsOnce DEF AttemptFails
<1>3. CASE AttemptOutlived(s)
  BY <1>3, RetryOrFailMovesOn, IdleKeepsOnce DEF AttemptOutlived, UnderWay
<1>4. CASE ObserveCancel(s)
  BY <1>4, FailMovesOn, IdleKeepsOnce DEF ObserveCancel, ContextCancelled, Body
<1>5. CASE ScaleJob(s)
  <2>1. \A t \in Saga : Before(t)' => Before(t)
    BY <1>5 DEF ScaleJob, Before, RunInv, RunTypeOK
  <2>2. QED
    BY <1>5, <2>1, IdleKeepsOnce DEF ScaleJob
<1>6. CASE \E step : Returns(s, step)
  BY <1>6, SucceedMovesOn, IdleKeepsOnce DEF Returns, RunInv, CallOpen, UnderWay
<1>7. CASE QueueTimeout(s)
  <2>1. \A t \in Saga : Before(t)' => Before(t)
    BY <1>7 DEF QueueTimeout, Before, RunInv, RunTypeOK
  <2>2. QED
    BY <1>7, <2>1, IdleKeepsOnce DEF QueueTimeout
<1>8. CASE ObserveTimeout(s)
  BY <1>8, FailMovesOn, IdleKeepsOnce DEF ObserveTimeout, RunInv, CallOpen
<1>9. QED
  BY <1>1, <1>2, <1>3, <1>4, <1>5, <1>6, <1>7, <1>8
  DEF Workflow, FindJobNode, ResolveJobImage, MeasureDataDir, ScaleJobReturns,
      WaitJobDrained, WaitJobRunning

LEMMA NextKeepsOnce ==
  ASSUME RunInv, EnvTypeOK, ContainerOnce, [Next]_vars
  PROVE  ContainerOnce'
<1> USE DEF container, nomad
<1>1. ASSUME NEW s \in Saga, Workflow(s) PROVE ContainerOnce'
  BY <1>1, WorkflowKeepsOnce
<1>2. ASSUME NEW s \in Saga, Container(s) PROVE ContainerOnce'
  <2>1. CASE StartContainer(s)
    BY <1>2, <2>1 DEF StartContainer, ContainerOnce, Before, run, EnvTypeOK
  <2>2. CASE Resolve(s, Succeed(s) \/ RetryOrFail(s)) /\ UNCHANGED started
             /\ task' = [task EXCEPT ![s] = "none"]
    <3>1. \A t \in Saga : task'[t] \in {task[t], "none"}
      BY <2>2 DEF EnvTypeOK
    <3>2. QED
      BY <2>2, <3>1, ResolveMovesOn, IdleKeepsOnce
  <2>3. CASE HeartbeatTimeout(s)
    BY <2>3, RetryOrFailMovesOn, IdleKeepsOnce DEF HeartbeatTimeout, Awaited, UnderWay
  <2>4. Resolve(s, RetryOrFail(s)) => Resolve(s, Succeed(s) \/ RetryOrFail(s))
    BY DEF Resolve
  <2>5. CASE StartContainerFails(s)
    <3>1. /\ \A t \in Saga : task'[t] \in {task[t], "none"}
          /\ task[s] = "prep" /\ task'[s] = "none"
          /\ \A t \in Saga : started'[t] \in {started[t], started[t] + 1}
          /\ \A t \in Saga \ {s} : started'[t] = started[t]
      BY <2>5 DEF StartContainerFails, EnvTypeOK
    <3>2. \A t \in Saga : Before(t)' => Before(t)
      BY <2>5, <2>4, ResolveMovesOn DEF StartContainerFails
    <3>3. ~Before(s) /\ started[s] = 0
      BY <3>1 DEF ContainerOnce
    <3>4. QED
      BY <3>1, <3>2, <3>3 DEF ContainerOnce, EnvTypeOK
  <2>6. QED
    BY <1>2, <2>1, <2>2, <2>3, <2>4, <2>5
    DEF Container, RunContainerReturns, RunContainerAborted
<1>3. ASSUME NEW s \in Saga, Terminate(s) PROVE ContainerOnce'
  <2>1. \A t \in Saga : Before(t)' => Before(t)
    BY <1>3 DEF Terminate, Enter, Before, RunInv, RunTypeOK
  <2>2. QED
    BY <1>3, <2>1, IdleKeepsOnce DEF Terminate
<1>4. ASSUME NEW s \in Saga, ContainerExits(s) \/ Cancel(s) \/ WorkerCrash(s)
      PROVE  ContainerOnce'
  <2>1. \A t \in Saga : task'[t] \in {task[t], "none"}
    BY <1>4 DEF ContainerExits, Cancel, WorkerCrash, EnvTypeOK
  <2>2. QED
    BY <1>4, <2>1, IdleKeepsOnce DEF ContainerExits, Cancel, WorkerCrash, run, Before
<1>5. CASE StrayLands \/ Nomad
  BY <1>5, IdleKeepsOnce DEF StrayLands, Nomad, run, Before
<1>6. CASE UNCHANGED vars
  BY <1>6, IdleKeepsOnce DEF vars, run, Before
<1>7. QED
  BY <1>1, <1>2, <1>3, <1>4, <1>5, <1>6 DEF Next

\* An execution starts its container at most once, whatever becomes of the
\* activity's worker, its heartbeats and its workflow: a partially finished
\* garbage collection is never started again.
THEOREM ContainerNotRestarted == Spec => []AtMostOneContainer
<1>1. Init => ContainerOnce
  BY DEF Init, ContainerOnce
<1>2. RunInv /\ EnvTypeOK /\ ContainerOnce /\ [Next]_vars => ContainerOnce'
  BY NextKeepsOnce
<1>3. ContainerOnce => AtMostOneContainer
  BY DEF ContainerOnce, AtMostOneContainer
<1>4. QED
  BY RunInvariant, <1>1, <1>2, <1>3, PTL DEF Spec, Safe

--------------------------------------------------------------------------------
\* The compensation.

\* What CompensationIsSent says of one run.
SentBeforeClosed(s) ==
  (/\ pc[s] \in Steps \ {"FindJobNode", "ResolveJobImage", "MeasureBefore", "ScaleDown"}
   /\ pc'[s] = "closed"
   /\ "terminated" \notin errs'[s])
  => /\ pc[s] \in Compensation
     /\ attempt[s] > 0 \/ call[s] = "expired"

LEMMA OutcomeSent ==
  ASSUME RunInv, NEW s \in Saga, call[s] # "idle", Succeed(s) \/ RetryOrFail(s)
  PROVE  \A t \in Saga : SentBeforeClosed(t)
<1>1. pc[s] # "closed" /\ (attempt[s] > 0 \/ call[s] = "expired")
  BY DEF RunInv, RunTypeOK, CallOpen, UnderWay
<1>2. pc'[s] \in {pc[s], AfterStep(s), AfterError(s)}
  BY DEF Succeed, RetryOrFail, Fail, Enter, RunInv, RunTypeOK
<1>3. \A t \in Saga \ {s} : pc'[t] = pc[t]
  BY DEF Succeed, RetryOrFail, Fail, Enter, RunInv, RunTypeOK
<1>4. SentBeforeClosed(s)
  BY <1>1, <1>2
  DEF SentBeforeClosed, AfterStep, AfterError, MeasureBestEffort, RegistryGC,
      AptlyCleanup, Steps, Body, Compensation
<1>5. \A t \in Saga \ {s} : SentBeforeClosed(t)
  BY <1>3 DEF SentBeforeClosed, Steps, Body, Compensation
<1>6. QED
  BY <1>4, <1>5

LEMMA SamePcSent ==
  ASSUME UNCHANGED pc PROVE \A t \in Saga : SentBeforeClosed(t)
  BY DEF SentBeforeClosed, Steps, Body, Compensation

LEMMA NextSent ==
  ASSUME RunInv, Next
  PROVE  \A t \in Saga : SentBeforeClosed(t)
<1> USE DEF run
<1>1. ASSUME NEW s \in Saga, Workflow(s) PROVE \A t \in Saga : SentBeforeClosed(t)
  <2>1. CASE StartAttempt(s) \/ QueueTimeout(s) \/ ScaleJob(s)
    BY <2>1, SamePcSent DEF StartAttempt, QueueTimeout, ScaleJob
  <2>2. CASE \/ AttemptFails(s) \/ AttemptOutlived(s) \/ ObserveTimeout(s)
             \/ \E step : Returns(s, step)
    BY <2>2, OutcomeSent
    DEF AttemptFails, AttemptOutlived, ObserveTimeout, RetryOrFail, Returns, UnderWay
  <2>3. CASE ObserveCancel(s)
    <3>1. pc[s] \in Body /\ pc'[s] = AfterError(s) /\ \A t \in Saga \ {s} : pc'[t] = pc[t]
      BY <2>3 DEF ObserveCancel, ContextCancelled, Fail, Enter, RunInv, RunTypeOK
    <3>2. SentBeforeClosed(s)
      BY <3>1
      DEF SentBeforeClosed, AfterStep, AfterError, MeasureBestEffort, RegistryGC,
          AptlyCleanup, Body
    <3>3. QED
      BY <3>1, <3>2 DEF SentBeforeClosed, Steps, Body, Compensation
  <2>4. QED
    BY <1>1, <2>1, <2>2, <2>3
    DEF Workflow, FindJobNode, ResolveJobImage, MeasureDataDir, ScaleJobReturns,
        WaitJobDrained, WaitJobRunning
<1>2. ASSUME NEW s \in Saga, Container(s) PROVE \A t \in Saga : SentBeforeClosed(t)
  <2>1. UNCHANGED pc \/ (call[s] # "idle" /\ (Succeed(s) \/ RetryOrFail(s)))
    BY <1>2
    DEF Container, StartContainer, StartContainerFails, RunContainerReturns,
        RunContainerAborted, HeartbeatTimeout, Resolve, Awaited
  <2>2. QED
    BY <2>1, SamePcSent, OutcomeSent
<1>3. ASSUME NEW s \in Saga, Terminate(s) PROVE \A t \in Saga : SentBeforeClosed(t)
  <2>1. "terminated" \in errs'[s] /\ \A t \in Saga \ {s} : pc'[t] = pc[t]
    BY <1>3 DEF Terminate, Enter, RunInv, RunTypeOK
  <2>2. QED
    BY <2>1 DEF SentBeforeClosed, Steps, Body, Compensation
<1>4. ASSUME NEW s \in Saga, ContainerExits(s) \/ Cancel(s) \/ WorkerCrash(s)
      PROVE  \A t \in Saga : SentBeforeClosed(t)
  BY <1>4, SamePcSent DEF ContainerExits, Cancel, WorkerCrash
<1>5. CASE StrayLands \/ Nomad
  BY <1>5, SamePcSent DEF StrayLands, Nomad
<1>6. QED
  BY <1>1, <1>2, <1>3, <1>4, <1>5 DEF Next

\* An execution that has scaled the job down, and is not terminated, does not
\* close before its deferred scale-up has been attempted or left to expire in the
\* task queue: no cancellation, error or exhausted retry of the body skips the
\* compensation.
THEOREM CompensationNotSkipped == Spec => CompensationIsSent
<1>1. RunInv /\ [Next]_vars => [\A s \in Saga : SentBeforeClosed(s)]_vars
  BY NextSent
<1>2. (\A s \in Saga : SentBeforeClosed(s)) <=>
      \A s \in Saga :
       (/\ pc[s] \in Steps \ {"FindJobNode", "ResolveJobImage", "MeasureBefore", "ScaleDown"}
        /\ pc'[s] = "closed"
        /\ "terminated" \notin errs'[s])
       => /\ pc[s] \in Compensation
          /\ attempt[s] > 0 \/ call[s] = "expired"
  BY DEF SentBeforeClosed
<1>3. QED
  BY RunInvariant, <1>1, <1>2, PTL DEF Spec, Safe, CompensationIsSent

--------------------------------------------------------------------------------
\* The container and the job's own process.

\* Run s tells that its container may have outlived its wait.
Told(s) == errs[s] \cap {"RunContainer", "terminated"} # {}

\* The job's allocation had died, and the drain did not count the pending new one.
Missed(s) == s \in overlooked /\ "churn" \in hit

\* No request to scale the job up is left over.
NoneUp == \A m \in stray : m[2] = 0

Drained == alloc = "none" /\ count = 0
Draining == alloc = "running" \/ Drained \/ "churn" \in hit

\* The container is the one the run waits for, and until its scale-up the run
\* brings the job down, sees it down, and then waits for its container.
Isolated(s) ==
  /\ box[s] \/ task[s] # "none" => pc[s] = "RunContainer" /\ call[s] = "sent"
  /\ pc[s] \in Body \ {"MeasureAfter"} => NoneUp
  /\ pc[s] \in {"ResolveJobImage", "MeasureBefore", "ScaleDown"} => Draining
  /\ pc[s] = "ScaleDown" /\ call[s] = "applied" => count = 0
  /\ pc[s] = "WaitJobDrained" => Draining /\ count = 0
  /\ pc[s] = "RunContainer" => Drained \/ Missed(s)

Offline == (\A s, t \in Saga : s = t) => \A s \in Saga : Told(s) \/ Isolated(s)

\* What was told stays told, what was missed stays missed.
Lasting(s) == (Told(s) => Told(s)') /\ (Missed(s) => Missed(s)') /\ hit \subseteq hit'

LEMMA OutcomeLasting ==
  ASSUME RunInv, NEW s \in Saga, pc[s] # "closed", hit \subseteq hit',
         RetryOrFail(s) \/ Fail(s) \/ Succeed(s)
  PROVE  Lasting(s)
  BY DEF RunInv, RunTypeOK, RetryOrFail, Fail, Succeed, Lasting, Told, Missed

LEMMA NextLasting ==
  ASSUME RunInv, NEW s \in Saga, \A t \in Saga : t = s, [Next]_vars
  PROVE  Lasting(s)
<1>1. hit \subseteq hit'
  BY NextShape
<1>2. CASE Workflow(s)
  <2>1. pc[s] # "closed" \/ UNCHANGED <<errs, overlooked>>
    BY <1>2
    DEF RunInv, CallOpen, UnderWay, Workflow, StartAttempt, AttemptFails, AttemptOutlived,
        QueueTimeout, ObserveTimeout, ObserveCancel, ContextCancelled, Body, FindJobNode,
        ResolveJobImage, MeasureDataDir, MeasureBestEffort, ScaleJob, Scaling,
        ScaleJobReturns, WaitJobDrained, WaitJobRunning, Returns
  <2>2. UNCHANGED <<errs, overlooked>> \/ RetryOrFail(s) \/ Fail(s) \/ Succeed(s)
    BY <1>2
    DEF Workflow, StartAttempt, AttemptFails, AttemptOutlived, QueueTimeout,
        ObserveTimeout, ObserveCancel, FindJobNode, ResolveJobImage, MeasureDataDir,
        ScaleJob, ScaleJobReturns, WaitJobDrained, WaitJobRunning, Returns
  <2>3. QED
    BY <1>1, <2>1, <2>2, OutcomeLasting DEF Lasting, Told, Missed
<1>3. CASE Container(s)
  <2>1. UNCHANGED <<errs, overlooked>> \/ (pc[s] # "closed" /\ (RetryOrFail(s) \/ Succeed(s)))
    BY <1>3
    DEF Container, StartContainer, StartContainerFails, RunContainerReturns,
        RunContainerAborted, HeartbeatTimeout, Resolve, Awaited, run
  <2>2. QED
    BY <1>1, <2>1, OutcomeLasting DEF Lasting, Told, Missed
<1>4. CASE Terminate(s)
  BY <1>1, <1>4 DEF Terminate, RunInv, RunTypeOK, Lasting, Told, Missed
<1>5. CASE ContainerExits(s) \/ Cancel(s) \/ WorkerCrash(s) \/ StrayLands \/ Nomad \/ UNCHANGED vars
  <2>1. UNCHANGED <<errs, overlooked>>
    BY <1>5 DEF ContainerExits, Cancel, WorkerCrash, StrayLands, Nomad, vars, run
  <2>2. QED
    BY <1>1, <2>1 DEF Lasting, Told, Missed
<1>6. QED
  BY <1>2, <1>3, <1>4, <1>5 DEF Next

\* How an activity's outcome moves a run on: on success only past what it waits for.
LEMMA MovesOn ==
  ASSUME RunInv, EnvTypeOK, NEW s \in Saga, pc[s] # "closed", Isolated(s), Lasting(s),
         task'[s] = "none", ~box'[s],
         UNCHANGED <<count, alloc>>, pc[s] # "ScaleUp" /\ NoneUp => NoneUp',
         \/ RetryOrFail(s) \/ Fail(s)
         \/ /\ Succeed(s)
            /\ pc[s] = "FindJobNode" => alloc = "running"
            /\ pc[s] = "ScaleDown" => call[s] = "applied"
            /\ pc[s] = "WaitJobDrained" => alloc # "running"
  PROVE  Isolated(s)'
<1>1. /\ pc \in [Saga -> Steps \cup {"closed"}]
      /\ call \in [Saga -> {"idle", "sent", "applied", "expired"}]
  BY DEF RunInv, RunTypeOK
<1>2. call'[s] = "idle"
  BY <1>1 DEF RetryOrFail, Fail, Succeed, Enter
<1>3. (Drained => Drained') /\ (Draining => Draining') /\ (Missed(s) => Missed(s)')
  BY DEF Lasting, Drained, Draining
<1>4. CASE pc'[s] = pc[s]
  BY <1>2, <1>3, <1>4 DEF Isolated, Body
<1>5. CASE pc'[s] = AfterError(s)
  <2>1. /\ pc'[s] \in {"ScaleDown", "ScaleUp", "WaitJobRunning", "closed"}
        /\ pc'[s] = "ScaleDown" => pc[s] = "MeasureBefore"
    BY <1>1, <1>5
    DEF AfterError, AfterStep, MeasureBestEffort, RegistryGC, AptlyCleanup, Steps, Body,
        Compensation
  <2>2. QED
    BY <1>2, <1>3, <2>1 DEF Isolated, Body
<1>6. CASE /\ Succeed(s)
           /\ pc'[s] = AfterStep(s)
           /\ pc[s] = "FindJobNode" => alloc = "running"
           /\ pc[s] = "ScaleDown" => call[s] = "applied"
           /\ pc[s] = "WaitJobDrained" => alloc # "running"
  <2>1. CASE pc[s] \in {"FindJobNode", "ResolveJobImage", "MeasureBefore"}
    <3>1. pc'[s] \in {"ResolveJobImage", "MeasureBefore", "ScaleDown", "closed"}
      BY <1>6, <2>1 DEF AfterStep, RegistryGC, AptlyCleanup
    <3>2. Draining /\ NoneUp
      BY <1>6, <2>1 DEF Isolated, Draining, Body
    <3>3. QED
      BY <1>2, <1>3, <2>1, <3>1, <3>2 DEF Isolated, Body
  <2>2. CASE pc[s] = "ScaleDown"
    <3>1. pc'[s] = "WaitJobDrained"
      BY <1>6, <2>2 DEF AfterStep, RegistryGC, AptlyCleanup
    <3>2. QED
      BY <1>2, <1>3, <1>6, <2>2, <3>1 DEF Isolated, Body
  <2>3. CASE pc[s] = "WaitJobDrained"
    <3>1. pc'[s] = "RunContainer"
      BY <1>6, <2>3 DEF AfterStep, RegistryGC, AptlyCleanup
    <3>2. Drained \/ (alloc = "pending" /\ "churn" \in hit)
      BY <1>6, <2>3 DEF Isolated, Drained, Draining, EnvTypeOK
    <3>3. Drained' \/ Missed(s)'
      BY <1>3, <1>6, <2>3, <3>2 DEF Lasting, Missed, Succeed
    <3>4. QED
      BY <1>2, <2>3, <3>1, <3>3 DEF Isolated, Body
  <2>4. CASE pc[s] \in {"RunContainer", "MeasureAfter", "ScaleUp", "WaitJobRunning"}
    <3>1. pc'[s] \in {"MeasureAfter", "ScaleUp", "WaitJobRunning", "closed"}
      BY <1>6, <2>4 DEF AfterStep, RegistryGC, AptlyCleanup
    <3>2. QED
      BY <1>2, <3>1 DEF Isolated, Body
  <2>5. QED
    BY <1>1, <2>1, <2>2, <2>3, <2>4 DEF Steps, Body, Compensation
<1>7. pc'[s] = pc[s] \/ pc'[s] = AfterError(s) \/ (Succeed(s) /\ pc'[s] = AfterStep(s))
  BY <1>1 DEF RetryOrFail, Fail, Succeed, Enter
<1>8. QED
  BY <1>1, <1>4, <1>5, <1>6, <1>7 DEF RetryOrFail, Fail, Succeed, Enter

\* The container activity has one attempt: its failure is told.
LEMMA ContainerFailureTold ==
  ASSUME RunInv, NEW s \in Saga, pc[s] = "RunContainer",
         Fail(s) \/ (UnderWay(s) /\ RetryOrFail(s))
  PROVE  Told(s)'
<1>1. Fail(s)
  BY DEF RetryOrFail, RunInv, RunTypeOK, CallOpen, Attempts
<1>2. QED
  BY <1>1 DEF Fail, Reported, MeasureBestEffort, Told, RunInv, RunTypeOK

\* A step that leaves the run and its container leaves them isolated.
LEMMA StaysIsolated ==
  ASSUME NEW s \in Saga, Isolated(s), Lasting(s), pc'[s] = pc[s], call'[s] = call[s],
         task'[s] \in {task[s], "none"}, box'[s] => box[s],
         NoneUp => NoneUp', Drained /\ NoneUp => Drained', Draining /\ NoneUp => Draining',
         count = 0 /\ NoneUp => count' = 0
  PROVE  Isolated(s)'
BY DEF Isolated, Body, Lasting

LEMMA WorkflowKeepsOffline ==
  ASSUME RunInv, EnvTypeOK, NEW s \in Saga, Isolated(s), Lasting(s), Workflow(s)
  PROVE  Told(s)' \/ Isolated(s)'
<1>1. /\ pc \in [Saga -> Steps \cup {"closed"}]
      /\ call \in [Saga -> {"idle", "sent", "applied", "expired"}]
      /\ task \in [Saga -> {"none", "prep", "wait"}]
  BY DEF RunInv, RunTypeOK, EnvTypeOK
<1>2. CASE StartAttempt(s)
  <2>1. /\ task[s] = "none" /\ ~box[s] /\ pc'[s] = pc[s] /\ call'[s] = "sent"
        /\ UNCHANGED <<box, count, alloc, stray, hit, overlooked>>
    BY <1>1, <1>2 DEF StartAttempt, Isolated, nomad
  <2>2. task'[s] = IF pc[s] = "RunContainer" THEN "prep" ELSE "none"
    BY <1>1, <1>2, <2>1 DEF StartAttempt
  <2>3. QED
    BY <2>1, <2>2 DEF Isolated, Drained, Draining, Missed, NoneUp, Body
<1>3. CASE ScaleJob(s)
  <2>1. /\ task[s] = "none" /\ ~box[s] /\ pc'[s] = pc[s] /\ call'[s] = "applied"
        /\ pc[s] \in {"ScaleDown", "ScaleUp"}
        /\ count' = Target(pc[s]) /\ UNCHANGED <<task, box, alloc, stray, hit>>
    BY <1>1, <1>3 DEF ScaleJob, Scaling, Isolated, container
  <2>2. QED
    BY <2>1 DEF Isolated, Drained, Draining, NoneUp, Target, Body
<1>4. CASE AttemptFails(s)
  <2>1. /\ task[s] = "none" /\ ~box[s] /\ RetryOrFail(s) /\ pc[s] # "closed"
        /\ UNCHANGED <<task, box, count, alloc, stray>>
    BY <1>1, <1>4 DEF AttemptFails, RunInv, CallOpen, UnderWay, Isolated, container, nomad
  <2>2. QED
    BY <2>1, MovesOn DEF NoneUp
<1>5. CASE AttemptOutlived(s)
  <2>1. /\ task[s] = "none" /\ ~box[s] /\ RetryOrFail(s) /\ pc[s] \in {"ScaleDown", "ScaleUp"}
        /\ UNCHANGED <<task, box, count, alloc>> /\ stray' = stray \cup {<<s, Target(pc[s])>>}
    BY <1>1, <1>5 DEF AttemptOutlived, Scaling, Isolated, container, nomad
  <2>2. pc[s] # "ScaleUp" /\ NoneUp => NoneUp'
    BY <2>1 DEF NoneUp, Target
  <2>3. QED
    BY <2>1, <2>2, MovesOn
<1>6. CASE ObserveCancel(s)
  <2>1. CASE pc[s] = "RunContainer"
    BY <1>6, <2>1, ContainerFailureTold DEF ObserveCancel
  <2>2. CASE pc[s] # "RunContainer"
    <3>1. /\ task[s] = "none" /\ ~box[s] /\ Fail(s) /\ pc[s] \in Body
          /\ UNCHANGED <<task, box, count, alloc>>
      BY <1>1, <1>6, <2>2 DEF ObserveCancel, ContextCancelled, Isolated, container, nomad
    <3>2. NoneUp => NoneUp'
      BY <1>6, <3>1 DEF ObserveCancel, NoneUp, Target, Body
    <3>3. QED
      BY <3>1, <3>2, MovesOn DEF Body
  <2>3. QED
    BY <2>1, <2>2
<1>7. CASE QueueTimeout(s)
  <2>1. /\ pc'[s] = pc[s] /\ call[s] = "idle" /\ call'[s] = "expired"
        /\ UNCHANGED <<task, box, count, alloc, stray, hit, overlooked>>
    BY <1>1, <1>7 DEF QueueTimeout, container, nomad
  <2>2. QED
    BY <2>1 DEF Isolated, Drained, Draining, Missed, NoneUp, Body
<1>8. CASE ObserveTimeout(s)
  <2>1. /\ task[s] = "none" /\ ~box[s] /\ Fail(s) /\ pc[s] # "closed"
        /\ UNCHANGED <<task, box, count, alloc, stray>>
    BY <1>1, <1>8 DEF ObserveTimeout, RunInv, CallOpen, Isolated, container, nomad
  <2>2. QED
    BY <2>1, MovesOn DEF NoneUp
<1>9. ASSUME NEW step, Returns(s, step), step # "RunContainer",
             step = "FindJobNode" => alloc = "running",
             step = "ScaleDown" => call[s] = "applied",
             step = "WaitJobDrained" => alloc # "running"
      PROVE  Isolated(s)'
  <2>1. /\ task[s] = "none" /\ ~box[s] /\ Succeed(s) /\ pc[s] = step /\ pc[s] # "closed"
        /\ UNCHANGED <<task, box, count, alloc, stray>>
    BY <1>1, <1>9 DEF Returns, RunInv, CallOpen, UnderWay, Isolated, container, nomad
  <2>2. QED
    BY <1>9, <2>1, MovesOn DEF NoneUp
<1>10. QED
  BY <1>2, <1>3, <1>4, <1>5, <1>6, <1>7, <1>8, <1>9
  DEF Workflow, FindJobNode, ResolveJobImage, MeasureDataDir, MeasureBestEffort, ScaleJobReturns,
      Scaling, WaitJobDrained, WaitJobRunning

LEMMA ContainerKeepsOffline ==
  ASSUME RunInv, EnvTypeOK, NEW s \in Saga, Isolated(s), Lasting(s), Container(s)
  PROVE  Told(s)' \/ Isolated(s)'
<1>1. /\ task \in [Saga -> {"none", "prep", "wait"}] /\ box \in [Saga -> BOOLEAN]
      /\ UNCHANGED <<count, alloc, stray>>
  BY DEF EnvTypeOK, Container, StartContainer, StartContainerFails,
         RunContainerReturns, RunContainerAborted, HeartbeatTimeout, nomad
<1>2. CASE StartContainer(s)
  <2>1. /\ pc[s] = "RunContainer" /\ call[s] = "sent"
        /\ UNCHANGED <<pc, call, hit, overlooked>>
    BY <1>1, <1>2 DEF StartContainer, Isolated, run
  <2>2. QED
    BY <1>1, <2>1 DEF Isolated, Drained, Missed, NoneUp, Body
<1>3. CASE RunContainerReturns(s)
  <2>1. /\ pc[s] = "RunContainer" /\ UnderWay(s) /\ (Succeed(s) \/ RetryOrFail(s))
        /\ task'[s] = "none" /\ ~box'[s]
    BY <1>1, <1>3 DEF RunContainerReturns, Isolated, Resolve, Awaited, UnderWay
  <2>2. QED
    BY <1>1, <2>1, MovesOn, ContainerFailureTold DEF NoneUp
<1>4. CASE StartContainerFails(s) \/ RunContainerAborted(s) \/ HeartbeatTimeout(s)
  <2>1. pc[s] = "RunContainer" /\ UnderWay(s) /\ RetryOrFail(s)
    BY <1>1, <1>4
    DEF StartContainerFails, RunContainerAborted, HeartbeatTimeout, Isolated, Resolve,
        Awaited, UnderWay
  <2>2. QED
    BY <2>1, ContainerFailureTold
<1>5. QED
  BY <1>2, <1>3, <1>4 DEF Container

LEMMA NextKeepsOffline ==
  ASSUME RunInv, EnvTypeOK, Offline, [Next]_vars
  PROVE  Offline'
<1> SUFFICES ASSUME \A s, t \in Saga : s = t, NEW s \in Saga
             PROVE  Told(s)' \/ Isolated(s)'
  BY DEF Offline
<1>1. \A t \in Saga : t = s
  OBVIOUS
<1>2. Lasting(s)
  BY <1>1, NextLasting
<1>3. CASE Told(s)
  BY <1>2, <1>3 DEF Lasting
<1>4. CASE Isolated(s)
  <2>1. CASE Workflow(s) \/ Container(s)
    BY <1>2, <1>4, <2>1, WorkflowKeepsOffline, ContainerKeepsOffline
  <2>2. CASE Terminate(s)
    BY <2>2 DEF Terminate, RunInv, RunTypeOK, Told
  <2>3. CASE ContainerExits(s) \/ Cancel(s) \/ WorkerCrash(s)
    <3>1. /\ UNCHANGED <<pc, call, count, alloc, stray>> /\ (box'[s] => box[s])
          /\ task'[s] \in {task[s], "none"}
      BY <2>3 DEF ContainerExits, Cancel, WorkerCrash, run, nomad, container, EnvTypeOK
    <3>2. QED
      BY <1>2, <1>4, <3>1, StaysIsolated DEF NoneUp, Drained, Draining, Lasting
  <2>4. CASE StrayLands
    <3>1. UNCHANGED <<pc, call, task, box, alloc>>
      BY <2>4 DEF StrayLands, run, container
    <3>2. PICK m \in stray : count' = m[2] /\ stray' = stray \ {m}
      BY <2>4 DEF StrayLands
    <3>3. (NoneUp => NoneUp') /\ (NoneUp => count' = 0)
      BY <3>2 DEF NoneUp
    <3>4. QED
      BY <1>2, <1>4, <3>1, <3>3, StaysIsolated DEF Drained, Draining, Lasting
  <2>5. CASE Nomad
    <3>1. UNCHANGED <<pc, call, task, box, count, stray>>
      BY <2>5 DEF Nomad, run, container
    <3>2. (Drained => Drained') /\ (Draining => Draining')
      BY <2>5 DEF Nomad, AllocPlaced, AllocStarts, AllocStops, AllocDies, Drained, Draining
    <3>3. QED
      BY <1>2, <1>4, <3>1, <3>2, StaysIsolated DEF NoneUp
  <2>6. CASE UNCHANGED vars
    <3>1. UNCHANGED <<pc, call, task, box, count, alloc, stray, hit>>
      BY <2>6 DEF vars
    <3>2. QED
      BY <1>2, <1>4, <3>1, StaysIsolated DEF NoneUp, Drained, Draining
  <2>7. QED
    BY <1>1, <2>1, <2>2, <2>3, <2>4, <2>5, <2>6 DEF Next
<1>5. QED
  BY <1>3, <1>4 DEF Offline

\* Whatever fails, no container of a single run works on the data directory beside
\* the job's own process unless the run was terminated, reports the container
\* activity's error, or had its allocation die and its drain pass over the pending
\* replacement.
THEOREM ContainerWorksOffline == Spec => []WorkOffline
<1>1. Init => Offline
  BY DEF Init, Offline, Isolated, NoneUp, Body
<1>2. RunInv /\ EnvTypeOK /\ Offline /\ [Next]_vars => Offline'
  BY NextKeepsOffline
<1>3. Offline => WorkOffline
  BY DEF Offline, Told, Isolated, Missed, Drained, WorkOffline
<1>4. QED
  BY RunInvariant, <1>1, <1>2, <1>3, PTL DEF Spec, Safe

=============================================================================
