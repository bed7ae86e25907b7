--------------------------- MODULE RunnerScalerProofs ---------------------------
(***************************************************************************)
(* What RunnerScaler guarantees for every number of jobs, runners and      *)
(* repositories, every configuration and any faults.                       *)
(***************************************************************************)
EXTENDS RunnerScaler, FiniteSetTheorems, WellFoundedInduction, TLAPS

\* A child that has its dispatch's answer left no request under way, and the
\* runner of a child or of Nomad serves a bucket.
ChildInv ==
  /\ \A r \in Runners : pc[r] \in {"WaitRunnerDone", "ReapRunner"} => ~sent[r]
  /\ \A r \in Runners : r \in Live => slot[r] \in Buckets

TypeInv == TypeOK /\ ChildInv

\* A child reaps a runner that it saw finished, or that it took for gone, or after
\* a wait that ended early.
ReapInv ==
  \A r \in Runners :
    pc[r] = "ReapRunner" => early[r] \/ r \in misread \/ RunnerTerminal(r)

\* The buckets whose cap BucketCap is about.
Capped == {b \in Buckets : RepoCfgs[b[1]].mode # "forgejo" /\ Limit(b) > 0}

\* What a poll is still to start keeps the cap together with what there is.
CapInv ==
  \A b \in Capped \ blind : Cardinality(LiveIn(b)) + need[b] <= Limit(b)

--------------------------------------------------------------------------------
\* Numbers.

LEMMA MaxOfTwo ==
  ASSUME NEW a \in Int, NEW b \in Int
  PROVE  Max({a, b}) = IF a >= b THEN a ELSE b
BY DEF Max

LEMMA MinOfTwo ==
  ASSUME NEW a \in Int, NEW b \in Int
  PROVE  Min({a, b}) = IF a =< b THEN a ELSE b
BY DEF Min

\* A set of naturals that is not empty has a least element.
LEMMA MinOfNaturals ==
  ASSUME NEW N \in SUBSET Nat, N # {}
  PROVE  Min(N) \in N
<1> DEFINE below == {1..n : n \in N}
<1>1. \A n \in N : 1..n \in FiniteSubsetsOf(Nat)
  <2> SUFFICES ASSUME NEW n \in N PROVE 1..n \in FiniteSubsetsOf(Nat)
    OBVIOUS
  <2>1. IsFiniteSet(1..n) /\ 1..n \subseteq Nat
    BY FS_Interval
  <2>2. QED
    BY <2>1 DEF FiniteSubsetsOf
<1>2. below \subseteq FiniteSubsetsOf(Nat) /\ below # {}
  BY <1>1
<1>3. PICK b \in below : \A c \in below : ~(<<c, b>> \in StrictSubsetOrdering(Nat))
  BY <1>2, FS_StrictSubsetOrderingWellFounded, WFMin
<1>4. PICK n \in N : b = 1..n
  OBVIOUS
<1>5. ASSUME NEW m \in N, m < n PROVE FALSE
  <2>1. <<1..m, 1..n>> \in StrictSubsetOrdering(Nat)
    BY <1>5 DEF StrictSubsetOrdering
  <2>2. QED
    BY <1>3, <1>4, <2>1
<1>6. \A m \in N : n =< m
  BY <1>5
<1>7. QED
  BY <1>6 DEF Min

--------------------------------------------------------------------------------
\* The configuration.

LEMMA ElementsOfSequence ==
  ASSUME NEW S, NEW s \in Seq(S)
  PROVE  DOMAIN s \subseteq Nat /\ \A n \in DOMAIN s : s[n] \in S
<1>1. DOMAIN s = 1..Len(s)
  OBVIOUS
<1>2. QED
  BY <1>1

\* The rule of a bucket is one of its repository's, or the default; either way
\* its runners are counted.
LEMMA RuleOfBucket ==
  ASSUME NEW b \in Buckets
  PROVE  /\ b[1] \in Repos /\ b = <<b[1], b[2]>>
         /\ Rule(b).maxConcurrent \in Int
         /\ Rule(b).job \in {RunnerJobID} \cup profileJobs
<1> DEFINE profiles == RepoCfgs[b[1]].profiles
           matching == {n \in DOMAIN profiles : profiles[n].label \in b[2]}
<1>1. b[1] \in Repos /\ b = <<b[1], b[2]>>
  <2>1. PICK j \in Jobs : b = <<RepoOf[j], LabelsOf[j]>>
    BY DEF Buckets, Bucket, RunnerBucketKey
  <2>2. b[1] = RepoOf[j] /\ b[2] = LabelsOf[j]
    BY <2>1
  <2>3. RepoOf[j] \in Repos
    BY JobsAssumption
  <2>4. QED
    BY <2>1, <2>2, <2>3, Zenon
<1>2. /\ DOMAIN profiles \subseteq Nat
      /\ \A n \in DOMAIN profiles : profiles[n] \in [label : STRING, job : STRING, maxConcurrent : Int]
  <2>1. profiles \in Seq([label : STRING, job : STRING, maxConcurrent : Int])
    BY <1>1, ConfigAssumption
  <2>2. QED
    BY <2>1, ElementsOfSequence
<1>3. Rule(b) = IF matching = {} THEN [job |-> RunnerJobID, maxConcurrent |-> 0]
                                 ELSE profiles[Min(matching)]
  BY DEF Rule, matchProfile
<1>4. CASE matching = {}
  <2>1. Rule(b) = [job |-> RunnerJobID, maxConcurrent |-> 0]
    BY <1>3, <1>4
  <2>2. Rule(b).maxConcurrent = 0 /\ Rule(b).job = RunnerJobID
    BY <2>1
  <2>3. Rule(b).maxConcurrent \in Int /\ Rule(b).job \in {RunnerJobID} \cup profileJobs
    BY <2>2
  <2>4. QED
    BY <1>1, <2>3, Zenon
<1>5. CASE matching # {}
  <2>1. Min(matching) \in DOMAIN profiles
    <3>1. matching \in SUBSET Nat
      BY <1>2
    <3>2. QED
      BY <1>5, <3>1, MinOfNaturals
  <2>2. Rule(b) = profiles[Min(matching)]
    BY <1>3, <1>5
  <2>3. Rule(b).job \in {rule.job : rule \in {profiles[i] : i \in DOMAIN profiles}}
    BY <2>1, <2>2
  <2>4. Rule(b).job \in profileJobs
    BY <1>1, <2>3 DEF profileJobs
  <2>5. QED
    BY <1>1, <1>2, <2>1, <2>2, <2>4
<1>6. QED
  BY <1>4, <1>5

LEMMA LimitInt == ASSUME NEW b \in Buckets PROVE Limit(b) \in Int
<1>1. Rule(b).maxConcurrent \in Int /\ RepoCfgs[b[1]].maxConcurrent \in Int
  BY RuleOfBucket, ConfigAssumption
<1>2. QED
  BY <1>1 DEF Limit

--------------------------------------------------------------------------------
\* Counting.

LEMMA RunnersFinite == ASSUME NEW S \in SUBSET Runners PROVE IsFiniteSet(S) /\ Cardinality(S) \in Nat
<1>1. IsFiniteSet(S)
  BY BoundsAssumption, FS_Subset
<1>2. QED
  BY <1>1, FS_CardinalityType

LEMMA CountNat ==
  ASSUME NEW seen \in SUBSET Runners, NEW b
  PROVE  CountActiveRunners(seen, b) \in Nat
<1> DEFINE counted == {r \in ActiveRunnerSlots(seen) :
                         RunnerBucketKey(repoFromURL(repoURL(slot[r])), slot[r][2]) = b}
<1>1. counted \in SUBSET Runners
  BY DEF ActiveRunnerSlots
<1>2. Cardinality(counted) \in Nat
  BY <1>1, RunnersFinite
<1>3. QED
  BY <1>2 DEF CountActiveRunners

\* What a plan starts keeps the cap with what it counted.
LEMMA ShortfallBounded ==
  ASSUME TypeOK, NEW seen \in SUBSET Runners, NEW b \in Buckets
  PROVE  /\ Shortfall(seen, b) \in Nat
         /\ Limit(b) > 0 =>
              \/ Shortfall(seen, b) = 0
              \/ Shortfall(seen, b) <= Limit(b) - CountActiveRunners(seen, b)
<1> DEFINE active == CountActiveRunners(seen, b)
           queued == Cardinality({j \in found : Bucket(j) = b})
           needed == queued - active
           e == IF Limit(b) > 0 THEN Min({needed, Limit(b) - active}) ELSE needed
<1>1. active \in Nat
  BY CountNat
<1>2. queued \in Nat
  <2>1. {j \in found : Bucket(j) = b} \in SUBSET Jobs
    BY DEF TypeOK
  <2>2. IsFiniteSet({j \in found : Bucket(j) = b})
    BY <2>1, JobsAssumption, FS_Subset
  <2>3. QED
    BY <2>2, FS_CardinalityType
<1>3. Limit(b) \in Int
  BY LimitInt
<1>4. Shortfall(seen, b) = Max({0, e})
  BY DEF Shortfall
<1> HIDE DEF active, queued
<1>5. e \in Int /\ (Limit(b) > 0 => e <= Limit(b) - active)
  BY <1>1, <1>2, <1>3, MinOfTwo
<1> HIDE DEF e
<1>6. Max({0, e}) = IF 0 >= e THEN 0 ELSE e
  BY <1>5, MaxOfTwo
<1>7. QED
  BY <1>1, <1>3, <1>4, <1>5, <1>6 DEF active

--------------------------------------------------------------------------------
\* Types.

LEMMA TypeInit == Init => TypeInv
<1> SUFFICES ASSUME Init PROVE TypeInv
  OBVIOUS
<1>1. TypeOK
  BY BoundsAssumption DEF Init, TypeOK
<1>2. ChildInv
  BY DEF Init, ChildInv, Live, Unseen, Active
<1>3. QED
  BY <1>1, <1>2 DEF TypeInv

LEMMA FaultTyped == ASSUME TypeOK, NEW kind, Fault(kind) PROVE faults' \in 0..MaxFaults
BY BoundsAssumption DEF TypeOK, Fault

LEMMA PollTyped ==
  ASSUME TypeInv, PollAndDispatch \/ PollFails
  PROVE  TypeInv'
<1> USE DEF TypeInv, TypeOK, ChildInv, Live, Unseen, Active, runner, child
<1>1. CASE LoadConfig
  BY <1>1 DEF LoadConfig
<1>2. CASE CountAndPlan
  <2>1. PICK missed \in SUBSET Active :
          /\ IF missed = {} THEN UNCHANGED faults ELSE Cardinality(missed) = 1 /\ Fault("info")
          /\ need' = [b \in Buckets |-> Shortfall(Active \ missed, b)]
          /\ blind' = {slot[r] : r \in Unseen \cup missed} \cup {b \in blind : OverCap(b)}
    BY <1>2 DEF CountAndPlan
  <2>2. faults' \in 0..MaxFaults
    BY <2>1, FaultTyped
  <2>3. need' \in [Buckets -> Nat]
    <3>1. Active \ missed \in SUBSET Runners
      OBVIOUS
    <3>2. \A b \in Buckets : Shortfall(Active \ missed, b) \in Nat
      BY <3>1, ShortfallBounded
    <3>3. QED
      BY <2>1, <3>2
  <2>4. blind' \subseteq Buckets
    <3>1. \A r \in Unseen \cup missed : slot[r] \in Buckets
      BY <2>1
    <3>2. QED
      BY <2>1, <3>1
  <2>5. QED
    BY <1>2, <2>2, <2>3, <2>4 DEF CountAndPlan
<1>3. CASE PollComplete
  BY <1>3 DEF PollComplete
<1>4. ASSUME NEW repo \in Repos, ListQueuedJobs(repo) PROVE TypeInv'
  <2>1. faults' \in 0..MaxFaults
    BY <1>4, FaultTyped DEF ListQueuedJobs
  <2>2. QED
    BY <1>4, <2>1 DEF ListQueuedJobs
<1>5. ASSUME NEW b \in Buckets, StartFails(b) PROVE TypeInv'
  <2>1. faults' \in 0..MaxFaults
    BY <1>5, FaultTyped DEF StartFails
  <2>2. QED
    BY <1>5, <2>1 DEF StartFails
<1>6. ASSUME NEW b \in Buckets, NEW r \in Runners, startRunnerChild(r, b) PROVE TypeInv'
  <2>1. TypeOK'
    BY <1>6 DEF startRunnerChild
  <2>2. ChildInv'
    BY <1>6 DEF startRunnerChild
  <2>3. QED
    BY <2>1, <2>2
<1>7. CASE PollFails
  <2>1. faults' \in 0..MaxFaults
    BY <1>7, FaultTyped DEF PollFails
  <2>2. QED
    BY <1>7, <2>1 DEF PollFails
<1>8. QED
  BY <1>1, <1>2, <1>3, <1>4, <1>5, <1>6, <1>7 DEF PollAndDispatch

LEMMA HandleRunnerTyped ==
  ASSUME TypeInv, NEW r \in Runners, HandleRunner(r)
  PROVE  TypeInv'
<1> USE DEF TypeInv, TypeOK, ChildInv, Live, Unseen, Active, Await, ReturnError, child, poll
<1>1. CASE DispatchReturns(r)
  BY <1>1 DEF DispatchReturns
<1>2. CASE DispatchFails(r)
  <2>1. faults' \in 0..MaxFaults /\ sent' \in [Runners -> BOOLEAN]
    BY <1>2, FaultTyped DEF DispatchFails
  <2>2. TypeOK'
    BY <1>2, <2>1 DEF DispatchFails
  <2>3. \A q \in Runners : sent'[q] => sent[q]
    BY <1>2 DEF DispatchFails
  <2>4. ChildInv'
    BY <1>2, <2>3 DEF DispatchFails
  <2>5. QED
    BY <2>2, <2>4
<1>3. CASE WaitRunnerDone(r)
  <2>1. faults' \in 0..MaxFaults /\ misread' \subseteq Runners
    BY <1>3, FaultTyped DEF WaitRunnerDone, IsJobNotFound
  <2>2. QED
    BY <1>3, <2>1 DEF WaitRunnerDone, AfterWait
<1>4. CASE WaitEndsEarly(r)
  <2>1. faults' \in 0..MaxFaults
    BY <1>4, FaultTyped DEF WaitEndsEarly
  <2>2. QED
    BY <1>4, <2>1 DEF WaitEndsEarly, AfterWait
<1>5. CASE StopJob(r)
  BY <1>5 DEF StopJob
<1>6. CASE ReapRunner(r)
  BY <1>6 DEF ReapRunner
<1>7. CASE ReapFails(r)
  <2>1. faults' \in 0..MaxFaults
    BY <1>7, FaultTyped DEF ReapFails
  <2>2. QED
    BY <1>7, <2>1 DEF ReapFails
<1>8. CASE ReapMisread(r)
  <2>1. faults' \in 0..MaxFaults /\ misread' \subseteq Runners
    BY <1>8, FaultTyped DEF ReapMisread, IsJobNotFound
  <2>2. QED
    BY <1>8, <2>1 DEF ReapMisread
<1>9. QED
  BY <1>1, <1>2, <1>3, <1>4, <1>5, <1>6, <1>7, <1>8 DEF HandleRunner

LEMMA OthersTyped ==
  ASSUME TypeInv,
         \/ \E r \in Runners : DispatchRunner(r) \/ Runner(r) \/ Cancel(r)
         \/ \E j \in Jobs : QueueJob(j)
  PROVE  TypeInv'
<1> USE DEF TypeInv, TypeOK, ChildInv, Live, Unseen, Active, runner, child, poll
<1>1. ASSUME NEW r \in Runners, DispatchRunner(r) PROVE TypeInv'
  BY <1>1 DEF DispatchRunner
<1>2. ASSUME NEW r \in Runners, Place(r) PROVE TypeInv'
  <2>1. faults' \in 0..MaxFaults /\ wedged' \subseteq Runners
    BY <1>2, FaultTyped DEF Place
  <2>2. QED
    BY <1>2, <2>1 DEF Place
<1>3. ASSUME NEW r \in Runners, NEW j \in Jobs, Claim(r, j) PROVE TypeInv'
  BY <1>3 DEF Claim
<1>4. ASSUME NEW r \in Runners, Finish(r) PROVE TypeInv'
  <2>1. faults' \in 0..MaxFaults
    BY <1>4, FaultTyped DEF Finish
  <2>2. QED
    BY <1>4, <2>1 DEF Finish
<1>5. ASSUME NEW r \in Runners, Cancel(r) PROVE TypeInv'
  <2>1. faults' \in 0..MaxFaults
    BY <1>5, FaultTyped DEF Cancel
  <2>2. QED
    BY <1>5, <2>1 DEF Cancel
<1>6. ASSUME NEW j \in Jobs, QueueJob(j) PROVE TypeInv'
  <2>1. faults' \in 0..MaxFaults
    BY <1>6, FaultTyped DEF QueueJob
  <2>2. QED
    BY <1>6, <2>1 DEF QueueJob
<1>7. QED
  BY <1>1, <1>2, <1>3, <1>4, <1>5, <1>6 DEF Runner

LEMMA TypeStep == TypeInv /\ [Next]_vars => TypeInv'
<1> SUFFICES ASSUME TypeInv, [Next]_vars PROVE TypeInv'
  OBVIOUS
<1>1. CASE Next
  BY <1>1, PollTyped, HandleRunnerTyped, OthersTyped DEF Next
<1>2. CASE UNCHANGED vars
  BY <1>2 DEF vars, poll, child, TypeInv, TypeOK, ChildInv, Live, Unseen, Active
<1>3. QED
  BY <1>1, <1>2

LEMMA TypeInvariant == Spec => []TypeInv
<1>1. QED
  BY TypeInit, TypeStep, PTL DEF Spec

\* The variables of the poll, the children, Nomad and the forge keep their types.
THEOREM TypeCorrect == Spec => []TypeOK
<1>1. TypeInv => TypeOK
  BY DEF TypeInv
<1>2. QED
  BY <1>1, TypeInvariant, PTL

--------------------------------------------------------------------------------
\* Orphans and reaps.

LEMMA ChildrenStep ==
  ASSUME TypeInv, NEW r \in Runners, HandleRunner(r)
  PROVE  /\ OrphanIsReported => OrphanIsReported'
         /\ ReapInv => ReapInv'
         /\ ReapInv => \A q \in Runners :
              alloc[q] \in {"registered", "active"} /\ alloc'[q] = "purged" => early[q] \/ q \in misread
<1> USE DEF TypeInv, TypeOK, ChildInv, OrphanIsReported, ReapInv, Live, Unseen, Active,
            RunnerTerminal, Await, ReturnError, child, poll
<1>1. CASE DispatchReturns(r)
  BY <1>1 DEF DispatchReturns
<1>2. CASE DispatchFails(r)
  <2>1. \A q \in Runners : sent'[q] => sent[q]
    BY <1>2 DEF DispatchFails
  <2>2. QED
    BY <1>2, <2>1 DEF DispatchFails
<1>3. CASE WaitRunnerDone(r)
  BY <1>3 DEF WaitRunnerDone, IsJobNotFound, AfterWait
<1>4. CASE WaitEndsEarly(r)
  BY <1>4 DEF WaitEndsEarly, AfterWait
<1>5. CASE StopJob(r)
  BY <1>5 DEF StopJob
<1>6. CASE ReapRunner(r)
  BY <1>6 DEF ReapRunner
<1>7. CASE ReapFails(r)
  BY <1>7 DEF ReapFails
<1>8. CASE ReapMisread(r)
  BY <1>8 DEF ReapMisread, IsJobNotFound
<1>9. QED
  BY <1>1, <1>2, <1>3, <1>4, <1>5, <1>6, <1>7, <1>8 DEF HandleRunner

LEMMA OthersStep ==
  ASSUME TypeInv,
         \/ PollAndDispatch \/ PollFails
         \/ \E r \in Runners : DispatchRunner(r) \/ Runner(r) \/ Cancel(r)
         \/ \E j \in Jobs : QueueJob(j)
  PROVE  /\ OrphanIsReported => OrphanIsReported'
         /\ ReapInv => ReapInv'
         /\ \A q \in Runners :
              ~(alloc[q] \in {"registered", "active"} /\ alloc'[q] = "purged")
<1> USE DEF TypeInv, TypeOK, ChildInv, OrphanIsReported, ReapInv, Live, Unseen, Active,
            RunnerTerminal, child, poll, runner
<1>1. CASE LoadConfig \/ CountAndPlan \/ PollComplete \/ PollFails
  BY <1>1 DEF LoadConfig, CountAndPlan, PollComplete, PollFails
<1>2. CASE \E repo \in Repos : ListQueuedJobs(repo)
  BY <1>2 DEF ListQueuedJobs
<1>3. ASSUME NEW b \in Buckets, StartFails(b) \/ \E r \in Runners : startRunnerChild(r, b)
      PROVE  /\ OrphanIsReported => OrphanIsReported'
             /\ ReapInv => ReapInv'
             /\ \A q \in Runners :
                  ~(alloc[q] \in {"registered", "active"} /\ alloc'[q] = "purged")
  <2>1. CASE StartFails(b)
    BY <2>1 DEF StartFails
  <2>2. ASSUME NEW r \in Runners, startRunnerChild(r, b)
        PROVE  /\ OrphanIsReported => OrphanIsReported'
               /\ ReapInv => ReapInv'
               /\ \A q \in Runners :
                    ~(alloc[q] \in {"registered", "active"} /\ alloc'[q] = "purged")
    BY <2>2 DEF startRunnerChild, Free
  <2>3. QED
    BY <1>3, <2>1, <2>2
<1>4. ASSUME NEW r \in Runners, DispatchRunner(r) \/ Runner(r) \/ Cancel(r)
      PROVE  /\ OrphanIsReported => OrphanIsReported'
             /\ ReapInv => ReapInv'
             /\ \A q \in Runners :
                  ~(alloc[q] \in {"registered", "active"} /\ alloc'[q] = "purged")
  <2>1. CASE DispatchRunner(r)
    BY <2>1 DEF DispatchRunner
  <2>2. CASE Place(r)
    BY <2>2 DEF Place
  <2>3. CASE Finish(r)
    BY <2>3 DEF Finish
  <2>4. CASE \E j \in Jobs : Claim(r, j)
    BY <2>4 DEF Claim
  <2>5. CASE Cancel(r)
    BY <2>5 DEF Cancel
  <2>6. QED
    BY <1>4, <2>1, <2>2, <2>3, <2>4, <2>5 DEF Runner
<1>5. CASE \E j \in Jobs : QueueJob(j)
  BY <1>5 DEF QueueJob
<1>6. QED
  BY <1>1, <1>2, <1>3, <1>4, <1>5 DEF PollAndDispatch

LEMMA OrphanStep == TypeInv /\ OrphanIsReported /\ [Next]_vars => OrphanIsReported'
<1> SUFFICES ASSUME TypeInv, OrphanIsReported, [Next]_vars PROVE OrphanIsReported'
  OBVIOUS
<1>1. CASE Next
  BY <1>1, ChildrenStep, OthersStep DEF Next
<1>2. CASE UNCHANGED vars
  BY <1>2 DEF vars, child, OrphanIsReported, Live, Unseen, Active
<1>3. QED
  BY <1>1, <1>2

LEMMA ReapStep ==
  ASSUME TypeInv, ReapInv, [Next]_vars
  PROVE  /\ ReapInv'
         /\ \A r \in Runners :
              alloc[r] \in {"registered", "active"} /\ alloc'[r] = "purged"
                => early[r] \/ r \in misread
<1>1. CASE Next
  BY <1>1, ChildrenStep, OthersStep DEF Next
<1>2. CASE UNCHANGED vars
  BY <1>2 DEF vars, child, ReapInv, RunnerTerminal
<1>3. QED
  BY <1>1, <1>2

\* A runner that no child looks after was left by one that reported an error, or
\* that misread one as "not found".
THEOREM OrphansAreReported == Spec => []OrphanIsReported
<1>1. Init => OrphanIsReported
  BY DEF Init, OrphanIsReported, Live, Unseen, Active
<1>2. QED
  BY <1>1, OrphanStep, TypeInvariant, PTL DEF Spec

\* Only a child whose wait ended early, or that misread an error as "not found",
\* reaps a runner that is not done.
THEOREM ReapsFinishedOnly == Spec => ReapsOnlyFinished
<1>1. Init => ReapInv
  BY DEF Init, ReapInv
<1>2. TypeInv /\ ReapInv /\ [Next]_vars => ReapInv'
  BY ReapStep
<1>3. TypeInv /\ ReapInv /\ [Next]_vars =>
        [\A r \in Runners :
           (alloc[r] \in {"registered", "active"} /\ alloc'[r] = "purged")
             => early[r] \/ r \in misread]_vars
  BY ReapStep
<1>4. QED
  BY <1>1, <1>2, <1>3, TypeInvariant, PTL DEF Spec, ReapsOnlyFinished

--------------------------------------------------------------------------------
\* The cap.

\* A step that adds no runner to a bucket, and plans no more, keeps the cap.
LEMMA CapKept ==
  ASSUME TypeInv, TypeInv', CapInv, blind' = blind,
         NEW b \in Capped \ blind,
         need'[b] <= need[b],
         \A r \in LiveIn(b)' : r \in LiveIn(b)
  PROVE  Cardinality(LiveIn(b)') + need'[b] <= Limit(b)
<1>1. LiveIn(b) \in SUBSET Runners /\ LiveIn(b)' \in SUBSET LiveIn(b)
  BY DEF LiveIn, Live, Unseen, Active
<1>2. IsFiniteSet(LiveIn(b)) /\ Cardinality(LiveIn(b)) \in Nat
  BY <1>1, RunnersFinite
<1>3. Cardinality(LiveIn(b)') <= Cardinality(LiveIn(b)) /\ Cardinality(LiveIn(b)') \in Nat
  BY <1>1, <1>2, FS_Subset, FS_CardinalityType
<1>4. need[b] \in Nat /\ need'[b] \in Nat /\ Limit(b) \in Int
  BY LimitInt DEF Capped, TypeInv, TypeOK
<1>5. Cardinality(LiveIn(b)) + need[b] <= Limit(b)
  BY DEF CapInv
<1>6. QED
  BY <1>2, <1>3, <1>4, <1>5

\* A count that misses none of a GitHub bucket's runners counts all of them.
LEMMA CountsLive ==
  ASSUME TypeInv, NEW b \in Capped, NEW seen \in SUBSET Active,
         \A r \in LiveIn(b) : r \in seen
  PROVE  Cardinality(LiveIn(b)) <= CountActiveRunners(seen, b)
<1> DEFINE counted == {r \in ActiveRunnerSlots(seen) :
                         RunnerBucketKey(repoFromURL(repoURL(slot[r])), slot[r][2]) = b}
<1>1. ASSUME NEW r \in LiveIn(b) PROVE r \in counted
  <2>1. r \in seen /\ slot[r] = b
    BY <1>1 DEF LiveIn
  <2>2. b \in Buckets /\ RepoCfgs[b[1]].mode # "forgejo"
    BY DEF Capped
  <2>3. Rule(b).job \in {RunnerJobID} \cup profileJobs /\ b = <<b[1], b[2]>>
    BY <2>2, RuleOfBucket
  <2>4. repoFromURL(repoURL(b)) = b[1]
    BY <2>2 DEF repoFromURL, repoURL
  <2>5. r \in ActiveRunnerSlots(seen)
    BY <2>1, <2>3 DEF ActiveRunnerSlots
  <2>6. RunnerBucketKey(repoFromURL(repoURL(slot[r])), slot[r][2]) = b
    BY <2>1, <2>3, <2>4 DEF RunnerBucketKey
  <2>7. QED
    BY <2>5, <2>6
<1>2. counted \in SUBSET Runners
  BY DEF ActiveRunnerSlots, Active
<1>3. IsFiniteSet(counted)
  BY <1>2, RunnersFinite
<1>4. Cardinality(LiveIn(b)) <= Cardinality(counted)
  BY <1>1, <1>3, FS_Subset
<1>5. QED
  BY <1>4 DEF CountActiveRunners

LEMMA CountAndPlanCapped ==
  ASSUME TypeInv, CapInv, CountAndPlan, NEW b \in Capped \ blind'
  PROVE  Cardinality(LiveIn(b)') + need'[b] <= Limit(b)
<1>1. PICK missed \in SUBSET Active :
        /\ need' = [c \in Buckets |-> Shortfall(Active \ missed, c)]
        /\ blind' = {slot[r] : r \in Unseen \cup missed} \cup {c \in blind : OverCap(c)}
  BY DEF CountAndPlan
<1> DEFINE seen == Active \ missed
           count == CountActiveRunners(seen, b)
           live == Cardinality(LiveIn(b))
<1>2. b \in Buckets /\ Limit(b) > 0 /\ Limit(b) \in Int
  BY LimitInt DEF Capped
<1>3. LiveIn(b)' = LiveIn(b)
  BY DEF CountAndPlan, runner, child, LiveIn, Live, Unseen, Active
<1>4. LiveIn(b) \in SUBSET Runners /\ seen \in SUBSET Runners /\ seen \in SUBSET Active
  BY DEF LiveIn, Live, Unseen, Active
<1>5. live \in Nat /\ count \in Nat
  BY <1>4, RunnersFinite, CountNat
<1>6. live <= count
  <2>1. \A r \in LiveIn(b) : r \in seen
    BY <1>1 DEF LiveIn, Live
  <2>2. QED
    BY <1>4, <2>1, CountsLive
<1>7. live <= Limit(b)
  <2>1. CASE b \in blind
    BY <1>1, <1>2, <1>5, <2>1 DEF OverCap
  <2>2. CASE b \notin blind
    <3>1. Cardinality(LiveIn(b)) + need[b] <= Limit(b) /\ need[b] \in Nat
      BY <1>2, <2>2 DEF CapInv, TypeInv, TypeOK
    <3>2. QED
      BY <1>2, <1>5, <3>1
  <2>3. QED
    BY <2>1, <2>2
<1>8. need'[b] = Shortfall(seen, b)
  BY <1>1, <1>2
<1>9. /\ Shortfall(seen, b) \in Nat
      /\ Shortfall(seen, b) = 0 \/ Shortfall(seen, b) <= Limit(b) - count
  BY <1>2, <1>4, ShortfallBounded DEF TypeInv
<1> HIDE DEF seen, count, live
<1>10. live + need'[b] <= Limit(b)
  BY <1>2, <1>5, <1>6, <1>7, <1>8, <1>9
<1>11. QED
  BY <1>3, <1>10 DEF live

LEMMA StartCapped ==
  ASSUME TypeInv, TypeInv', CapInv, NEW c \in Buckets, NEW r \in Runners, startRunnerChild(r, c),
         NEW b \in Capped \ blind'
  PROVE  Cardinality(LiveIn(b)') + need'[b] <= Limit(b)
<1>1. blind' = blind /\ b \in Buckets /\ r \notin Live
  BY DEF startRunnerChild, Capped, Free, Live, Unseen, Active
<1>2. CASE b # c
  <2>1. need'[b] <= need[b]
    BY <1>1, <1>2 DEF startRunnerChild, TypeInv, TypeOK
  <2>2. \A q \in LiveIn(b)' : q \in LiveIn(b)
    BY <1>2 DEF startRunnerChild, LiveIn, Live, Unseen, Active, TypeInv, TypeOK
  <2>3. QED
    BY <1>1, <2>1, <2>2, CapKept
<1>3. CASE b = c
  <2>1. LiveIn(b)' = LiveIn(b) \cup {r}
    BY <1>1, <1>3 DEF startRunnerChild, LiveIn, Live, Unseen, Active, TypeInv, TypeOK
  <2>2. IsFiniteSet(LiveIn(b)) /\ Cardinality(LiveIn(b)) \in Nat /\ r \notin LiveIn(b)
    <3>1. LiveIn(b) \in SUBSET Runners
      BY DEF LiveIn, Live, Unseen, Active
    <3>2. QED
      BY <1>1, <3>1, RunnersFinite DEF LiveIn
  <2>3. Cardinality(LiveIn(b)') = Cardinality(LiveIn(b)) + 1
    BY <2>1, <2>2, FS_AddElement
  <2>4. need'[b] = need[b] - 1 /\ need[b] \in Nat
    BY <1>1, <1>3 DEF startRunnerChild, TypeInv, TypeOK
  <2>5. Cardinality(LiveIn(b)) + need[b] <= Limit(b) /\ Limit(b) \in Int
    BY <1>1, LimitInt DEF CapInv
  <2>6. QED
    BY <2>2, <2>3, <2>4, <2>5
<1>4. QED
  BY <1>2, <1>3

\* Every other step adds no runner and plans no more.
LEMMA PollAddsNone ==
  ASSUME TypeInv, NEW b \in Buckets,
         \/ LoadConfig \/ PollComplete \/ PollFails
         \/ \E repo \in Repos : ListQueuedJobs(repo)
         \/ \E c \in Buckets : StartFails(c)
  PROVE  blind' = blind /\ need'[b] <= need[b] /\ LiveIn(b)' = LiveIn(b)
<1> USE DEF LiveIn, Live, Unseen, Active, TypeInv, TypeOK, runner, child
<1>1. CASE LoadConfig \/ PollComplete \/ PollFails
  BY <1>1 DEF LoadConfig, PollComplete, PollFails
<1>2. CASE \E repo \in Repos : ListQueuedJobs(repo)
  BY <1>2 DEF ListQueuedJobs
<1>3. CASE \E c \in Buckets : StartFails(c)
  BY <1>3 DEF StartFails
<1>4. QED
  BY <1>1, <1>2, <1>3

LEMMA OthersAddNone ==
  ASSUME TypeInv, NEW b \in Buckets,
         \/ \E r \in Runners : HandleRunner(r) \/ DispatchRunner(r) \/ Runner(r) \/ Cancel(r)
         \/ \E j \in Jobs : QueueJob(j)
         \/ UNCHANGED vars
  PROVE  blind' = blind /\ need' = need /\ \A r \in LiveIn(b)' : r \in LiveIn(b)
<1> DEFINE AddsNone == blind' = blind /\ need' = need /\ \A r \in LiveIn(b)' : r \in LiveIn(b)
<1> USE DEF LiveIn, Live, Unseen, Active, TypeInv, TypeOK, runner, child, poll
<1>1. ASSUME NEW r \in Runners, HandleRunner(r) PROVE AddsNone
  <2> USE DEF Await, ReturnError
  <2>1. CASE DispatchReturns(r) \/ WaitRunnerDone(r) \/ WaitEndsEarly(r)
             \/ ReapFails(r) \/ ReapMisread(r)
    BY <2>1 DEF DispatchReturns, WaitRunnerDone, WaitEndsEarly, ReapFails, ReapMisread
  <2>2. CASE DispatchFails(r)
    <3>1. \A q \in Runners : sent'[q] => sent[q]
      BY <2>2 DEF DispatchFails
    <3>2. QED
      BY <2>2, <3>1 DEF DispatchFails
  <2>3. CASE StopJob(r)
    BY <2>3 DEF StopJob
  <2>4. CASE ReapRunner(r)
    BY <2>4 DEF ReapRunner, ChildInv
  <2>5. QED
    BY <1>1, <2>1, <2>2, <2>3, <2>4 DEF HandleRunner
<1>2. ASSUME NEW r \in Runners, DispatchRunner(r) \/ Cancel(r) PROVE AddsNone
  BY <1>2 DEF DispatchRunner, Cancel
<1>3. ASSUME NEW r \in Runners, Runner(r) PROVE AddsNone
  BY <1>3 DEF Runner, Place, Claim, Finish
<1>4. CASE \E j \in Jobs : QueueJob(j)
  BY <1>4 DEF QueueJob
<1>5. CASE UNCHANGED vars
  BY <1>5 DEF vars
<1>6. QED
  BY <1>1, <1>2, <1>3, <1>4, <1>5

LEMMA CapStep == TypeInv /\ CapInv /\ [Next]_vars => CapInv'
<1> SUFFICES ASSUME TypeInv, CapInv, [Next]_vars, NEW b \in Capped \ blind'
             PROVE  Cardinality(LiveIn(b)') + need'[b] <= Limit(b)
  BY DEF CapInv
<1>1. TypeInv' /\ b \in Buckets
  BY TypeStep DEF Capped
<1>2. CASE CountAndPlan
  BY <1>2, CountAndPlanCapped
<1>3. CASE \E c \in Buckets, r \in Runners : startRunnerChild(r, c)
  BY <1>1, <1>3, StartCapped
<1>4. ASSUME blind' = blind, need'[b] <= need[b], \A r \in LiveIn(b)' : r \in LiveIn(b)
      PROVE  Cardinality(LiveIn(b)') + need'[b] <= Limit(b)
  BY <1>1, <1>4, CapKept
<1>5. CASE \/ LoadConfig \/ PollComplete \/ PollFails
           \/ \E repo \in Repos : ListQueuedJobs(repo)
           \/ \E c \in Buckets : StartFails(c)
  <2>1. blind' = blind /\ need'[b] <= need[b] /\ LiveIn(b)' = LiveIn(b)
    BY <1>1, <1>5, PollAddsNone
  <2>2. QED
    BY <1>4, <2>1
<1>6. CASE \/ \E r \in Runners : HandleRunner(r) \/ DispatchRunner(r) \/ Runner(r) \/ Cancel(r)
           \/ \E j \in Jobs : QueueJob(j)
           \/ UNCHANGED vars
  <2>1. blind' = blind /\ need' = need /\ \A r \in LiveIn(b)' : r \in LiveIn(b)
    BY <1>1, <1>6, OthersAddNone
  <2>2. need'[b] <= need[b]
    BY <1>1, <2>1 DEF TypeInv, TypeOK
  <2>3. QED
    BY <1>4, <2>1, <2>2
<1>7. QED
  BY <1>2, <1>3, <1>5, <1>6 DEF Next, PollAndDispatch

LEMMA CapInit == Init => CapInv
<1> SUFFICES ASSUME Init, NEW b \in Capped \ blind
             PROVE  Cardinality(LiveIn(b)) + need[b] <= Limit(b)
  BY DEF CapInv
<1>1. LiveIn(b) = {}
  BY DEF Init, LiveIn, Live, Unseen, Active
<1>2. b \in Buckets /\ Limit(b) > 0 /\ Limit(b) \in Int
  BY LimitInt DEF Capped
<1>3. need[b] = 0
  BY <1>2 DEF Init
<1>4. Cardinality(LiveIn(b)) = 0
  BY <1>1, FS_EmptySet
<1>5. QED
  BY <1>2, <1>3, <1>4

\* Polls, concurrent scans, orphans and faults never add up to more runners than
\* a GitHub repository's cap, unless a count missed one.
THEOREM KeepsCap == Spec => []BucketCap
<1>1. TypeInv /\ CapInv => BucketCap
  <2> SUFFICES ASSUME TypeInv, CapInv, NEW b \in Buckets, b \notin blind,
                      RepoCfgs[b[1]].mode # "forgejo", OverCap(b)
               PROVE  FALSE
    BY DEF BucketCap
  <2>1. b \in Capped \ blind /\ Limit(b) \in Int
    BY LimitInt DEF Capped, OverCap
  <2>2. LiveIn(b) \in SUBSET Runners /\ need[b] \in Nat
    BY DEF LiveIn, Live, Unseen, Active, TypeInv, TypeOK
  <2>3. Cardinality(LiveIn(b)) \in Nat
    BY <2>2, RunnersFinite
  <2>4. Cardinality(LiveIn(b)) + need[b] <= Limit(b)
    BY <2>1 DEF CapInv
  <2>5. QED
    BY <2>1, <2>2, <2>3, <2>4 DEF OverCap
<1>2. QED
  BY <1>1, CapInit, CapStep, TypeInvariant, PTL DEF Spec

================================================================================
