--------------------------- MODULE TokenRenewerProofs ---------------------------
(***************************************************************************)
(* What TokenRenewer guarantees for every list of repositories, any number *)
(* of runs, beside each other or not, any number of attempts and any       *)
(* faults.                                                                 *)
(***************************************************************************)
EXTENDS TokenRenewer, TLAPS

Started(k) == phase[k] # "none"

\* A task works while its run does, and a run ends when its tasks have.
RunsInv ==
  /\ \A j, k \in Runs : j < k /\ Started(k) => Started(j)
  /\ \A k \in beside : Started(k)
  /\ \A l \in late : Started(l[2][1])
  /\ \A t \in Tasks :
       /\ Active(t) => phase[t[1]] = "renew"
       /\ pc[t] = "queued" => tries[t] = 0
       /\ phase[t[1]] \in {"none", "list"} => pc[t] = "queued"
       /\ phase[t[1]] = "ok" => pc[t] = "ok"

\* Task t may still change something at the forge.
Acting(t) == Open(t[1]) \/ \E l \in late : l[2] = t

\* What an earlier run does once a later one has started, it does beside it; and
\* every secret is suspect as long as such runs do anything.
Apart ==
  /\ \A t \in Tasks, k \in Runs :
       t[1] < k /\ Started(k) /\ Acting(t) => t[1] \in beside /\ k \in beside
  /\ \A t \in Tasks : t[1] \in beside /\ Acting(t) => suspect = Repos

\* A task mints and writes tokens that bear its own run, and revokes others.
Named ==
  /\ \A t \in Tasks :
       /\ pc[t] \in {"set", "search", "revoke"} =>
            hand[t] \in Tokens /\ hand[t].repo = t[2] /\ hand[t].run = t[1]
       /\ \A x \in doomed[t] : x.repo = t[2] /\ x.run # t[1]
  /\ \A l \in late :
       /\ l[3].repo = l[2][2]
       /\ l[1] = "revoke" <=> l[3].run # l[2][1]
  /\ \A x \in tokens : Started(x.run)
  /\ \A r \in Repos : secret[r] # None => secret[r].repo = r /\ Started(secret[r].run)

\* The latest run, if no other was open beside it.
Lone(k) == Started(k) /\ k \notin beside /\ \A j \in Runs : j > k => ~Started(j)

\* Nobody revokes what a lone run has minted, and it revokes only for those
\* repositories whose secret it has written.
LoneInv ==
  \A k \in Runs : Lone(k) =>
    /\ \A t \in Tasks : t[1] = k =>
         /\ pc[t] \in {"set", "search", "revoke"} => hand[t] \in tokens
         /\ pc[t] \in {"search", "revoke", "ok"} => secret[t[2]].run = k
    /\ \A r \in Repos : secret[r].run = k => secret[r] \in tokens
    /\ \A l \in late :
         /\ l[1] = "set" => l[3] \in tokens
         /\ l[1] = "revoke" => secret[l[2][2]].run = k

\* What a renewal that revokes has not yet revoked it is about to.
LeaksListed ==
  service = "sonar" =>
    \A t \in Tasks \ unrevoked :
      t[1] \notin beside =>
        \A x \in tokens : x.repo = t[2] /\ x.run < t[1] =>
          pc[t] # "ok" /\ (pc[t] = "revoke" => x \in doomed[t])

--------------------------------------------------------------------------------
\* Types.

LEMMA TasksAre ==
  /\ \A t \in Tasks : t[1] \in Runs /\ t[2] \in Repos
  /\ \A k \in Runs, r \in Repos : <<k, r>> \in Tasks
  /\ None \notin Tokens
  /\ \A x \in Tokens : x.repo \in Repos /\ x.run \in Runs
BY DEF Tasks, Tokens, None, Runs

LEMMA FaultTyped == ASSUME TypeOK, Fault PROVE faults' \in 0..MaxFaults
BY RenewerAssumption DEF TypeOK, Fault

\* The types of what a task works on.
TaskTyped ==
  /\ pc \in [Tasks -> Requests \cup {"queued", "search", "ok", "failed"}]
  /\ tries \in [Tasks -> 0..MaximumAttempts]
  /\ \A t \in Tasks : Active(t) => tries[t] < MaximumAttempts
  /\ hand \in [Tasks -> Tokens \cup {None}]
  /\ doomed \in [Tasks -> SUBSET Tokens]

LEMMA BecomesTyped ==
  ASSUME TypeOK, NEW t \in Tasks, NEW next \in Requests \cup {"search", "ok", "failed"},
         NEW n \in 0..MaximumAttempts, next \notin {"ok", "failed"} => n < MaximumAttempts,
         NEW x \in Tokens \cup {None}, NEW rest \in SUBSET Tokens,
         Becomes(t, next, n, x, rest)
  PROVE  TaskTyped'
<1> USE DEF TypeOK, TaskTyped, Becomes
<1>1. /\ pc' \in [Tasks -> Requests \cup {"queued", "search", "ok", "failed"}]
      /\ tries' \in [Tasks -> 0..MaximumAttempts]
      /\ hand' \in [Tasks -> Tokens \cup {None}]
      /\ doomed' \in [Tasks -> SUBSET Tokens]
  OBVIOUS
<1>2. \A u \in Tasks : Active(u)' => tries'[u] < MaximumAttempts
  BY DEF Active, Requests
<1>3. QED
  BY <1>1, <1>2

LEMMA GoesTyped ==
  ASSUME TypeOK, NEW t \in Tasks, Active(t)
  PROVE  /\ \A next \in {"set", "search", "revoke"}, x \in Tokens \cup {None}, rest \in SUBSET Tokens :
              Goes(t, next, x, rest) => TaskTyped'
         /\ Renewed(t) => TaskTyped'
<1>1. tries[t] \in 0..MaximumAttempts /\ tries[t] < MaximumAttempts /\ hand[t] \in Tokens \cup {None}
  BY DEF TypeOK
<1>2. \A next \in {"set", "search", "revoke"}, x \in Tokens \cup {None}, rest \in SUBSET Tokens :
        Goes(t, next, x, rest) => TaskTyped'
  BY <1>1, BecomesTyped DEF Goes, Requests
<1>3. Renewed(t) => TaskTyped'
  BY <1>1, BecomesTyped DEF Renewed, Goes
<1>4. QED
  BY <1>2, <1>3, Zenon

LEMMA EndsTyped ==
  ASSUME TypeOK, NEW t \in Tasks, Active(t), (Retriable(t) /\ Retried(t)) \/ GivenUp(t)
  PROVE  TaskTyped'
<1>1. tries[t] \in Nat /\ tries[t] + 1 \in 0..MaximumAttempts
  BY RenewerAssumption DEF TypeOK
<1>2. CASE Retriable(t) /\ Retried(t)
  BY <1>1, <1>2, BecomesTyped DEF Retriable, Retried, Requests
<1>3. CASE GivenUp(t)
  BY <1>1, <1>3, BecomesTyped DEF GivenUp
<1>4. QED
  BY <1>2, <1>3

LEMMA EffectTyped ==
  ASSUME TypeOK, NEW request \in Requests, NEW x \in Tokens, Effect(request, x)
  PROVE  tokens' \subseteq Tokens /\ secret' \in [Repos -> Tokens \cup {None}]
BY TasksAre DEF TypeOK, Effect, Requests

LEMMA TypeInit == Init => TypeOK
BY RenewerAssumption DEF Init, TypeOK, Active, Requests, Tasks

LEMMA TypeStep == ASSUME TypeOK, RunsInv, Named, [Next]_vars PROVE TypeOK'
<1> USE DEF TypeOK, TaskTyped, workflow, attempt, remote, overlaps
<1>1. ASSUME NEW k \in Runs, StartRun(k) \/ ListRepos(k) \/ ListFails(k) \/ Close(k)
      PROVE  TypeOK'
  <2>1. faults' \in 0..MaxFaults
    BY <1>1, FaultTyped DEF StartRun, ListRepos, ListFails, Close
  <2>2. phase' \in [Runs -> {"none", "list", "renew", "ok", "error"}]
    BY <1>1 DEF StartRun, ListRepos, ListFails, Close, Outcome
  <2>3. UNCHANGED <<service, attempt, remote, unrevoked>> /\ late' \subseteq late
    BY <1>1 DEF StartRun, ListRepos, ListFails, Close
  <2>4. beside' \subseteq Runs /\ suspect' \subseteq Repos
    BY <1>1 DEF StartRun, ListRepos, ListFails, Close
  <2>5. QED
    BY <2>1, <2>2, <2>3, <2>4 DEF Active
<1>2. ASSUME NEW t \in Tasks, Acquire(t) PROVE TypeOK'
  <2>1. tries[t] = 0 /\ 0 < MaximumAttempts
    BY <1>2, RenewerAssumption DEF Acquire, RunsInv
  <2>2. QED
    BY <1>2, <2>1 DEF Acquire, Active, Requests
<1>3. ASSUME NEW t \in Tasks, MintToken(t) PROVE TypeOK'
  <2>1. PICK x \in Tokens : Effect("mint", x) /\ Goes(t, "set", x, {})
    BY <1>3 DEF MintToken
  <2>2. Active(t)
    BY <1>3 DEF MintToken, Active, Requests
  <2>3. TaskTyped'
    BY <2>1, <2>2, GoesTyped
  <2>4. tokens' \subseteq Tokens /\ secret' \in [Repos -> Tokens \cup {None}]
    BY <2>1, EffectTyped DEF Requests
  <2>5. QED
    BY <1>3, <2>3, <2>4 DEF MintToken
<1>4. ASSUME NEW t \in Tasks, MintRefused(t) PROVE TypeOK'
  <2>1. TaskTyped'
    BY <1>4, EndsTyped DEF MintRefused, Active, Requests
  <2>2. QED
    BY <1>4, <2>1 DEF MintRefused
<1>5. ASSUME NEW t \in Tasks, SetRepoSecret(t) PROVE TypeOK'
  <2>1. hand[t] \in Tokens
    BY <1>5 DEF SetRepoSecret, Named
  <2>2. Active(t)
    BY <1>5 DEF SetRepoSecret, Active, Requests
  <2>3. TaskTyped'
    BY <1>5, <2>1, <2>2, GoesTyped DEF SetRepoSecret
  <2>4. tokens' \subseteq Tokens /\ secret' \in [Repos -> Tokens \cup {None}]
    BY <1>5, <2>1, EffectTyped DEF SetRepoSecret, Requests
  <2>5. QED
    BY <1>5, <2>3, <2>4 DEF SetRepoSecret
<1>6. ASSUME NEW t \in Tasks, ListTokenNames(t) PROVE TypeOK'
  <2>1. Active(t)
    BY <1>6 DEF ListTokenNames, Active
  <2>2. Prior(t) \in SUBSET Tokens /\ hand[t] \in Tokens \cup {None}
    BY DEF Prior
  <2>3. TaskTyped'
    BY <1>6, <2>1, <2>2, GoesTyped DEF ListTokenNames
  <2>4. QED
    BY <1>6, <2>3 DEF ListTokenNames
<1>7. ASSUME NEW t \in Tasks, NEW x, AfterRevoke(t, x), pc[t] = "revoke"
      PROVE  TaskTyped'
  <2>1. Active(t)
    BY <1>7 DEF Active, Requests
  <2>2. doomed[t] \ {x} \in SUBSET Tokens /\ hand[t] \in Tokens \cup {None}
    OBVIOUS
  <2>3. QED
    BY <1>7, <2>1, <2>2, GoesTyped DEF AfterRevoke
<1>8. ASSUME NEW t \in Tasks, NEW x \in Tokens, RevokeToken(t, x) PROVE TypeOK'
  <2>1. TaskTyped'
    BY <1>7, <1>8 DEF RevokeToken
  <2>2. tokens' \subseteq Tokens /\ secret' \in [Repos -> Tokens \cup {None}]
    BY <1>8, EffectTyped DEF RevokeToken, Requests
  <2>3. QED
    BY <1>8, <2>1, <2>2 DEF RevokeToken
<1>9. ASSUME NEW t \in Tasks, RevokingFails(t) PROVE TypeOK'
  <2>1. TaskTyped'
    <3>1. CASE pc[t] = "search" /\ Renewed(t)
      BY <3>1, GoesTyped DEF Active
    <3>2. CASE pc[t] = "revoke" /\ \E x \in doomed[t] : AfterRevoke(t, x)
      BY <1>7, <3>2
    <3>3. QED
      BY <1>9, <3>1, <3>2 DEF RevokingFails
  <2>2. faults' \in 0..MaxFaults
    BY <1>9, FaultTyped DEF RevokingFails
  <2>3. QED
    BY <1>9, <2>1, <2>2 DEF RevokingFails
<1>10. ASSUME NEW t \in Tasks, AttemptFails(t) PROVE TypeOK'
  <2>1. TaskTyped' /\ faults' \in 0..MaxFaults
    BY <1>10, EndsTyped, FaultTyped DEF AttemptFails, AttemptEnds
  <2>2. CASE UNCHANGED <<remote, late>>
    BY <1>10, <2>1, <2>2 DEF AttemptFails
  <2>3. ASSUME NEW x \in Tokens, Sends(t, x),
               \/ Effect(pc[t], x) /\ UNCHANGED late
               \/ late' = late \cup {<<pc[t], t, x>>} /\ UNCHANGED remote
        PROVE  TypeOK'
    <3>1. pc[t] \in Requests
      BY <2>3 DEF Sends
    <3>2. /\ tokens' \subseteq Tokens /\ secret' \in [Repos -> Tokens \cup {None}]
          /\ late' \subseteq Requests \X Tasks \X Tokens
      BY <2>3, <3>1, EffectTyped
    <3>3. QED
      BY <1>10, <2>1, <3>2 DEF AttemptFails
  <2>4. QED
    BY <1>10, <2>2, <2>3, Zenon DEF AttemptFails
<1>11. ASSUME NEW l \in late, Late(l) PROVE TypeOK'
  <2>1. l[1] \in Requests /\ l[3] \in Tokens
    OBVIOUS
  <2>2. tokens' \subseteq Tokens /\ secret' \in [Repos -> Tokens \cup {None}]
    BY <1>11, <2>1, EffectTyped DEF Late
  <2>3. QED
    BY <1>11, <2>2 DEF Late, Active
<1>12. CASE UNCHANGED vars
  BY <1>12 DEF vars, Active
<1>13. QED
  BY <1>1, <1>2, <1>3, <1>4, <1>5, <1>6, <1>8, <1>9, <1>10, <1>11, <1>12 DEF Next, Renew

--------------------------------------------------------------------------------
\* Runs and their tasks.

TaskStep(t) == Renew(t) \/ RevokingFails(t) \/ AttemptFails(t)
RunStep(k) == StartRun(k) \/ ListRepos(k) \/ ListFails(k) \/ Close(k)

\* A step of a task changes nothing of another, of a run, or of what a run is beside.
LEMMA TaskStepLocal ==
  ASSUME TypeOK, RunsInv, NEW t \in Tasks, TaskStep(t)
  PROVE  /\ UNCHANGED <<service, phase, beside>>
         /\ \A u \in Tasks \ {t} :
              pc'[u] = pc[u] /\ tries'[u] = tries[u] /\ hand'[u] = hand[u] /\ doomed'[u] = doomed[u]
         /\ phase[t[1]] = "renew"
         /\ pc'[t] \in Requests \cup {"search", "ok", "failed"}
<1> USE DEF TypeOK, workflow, overlaps, Becomes, Goes, Renewed, Retried, GivenUp
<1> DEFINE Local == /\ UNCHANGED <<service, phase, beside>>
                    /\ \A u \in Tasks \ {t} : /\ pc'[u] = pc[u] /\ tries'[u] = tries[u]
                                              /\ hand'[u] = hand[u] /\ doomed'[u] = doomed[u]
                    /\ pc'[t] \in Requests \cup {"search", "ok", "failed"}
<1>1. CASE Acquire(t)
  BY <1>1 DEF Acquire, Requests
<1>2. phase[t[1]] = "renew" \/ Active(t)
  BY DEF TaskStep, Renew, Acquire, MintToken, MintRefused, SetRepoSecret, ListTokenNames,
         RevokeToken, RevokingFails, AttemptFails, Active, Requests
<1>3. phase[t[1]] = "renew"
  BY <1>2 DEF RunsInv
<1>4. CASE MintToken(t) \/ MintRefused(t) \/ SetRepoSecret(t)
  <2>1. Local
    BY <1>4 DEF MintToken, MintRefused, SetRepoSecret, Requests
  <2>2. QED
    BY <1>3, <2>1
<1>5. CASE ListTokenNames(t) \/ RevokingFails(t) \/ \E x \in Tokens : RevokeToken(t, x)
  <2>1. Local
    BY <1>5 DEF ListTokenNames, RevokingFails, RevokeToken, AfterRevoke, Requests
  <2>2. QED
    BY <1>3, <2>1
<1>6. CASE AttemptFails(t)
  <2>1. Local
    BY <1>6 DEF AttemptFails, AttemptEnds, Requests
  <2>2. QED
    BY <1>3, <2>1
<1>7. QED
  BY <1>1, <1>4, <1>5, <1>6 DEF TaskStep, Renew

\* A step of a run changes nothing of its tasks, nor at the forge.
LEMMA RunStepLocal ==
  ASSUME TypeOK, NEW k \in Runs, RunStep(k)
  PROVE  /\ UNCHANGED <<service, attempt, late, remote, unrevoked>>
         /\ \A j \in Runs \ {k} : phase'[j] = phase[j]
         /\ phase'[k] # "none"
         /\ phase'[k] = "list" => phase[k] = "none"
         /\ \A j \in Runs : Started(j) => Started(j)'
BY DEF RunStep, StartRun, ListRepos, ListFails, Close, Outcome, TypeOK, Started

LEMMA RunsStep == ASSUME TypeOK, TypeOK', RunsInv, [Next]_vars PROVE RunsInv'
<1> USE DEF TypeOK, RunsInv, Started
<1>1. ASSUME NEW t \in Tasks, TaskStep(t) PROVE RunsInv'
  <2>1. /\ UNCHANGED <<phase, beside>> /\ phase[t[1]] = "renew"
        /\ \A u \in Tasks \ {t} : pc'[u] = pc[u] /\ tries'[u] = tries[u]
        /\ pc'[t] # "queued"
    BY <1>1, TaskStepLocal DEF Requests
  <2>2. \A l \in late' : Started(l[2][1])
    <3>1. \A l \in late' : l \in late \/ l[2] = t
      BY <1>1 DEF TaskStep, Renew, Acquire, MintToken, MintRefused, SetRepoSecret,
                  ListTokenNames, RevokeToken, RevokingFails, AttemptFails
    <3>2. QED
      BY <2>1, <3>1
  <2>3. \A u \in Tasks :
          /\ Active(u)' => phase'[u[1]] = "renew"
          /\ pc'[u] = "queued" => tries'[u] = 0
          /\ phase'[u[1]] \in {"none", "list"} => pc'[u] = "queued"
          /\ phase'[u[1]] = "ok" => pc'[u] = "ok"
    BY <2>1 DEF Active
  <2>4. QED
    BY <2>1, <2>2, <2>3
<1>2. ASSUME NEW k \in Runs, RunStep(k) PROVE RunsInv'
  <2>1. /\ UNCHANGED <<attempt, late>> /\ phase'[k] # "none"
        /\ \A j \in Runs \ {k} : phase'[j] = phase[j]
        /\ phase'[k] = "list" => phase[k] = "none"
    BY <1>2, RunStepLocal
  <2>2. \A i, j \in Runs : i < j /\ Started(j)' => Started(i)'
    <3>1. phase[k] = "none" => \A j \in Runs : j < k => phase[j] # "none"
      BY <1>2 DEF RunStep, StartRun, ListRepos, ListFails, Close
    <3>2. SUFFICES ASSUME NEW i \in Runs, NEW j \in Runs, i < j, phase'[j] # "none"
                   PROVE  phase'[i] # "none"
      OBVIOUS
    <3>3. CASE i = k
      BY <2>1, <3>3
    <3>4. CASE j = k
      BY <2>1, <3>1, <3>2, <3>4
    <3>5. CASE i # k /\ j # k
      BY <2>1, <3>2, <3>5
    <3>6. QED
      BY <3>3, <3>4, <3>5
  <2>3. \A j \in beside' : Started(j)'
    BY <1>2, <2>1 DEF RunStep, StartRun, ListRepos, ListFails, Close, overlaps, Open
  <2>4. \A l \in late' : Started(l[2][1])'
    <3>1. \A l \in late : l[2] \in Tasks /\ Started(l[2][1])
      OBVIOUS
    <3>2. QED
      BY <2>1, <3>1, TasksAre
  <2>5. ASSUME NEW t \in Tasks, t[1] = k
        PROVE  /\ Active(t)' => phase'[k] = "renew"
               /\ phase'[k] = "list" => pc'[t] = "queued"
               /\ phase'[k] = "ok" => pc'[t] = "ok"
    <3>1. pc' = pc
      BY <2>1 DEF attempt
    <3>2. CASE StartRun(k) \/ ListRepos(k) \/ ListFails(k)
      BY <3>1, <3>2, <2>5 DEF StartRun, ListRepos, ListFails, Active, Requests
    <3>3. CASE Close(k)
      <4>0. PICK r \in Repos : t = <<k, r>>
        BY <2>5 DEF Tasks
      <4>1. pc[t] \in {"ok", "failed"}
        BY <3>3, <4>0 DEF Close
      <4>2. phase'[k] = Outcome(k)
        BY <3>3 DEF Close
      <4>3. phase'[k] = "ok" => pc[t] = "ok"
        <5>1. pc[t] = "failed" => Outcome(k) = "error"
          BY <4>0 DEF Outcome
        <5>2. QED
          BY <4>1, <4>2, <5>1
      <4>4. phase'[k] \in {"ok", "error"}
        BY <4>2 DEF Outcome
      <4>5. QED
        BY <3>1, <4>1, <4>3, <4>4 DEF Active, Requests
    <3>4. QED
      BY <1>2, <3>2, <3>3 DEF RunStep
  <2>6. \A t \in Tasks :
          /\ Active(t)' => phase'[t[1]] = "renew"
          /\ pc'[t] = "queued" => tries'[t] = 0
          /\ phase'[t[1]] \in {"none", "list"} => pc'[t] = "queued"
          /\ phase'[t[1]] = "ok" => pc'[t] = "ok"
    BY <2>1, <2>5, TasksAre DEF attempt, Active
  <2>7. QED
    BY <2>2, <2>3, <2>4, <2>6
<1>3. ASSUME NEW l \in late, Late(l) PROVE RunsInv'
  BY <1>3 DEF Late, workflow, attempt, overlaps, Active
<1>4. CASE UNCHANGED vars
  BY <1>4 DEF vars, workflow, attempt, overlaps, Active
<1>5. QED
  BY <1>1, <1>2, <1>3, <1>4 DEF Next, TaskStep, RunStep

--------------------------------------------------------------------------------
\* Runs beside each other.

\* What acts is the lone run, or beside another; in either case no later run has
\* started alone.
LEMMA ActingAlone ==
  ASSUME TypeOK, RunsInv, Apart, NEW t \in Tasks, Acting(t)
  PROVE  /\ Started(t[1])
         /\ t[1] \in beside => suspect = Repos
         /\ t[1] \notin beside => Lone(t[1])
         /\ \A k \in Runs : Lone(k) => t[1] = k
         /\ \A k \in Runs \ beside : Started(k) => t[1] >= k
<1>1. t[1] \in Runs /\ Started(t[1])
  BY TasksAre DEF Acting, Open, RunsInv, Started
<1>2. \A k \in Runs : t[1] < k /\ Started(k) => t[1] \in beside /\ k \in beside
  BY DEF Apart
<1>3. \A j, k \in Runs : j \in Int /\ k \in Int /\ (j < k \/ j = k \/ j > k)
  BY DEF Runs
<1>4. QED
  BY <1>1, <1>2, <1>3 DEF Lone, Apart

LEMMA ApartStep ==
  ASSUME TypeOK, TypeOK', RunsInv, RunsInv', Apart, [Next]_vars
  PROVE  Apart'
<1>1. ASSUME NEW t \in Tasks, TaskStep(t) PROVE Apart'
  <2>1. UNCHANGED <<phase, beside>> /\ Acting(t)
    BY <1>1, TaskStepLocal DEF Acting, Open
  <2>2. \A l \in late' : l \in late \/ l[2] = t
    BY <1>1 DEF TaskStep, Renew, Acquire, MintToken, MintRefused, SetRepoSecret,
                ListTokenNames, RevokeToken, RevokingFails, AttemptFails
  <2>3. \A u \in Tasks : Acting(u)' => Acting(u)
    BY <2>1, <2>2 DEF Acting, Open
  <2>4. \A u \in Tasks : u[1] \in beside /\ Acting(u) => suspect' = Repos
    <3>1. CASE suspect' = suspect
      BY <3>1 DEF Apart
    <3>2. CASE t[1] \notin beside
      <4>1. \A u \in Tasks : Acting(u) => u[1] = t[1]
        BY <2>1, <3>2, ActingAlone, TasksAre
      <4>2. QED
        BY <3>2, <4>1
    <3>3. QED
      BY <1>1, <3>1, <3>2 DEF TaskStep, Renew, Acquire, MintToken, MintRefused, SetRepoSecret,
                ListTokenNames, RevokeToken, RevokingFails, AttemptFails, overlaps
  <2>5. QED
    BY <2>1, <2>3, <2>4 DEF Apart, Started
<1>2. ASSUME NEW k \in Runs, StartRun(k) PROVE Apart'
  <2>1. /\ late' = {} /\ \A j \in Runs : (Open(j)' => Open(j) \/ j = k)
        /\ \A j \in Runs \ {k} : Started(j)' => Started(j)
        /\ \A j \in Runs : Started(j) /\ j # k => j < k
    BY <1>2 DEF StartRun, TypeOK, Open, Started, RunsInv, Runs
  <2>2. \A t \in Tasks : Acting(t)' => t[1] = k \/ Open(t[1])
    BY <2>1, TasksAre DEF Acting
  <2>3. CASE {j \in Runs : Open(j)} = {}
    <3>1. UNCHANGED overlaps /\ \A t \in Tasks : Acting(t)' => t[1] = k
      BY <1>2, <2>2, <2>3, TasksAre DEF StartRun
    <3>2. k \notin beside
      BY <1>2 DEF StartRun, RunsInv, Started
    <3>3. \A j \in Runs : Started(j)' => ~(k < j)
      BY <2>1 DEF Runs
    <3>4. QED
      BY <3>1, <3>2, <3>3 DEF Apart, overlaps
  <2>4. CASE {j \in Runs : Open(j)} # {}
    <3>1. suspect' = Repos /\ k \in beside' /\ \A j \in Runs : Open(j) \/ j \in beside => j \in beside'
      BY <1>2, <2>4 DEF StartRun
    <3>2. ASSUME NEW t \in Tasks, NEW j \in Runs, t[1] < j, Started(j)', Acting(t)'
          PROVE  t[1] \in beside' /\ j \in beside'
      <4>1. t[1] \in Runs /\ t[1] # k
        BY <2>1, <3>2, TasksAre DEF Runs
      <4>2. Open(t[1]) /\ t[1] \in beside'
        BY <2>2, <3>1, <3>2, <4>1
      <4>3. CASE j = k
        BY <3>1, <4>2, <4>3
      <4>4. CASE j # k
        BY <2>1, <3>1, <3>2, <4>2, <4>4 DEF Apart, Acting
      <4>5. QED
        BY <4>3, <4>4
    <3>3. QED
      BY <3>1, <3>2 DEF Apart
  <2>5. QED
    BY <2>3, <2>4
<1>3. ASSUME NEW k \in Runs, ListRepos(k) \/ ListFails(k) \/ Close(k) PROVE Apart'
  <2>1. /\ UNCHANGED <<late, beside, suspect>> /\ \A j \in Runs : Open(j)' => Open(j)
        /\ \A j \in Runs : Started(j)' => Started(j)
    BY <1>3 DEF ListRepos, ListFails, Close, Outcome, TypeOK, Open, Started, overlaps
  <2>2. QED
    BY <2>1, TasksAre DEF Apart, Acting
<1>4. ASSUME NEW l \in late, Late(l) PROVE Apart'
  <2>1. UNCHANGED <<phase, beside, suspect>> /\ late' \subseteq late
    BY <1>4 DEF Late, workflow, overlaps
  <2>2. QED
    BY <2>1 DEF Apart, Acting, Open, Started
<1>5. CASE UNCHANGED vars
  BY <1>5 DEF vars, workflow, overlaps, Apart, Acting, Open, Started
<1>6. QED
  BY <1>1, <1>2, <1>3, <1>4, <1>5 DEF Next, TaskStep

--------------------------------------------------------------------------------
\* What a request does to what a lone run has done.

Inv == TypeOK /\ RunsInv /\ Apart /\ Named /\ LoneInv

\* Task t makes a request about x, or one of its requests is carried out late.
Doing(request, t, x) ==
  /\ Acting(t)
  /\ x \in Tokens /\ x.repo = t[2]
  /\ request = "revoke" <=> x.run # t[1]
  /\ Lone(t[1]) => /\ request = "set" => x \in tokens
                   /\ request = "revoke" => secret[t[2]].run = t[1]

\* A step at the forge keeps the lone run's tokens, the run's secrets and their
\* validity, keeps the secrets that are not suspect valid, and adds no token of a
\* run before the latest lone one.
RemoteKept ==
  /\ \A k \in Runs : Lone(k) =>
       /\ \A y \in tokens : y.run = k => y \in tokens'
       /\ \A r \in Repos : /\ secret[r].run = k => secret'[r].run = k
                           /\ secret'[r].run = k => secret'[r] \in tokens'
  /\ SecretValid => \A r \in Repos \ suspect : secret'[r] \in tokens' \cup {None}
  /\ \A k \in Runs \ beside : Started(k) => \A y \in tokens' \ tokens : y.run >= k
  /\ \A y \in tokens' : Started(y.run)
  /\ \A r \in Repos : secret'[r] # None => secret'[r].repo = r /\ Started(secret'[r].run)

LEMMA NothingKept == ASSUME Inv, UNCHANGED remote PROVE RemoteKept
BY DEF Inv, Named, LoneInv, RemoteKept, remote, SecretValid

LEMMA SendsDoing ==
  ASSUME Inv, NEW t \in Tasks, NEW x \in Tokens, Sends(t, x)
  PROVE  Doing(pc[t], t, x)
<1> USE DEF Inv
<1>1. pc[t] \in {"mint", "set", "revoke"} /\ t[1] \in Runs
  BY TasksAre DEF Sends, Requests
<1>2. Acting(t)
  BY <1>1 DEF RunsInv, Active, Requests, Acting, Open
<1>3. x.repo = t[2] /\ (pc[t] = "revoke" <=> x.run # t[1])
  <2>1. CASE pc[t] = "mint"
    BY <2>1 DEF Sends
  <2>2. CASE pc[t] = "set"
    BY <2>2 DEF Sends, Named
  <2>3. CASE pc[t] = "revoke"
    BY <2>3 DEF Sends, Named
  <2>4. QED
    BY <1>1, <2>1, <2>2, <2>3
<1>4. Lone(t[1]) => /\ pc[t] = "set" => x \in tokens
                    /\ pc[t] = "revoke" => secret[t[2]].run = t[1]
  BY <1>1 DEF Sends, LoneInv
<1>5. QED
  BY <1>2, <1>3, <1>4 DEF Doing

LEMMA LateDoing ==
  ASSUME Inv, NEW l \in late
  PROVE  /\ l[1] \in Requests /\ l[2] \in Tasks /\ l[3] \in Tokens
         /\ Doing(l[1], l[2], l[3])
<1>1. l[1] \in Requests /\ l[2] \in Tasks /\ l[3] \in Tokens
  BY DEF Inv, TypeOK
<1>2. l[2][1] \in Runs
  BY <1>1, TasksAre
<1>3. QED
  BY <1>1, <1>2 DEF Inv, Doing, Acting, Named, LoneInv

LEMMA EffectKept ==
  ASSUME Inv, NEW request \in Requests, NEW t \in Tasks, NEW x, Doing(request, t, x),
         Effect(request, x)
  PROVE  RemoteKept
<1>1. /\ t[1] \in Runs /\ t[2] \in Repos
      /\ Acting(t) /\ x \in Tokens /\ x.repo = t[2] /\ x # None
      /\ request = "revoke" <=> x.run # t[1]
  BY TasksAre DEF Doing
<1>2. /\ Started(t[1])
      /\ t[1] \in beside => suspect = Repos
      /\ t[1] \notin beside => Lone(t[1])
      /\ \A k \in Runs : Lone(k) => t[1] = k
      /\ \A k \in Runs \ beside : Started(k) => t[1] >= k
  BY <1>1, ActingAlone DEF Inv
<1>3. Lone(t[1]) => /\ request = "set" => x \in tokens
                    /\ request = "revoke" => secret[t[2]].run = t[1]
  BY DEF Doing
<1>4. tokens \subseteq Tokens /\ secret \in [Repos -> Tokens \cup {None}]
  BY DEF Inv, TypeOK
<1>5. /\ \A y \in tokens : Started(y.run)
      /\ \A r \in Repos : secret[r] # None => secret[r].repo = r /\ Started(secret[r].run)
  BY DEF Inv, Named
<1>6. Lone(t[1]) => \A r \in Repos : secret[r].run = t[1] => secret[r] \in tokens
  BY <1>1 DEF Inv, LoneInv
<1>7. CASE request = "mint"
  <2>1. secret' = secret /\ tokens \subseteq tokens' /\ tokens' \subseteq tokens \cup {x}
    BY <1>7 DEF Effect
  <2>2. x.run = t[1]
    BY <1>1, <1>7
  <2>3. QED
    BY <1>2, <1>5, <1>6, <2>1, <2>2 DEF RemoteKept, SecretValid
<1>8. CASE request = "set"
  <2>1. tokens' = tokens /\ secret' = [secret EXCEPT ![x.repo] = x]
    BY <1>8 DEF Effect
  <2>2. x.run = t[1]
    BY <1>1, <1>8
  <2>3. \A r \in Repos : secret'[r] = IF r = t[2] THEN x ELSE secret[r]
    BY <1>1, <1>4, <2>1
  <2>4. ASSUME NEW k \in Runs, Lone(k), NEW r \in Repos
        PROVE  /\ secret[r].run = k => secret'[r].run = k
               /\ secret'[r].run = k => secret'[r] \in tokens
    BY <1>2, <1>3, <1>6, <1>8, <2>2, <2>3, <2>4
  <2>5. ASSUME SecretValid, NEW r \in Repos \ suspect PROVE secret'[r] \in tokens \cup {None}
    BY <1>2, <1>3, <1>8, <2>3, <2>5 DEF SecretValid
  <2>6. QED
    BY <1>1, <1>2, <1>5, <2>1, <2>2, <2>3, <2>4, <2>5 DEF RemoteKept
<1>9. CASE request = "revoke"
  <2>1. secret' = secret /\ tokens' = {y \in tokens : ~SameName(x, y)}
    BY <1>9 DEF Effect
  <2>2. x.run # t[1]
    BY <1>1, <1>9
  <2>3. \A y \in tokens : y.run = t[1] => y \in tokens'
    BY <2>1, <2>2 DEF SameName
  <2>4. ASSUME SecretValid, NEW r \in Repos \ suspect PROVE secret'[r] \in tokens' \cup {None}
    <3>1. Lone(t[1]) /\ secret[t[2]].run = t[1]
      BY <1>2, <1>3, <1>9, <2>4
    <3>2. secret[r] \in tokens \cup {None}
      BY <2>4 DEF SecretValid
    <3>3. CASE secret[r] = None
      BY <2>1, <3>3
    <3>4. CASE secret[r] # None
      <4>1. secret[r].repo = r
        BY <1>5, <3>4
      <4>2. ~SameName(x, secret[r])
        BY <1>1, <2>2, <3>1, <4>1 DEF SameName
      <4>3. QED
        BY <2>1, <3>2, <4>2
    <3>5. QED
      BY <3>3, <3>4
  <2>5. QED
    BY <1>2, <1>5, <1>6, <2>1, <2>3, <2>4 DEF RemoteKept
<1>10. QED
  BY <1>7, <1>8, <1>9 DEF Requests

LEMMA StepKept == ASSUME Inv, [Next]_vars PROVE RemoteKept
<1>1. CASE UNCHANGED remote
  BY <1>1, NothingKept
<1>2. ASSUME NEW t \in Tasks, NEW x \in Tokens, Sends(t, x), Effect(pc[t], x) PROVE RemoteKept
  <2>1. pc[t] \in Requests
    BY <1>2 DEF Sends
  <2>2. Doing(pc[t], t, x)
    BY <1>2, SendsDoing
  <2>3. QED
    BY <1>2, <2>1, <2>2, EffectKept
<1>3. ASSUME NEW t \in Tasks, TaskStep(t) PROVE RemoteKept
  <2>1. CASE MintToken(t)
    BY <1>2, <2>1 DEF MintToken
  <2>2. CASE SetRepoSecret(t)
    <3>1. hand[t] \in Tokens /\ Sends(t, hand[t])
      BY <2>2 DEF SetRepoSecret, Sends, Requests, Inv, Named
    <3>2. QED
      BY <1>2, <2>2, <3>1 DEF SetRepoSecret
  <2>3. CASE \E x \in Tokens : RevokeToken(t, x)
    <3>1. PICK x \in Tokens : RevokeToken(t, x)
      BY <2>3
    <3>2. Sends(t, x)
      BY <3>1 DEF RevokeToken, Sends, Requests
    <3>3. QED
      BY <1>2, <3>1, <3>2 DEF RevokeToken
  <2>4. CASE AttemptFails(t)
    BY <1>1, <1>2, <2>4, Zenon DEF AttemptFails
  <2>5. CASE Acquire(t) \/ MintRefused(t) \/ ListTokenNames(t) \/ RevokingFails(t)
    BY <1>1, <2>5 DEF Acquire, MintRefused, ListTokenNames, RevokingFails
  <2>6. QED
    BY <1>3, <2>1, <2>2, <2>3, <2>4, <2>5 DEF TaskStep, Renew
<1>4. ASSUME NEW l \in late, Late(l) PROVE RemoteKept
  <2>1. CASE Effect(l[1], l[3])
    BY <2>1, LateDoing, EffectKept
  <2>2. QED
    BY <1>1, <1>4, <2>1 DEF Late
<1>5. ASSUME NEW k \in Runs, RunStep(k) PROVE RemoteKept
  BY <1>1, <1>5, RunStepLocal DEF Inv
<1>6. CASE UNCHANGED vars
  BY <1>1, <1>6 DEF vars
<1>7. QED
  BY <1>3, <1>4, <1>5, <1>6 DEF Next, TaskStep, RunStep

--------------------------------------------------------------------------------
\* What a task has done by itself.

LEMMA OwnWork ==
  ASSUME Inv, TypeOK', NEW t \in Tasks, TaskStep(t), RemoteKept
  PROVE  /\ pc'[t] \in {"set", "search", "revoke"} =>
              hand'[t] \in Tokens /\ hand'[t].repo = t[2] /\ hand'[t].run = t[1]
         /\ \A x \in doomed'[t] : x.repo = t[2] /\ x.run # t[1]
         /\ Lone(t[1]) =>
              /\ pc'[t] \in {"set", "search", "revoke"} => hand'[t] \in tokens'
              /\ pc'[t] \in {"search", "revoke", "ok"} => secret'[t[2]].run = t[1]
<1> USE DEF Becomes, Goes, Renewed, Retried, GivenUp
<1>1. /\ t[1] \in Runs /\ t[2] \in Repos
      /\ pc \in [Tasks -> Requests \cup {"queued", "search", "ok", "failed"}]
      /\ hand \in [Tasks -> Tokens \cup {None}] /\ doomed \in [Tasks -> SUBSET Tokens]
      /\ secret \in [Repos -> Tokens \cup {None}]
  BY TasksAre DEF Inv, TypeOK
<1>2. /\ pc[t] \in {"set", "search", "revoke"} =>
           hand[t] \in Tokens /\ hand[t].repo = t[2] /\ hand[t].run = t[1]
      /\ \A x \in doomed[t] : x.repo = t[2] /\ x.run # t[1]
  BY DEF Inv, Named
<1>3. Lone(t[1]) =>
        /\ pc[t] \in {"set", "search", "revoke"} => hand[t] \in tokens'
        /\ pc[t] \in {"search", "revoke", "ok"} => secret'[t[2]].run = t[1]
  BY <1>1, <1>2 DEF Inv, LoneInv, RemoteKept
<1>4. CASE Acquire(t) \/ MintRefused(t) \/ AttemptFails(t)
  <2>1. pc'[t] \in {"mint", "failed"} /\ doomed'[t] \subseteq doomed[t]
    BY <1>1, <1>4 DEF Acquire, MintRefused, AttemptFails, AttemptEnds
  <2>2. QED
    BY <1>2, <2>1
<1>5. CASE MintToken(t)
  <2>1. PICK x \in Tokens : Sends(t, x) /\ ~Taken(x) /\ Effect("mint", x) /\ Goes(t, "set", x, {})
    BY <1>5 DEF MintToken
  <2>2. x.repo = t[2] /\ x.run = t[1]
    BY <1>5, <2>1 DEF MintToken, Sends
  <2>3. pc'[t] = "set" /\ hand'[t] = x /\ doomed'[t] = {} /\ x \in tokens'
    BY <1>1, <2>1 DEF Effect
  <2>4. QED
    BY <2>2, <2>3
<1>6. CASE SetRepoSecret(t)
  <2>1. /\ pc[t] = "set" /\ pc'[t] \in {"search", "ok"} /\ hand'[t] = hand[t] /\ doomed'[t] = {}
        /\ secret' = [secret EXCEPT ![hand[t].repo] = hand[t]]
    BY <1>1, <1>6 DEF SetRepoSecret, Effect
  <2>2. secret'[t[2]] = hand[t]
    BY <1>1, <1>2, <2>1
  <2>3. QED
    BY <1>2, <1>3, <2>1, <2>2
<1>7. CASE ListTokenNames(t)
  <2>1. \A x \in Prior(t) : x.repo = t[2] /\ x.run # t[1]
    BY <1>2, <1>7 DEF ListTokenNames, Prior, HasPrefix, SameName
  <2>2. /\ pc[t] = "search" /\ pc'[t] \in {"ok", "revoke"} /\ hand'[t] = hand[t]
        /\ doomed'[t] \subseteq Prior(t)
    BY <1>1, <1>7 DEF ListTokenNames
  <2>3. QED
    BY <1>2, <1>3, <2>1, <2>2
<1>8. CASE RevokingFails(t) \/ \E x \in Tokens : RevokeToken(t, x)
  <2>1. /\ pc[t] \in {"search", "revoke"} /\ pc'[t] \in {"ok", "revoke"} /\ hand'[t] = hand[t]
        /\ doomed'[t] \subseteq doomed[t]
    BY <1>1, <1>8 DEF RevokingFails, RevokeToken, AfterRevoke
  <2>2. QED
    BY <1>2, <1>3, <2>1
<1>9. QED
  BY <1>4, <1>5, <1>6, <1>7, <1>8 DEF TaskStep, Renew

\* The requests it leaves behind are its own.
LEMMA OwnRequests ==
  ASSUME Inv, NEW t \in Tasks, TaskStep(t), NEW l \in late' \ late
  PROVE  /\ UNCHANGED remote
         /\ l[2] = t /\ Doing(l[1], l[2], l[3])
<1>1. AttemptFails(t)
  BY DEF TaskStep, Renew, Acquire, MintToken, MintRefused, SetRepoSecret, ListTokenNames,
         RevokeToken, RevokingFails
<1>2. PICK x \in Tokens : Sends(t, x) /\ UNCHANGED remote /\ l = <<pc[t], t, x>>
  BY <1>1 DEF AttemptFails
<1>3. QED
  BY <1>2, SendsDoing

--------------------------------------------------------------------------------
\* The invariant.

\* What has been started stays so, and only a run that starts becomes the lone one.
LEMMA LoneKept ==
  ASSUME Inv, [Next]_vars
  PROVE  /\ \A k \in Runs : Started(k) => Started(k)'
         /\ \A k \in Runs : Lone(k)' => Lone(k) \/ StartRun(k)
<1> USE DEF Inv, workflow, overlaps
<1>1. ASSUME UNCHANGED phase, beside' = beside
      PROVE  \A k \in Runs : (Started(k) => Started(k)') /\ (Lone(k)' => Lone(k))
  BY <1>1 DEF Started, Lone
<1>2. ASSUME NEW t \in Tasks, TaskStep(t) PROVE UNCHANGED phase /\ beside' = beside
  BY <1>2, TaskStepLocal
<1>3. ASSUME NEW l \in late, Late(l) PROVE UNCHANGED phase /\ beside' = beside
  BY <1>3 DEF Late
<1>4. CASE UNCHANGED vars
  BY <1>1, <1>4 DEF vars
<1>5. ASSUME NEW j \in Runs, RunStep(j)
      PROVE  /\ \A k \in Runs : Started(k) => Started(k)'
             /\ \A k \in Runs : Lone(k)' => Lone(k) \/ StartRun(k)
  <2>1. \A k \in Runs : Started(k) => Started(k)'
    BY <1>5, RunStepLocal
  <2>2. CASE StartRun(j)
    <3>1. Started(j)' /\ \A k \in Runs \ {j} : phase'[k] = phase[k]
      BY <1>5, RunStepLocal DEF Started
    <3>2. \A k \in Runs : Started(k) /\ k # j => k < j
      BY <2>2 DEF StartRun, RunsInv, Started, Runs
    <3>3. \A k \in Runs : Lone(k)' => k = j
      BY <3>1, <3>2 DEF Lone, Started
    <3>4. QED
      BY <2>1, <2>2, <3>3
  <2>3. CASE ListRepos(j) \/ ListFails(j) \/ Close(j)
    <3>1. beside' = beside /\ \A k \in Runs : Started(k)' <=> Started(k)
      BY <2>3 DEF ListRepos, ListFails, Close, Outcome, TypeOK, Started
    <3>2. QED
      BY <3>1 DEF Lone
  <2>4. QED
    BY <1>5, <2>2, <2>3 DEF RunStep
<1>6. QED
  BY <1>1, <1>2, <1>3, <1>4, <1>5 DEF Next, TaskStep, RunStep

LEMMA NamedStep ==
  ASSUME Inv, TypeOK', [Next]_vars
  PROVE  Named'
<1>1. RemoteKept
  BY StepKept
<1>2. \A x \in tokens' : phase'[x.run] # "none"
  <2>1. \A x \in tokens' : x.run \in Runs /\ Started(x.run)
    BY <1>1, TasksAre DEF RemoteKept, TypeOK
  <2>2. QED
    BY <2>1, LoneKept DEF Started
<1>3. \A r \in Repos : secret'[r] # None => secret'[r].repo = r /\ phase'[secret'[r].run] # "none"
  <2>1. \A r \in Repos : secret'[r] # None => secret'[r].run \in Runs /\ Started(secret'[r].run)
    BY <1>1, TasksAre DEF RemoteKept, TypeOK
  <2>2. \A r \in Repos : secret'[r] # None => secret'[r].repo = r
    BY <1>1 DEF RemoteKept
  <2>3. QED
    BY <2>1, <2>2, LoneKept DEF Started
<1>4. ASSUME NEW t \in Tasks, TaskStep(t) PROVE Named'
  <2>1. \A u \in Tasks \ {t} : pc'[u] = pc[u] /\ hand'[u] = hand[u] /\ doomed'[u] = doomed[u]
    BY <1>4, TaskStepLocal DEF Inv
  <2>2. /\ pc'[t] \in {"set", "search", "revoke"} =>
             hand'[t] \in Tokens /\ hand'[t].repo = t[2] /\ hand'[t].run = t[1]
        /\ \A x \in doomed'[t] : x.repo = t[2] /\ x.run # t[1]
    BY <1>1, <1>4, OwnWork
  <2>3. \A l \in late' : l[3].repo = l[2][2] /\ (l[1] = "revoke" <=> l[3].run # l[2][1])
    <3>1. \A l \in late' \ late : Doing(l[1], l[2], l[3])
      BY <1>4, OwnRequests
    <3>2. QED
      BY <3>1 DEF Doing, Inv, Named
  <2>4. QED
    BY <1>2, <1>3, <2>1, <2>2, <2>3 DEF Inv, Named, Started
<1>5. CASE UNCHANGED attempt /\ late' \subseteq late
  BY <1>2, <1>3, <1>5 DEF Inv, Named, Started, attempt
<1>6. QED
  <2>1. ASSUME NEW k \in Runs, RunStep(k) PROVE UNCHANGED attempt /\ late' \subseteq late
    BY <2>1, RunStepLocal DEF Inv
  <2>2. ASSUME NEW l \in late, Late(l) PROVE UNCHANGED attempt /\ late' \subseteq late
    BY <2>2 DEF Late
  <2>3. CASE UNCHANGED vars
    BY <1>5, <2>3 DEF vars
  <2>4. QED
    BY <1>4, <1>5, <2>1, <2>2, <2>3 DEF Next, TaskStep, RunStep

LEMMA LoneStep ==
  ASSUME Inv, TypeOK', RunsInv', [Next]_vars
  PROVE  LoneInv'
<1> SUFFICES ASSUME NEW k \in Runs, Lone(k)'
    PROVE  /\ \A t \in Tasks : t[1] = k =>
                /\ pc'[t] \in {"set", "search", "revoke"} => hand'[t] \in tokens'
                /\ pc'[t] \in {"search", "revoke", "ok"} => secret'[t[2]].run = k
           /\ \A r \in Repos : secret'[r].run = k => secret'[r] \in tokens'
           /\ \A l \in late' : /\ l[1] = "set" => l[3] \in tokens'
                               /\ l[1] = "revoke" => secret'[l[2][2]].run = k
  BY DEF LoneInv
<1>1. RemoteKept
  BY StepKept
<1>2. CASE StartRun(k)
  <2>1. UNCHANGED <<attempt, remote, late>> /\ late = {} /\ phase[k] = "none"
    BY <1>2 DEF StartRun
  <2>2. \A t \in Tasks : t[1] = k => pc'[t] = "queued"
    BY <2>1 DEF attempt, Inv, RunsInv
  <2>3. \A r \in Repos : secret'[r].run # k
    <3>1. ASSUME NEW r \in Repos, secret[r] # None PROVE Started(secret[r].run)
      BY <3>1 DEF Inv, Named
    <3>2. None.run # k
      BY DEF None, Runs
    <3>3. QED
      BY <2>1, <3>1, <3>2 DEF remote, Started
  <2>4. QED
    BY <2>1, <2>2, <2>3
<1>3. CASE Lone(k)
  <2>1. /\ \A y \in tokens : y.run = k => y \in tokens'
        /\ \A r \in Repos : /\ secret[r].run = k => secret'[r].run = k
                            /\ secret'[r].run = k => secret'[r] \in tokens'
    BY <1>1, <1>3 DEF RemoteKept
  <2>2. ASSUME NEW t \in Tasks, t[1] = k, pc'[t] = pc[t], hand'[t] = hand[t]
        PROVE  /\ pc'[t] \in {"set", "search", "revoke"} => hand'[t] \in tokens'
               /\ pc'[t] \in {"search", "revoke", "ok"} => secret'[t[2]].run = k
    BY <1>3, <2>1, <2>2, TasksAre DEF Inv, LoneInv, Named
  <2>3. ASSUME NEW l \in late
        PROVE  /\ l[1] = "set" => l[3] \in tokens'
               /\ l[1] = "revoke" => secret'[l[2][2]].run = k
    <3>1. /\ l[2] \in Tasks /\ l[2][2] \in Repos /\ l[3] \in Tokens
          /\ l[1] = "revoke" <=> l[3].run # l[2][1]
          /\ l[2][1] = k
      <4>1. l[2] \in Tasks /\ l[3] \in Tokens /\ Doing(l[1], l[2], l[3])
        BY LateDoing
      <4>2. l[2][1] = k
        BY <1>3, <4>1, ActingAlone DEF Doing, Inv
      <4>3. QED
        BY <4>1, <4>2, TasksAre DEF Doing
    <3>2. /\ l[1] = "set" => l[3] \in tokens
          /\ l[1] = "revoke" => secret[l[2][2]].run = k
      BY <1>3 DEF Inv, LoneInv
    <3>3. QED
      BY <2>1, <3>1, <3>2
  <2>4. ASSUME NEW t \in Tasks, TaskStep(t), NEW l \in late' \ late
        PROVE  /\ l[1] = "set" => l[3] \in tokens'
               /\ l[1] = "revoke" => secret'[l[2][2]].run = k
    <3>1. UNCHANGED remote /\ l[2] = t /\ Doing(l[1], l[2], l[3])
      BY <2>4, OwnRequests
    <3>2. t[1] = k
      BY <1>3, <3>1, ActingAlone DEF Doing, Inv
    <3>3. QED
      BY <1>3, <3>1, <3>2 DEF Doing, remote
  <2>5. ASSUME NEW t \in Tasks, TaskStep(t)
        PROVE  \A u \in Tasks : u[1] = k =>
                 /\ pc'[u] \in {"set", "search", "revoke"} => hand'[u] \in tokens'
                 /\ pc'[u] \in {"search", "revoke", "ok"} => secret'[u[2]].run = k
    <3>1. \A u \in Tasks \ {t} : pc'[u] = pc[u] /\ hand'[u] = hand[u]
      BY <2>5, TaskStepLocal DEF Inv
    <3>2. t[1] = k => /\ pc'[t] \in {"set", "search", "revoke"} => hand'[t] \in tokens'
                      /\ pc'[t] \in {"search", "revoke", "ok"} => secret'[t[2]].run = k
      BY <1>1, <1>3, <2>5, OwnWork
    <3>3. QED
      BY <2>2, <3>1, <3>2
  <2>6. CASE \E t \in Tasks : TaskStep(t)
    BY <2>1, <2>3, <2>4, <2>5, <2>6
  <2>7. CASE UNCHANGED attempt /\ late' \subseteq late
    BY <2>1, <2>2, <2>3, <2>7 DEF attempt
  <2>8. ASSUME NEW j \in Runs, RunStep(j) PROVE UNCHANGED attempt /\ late' \subseteq late
    BY <2>8, RunStepLocal DEF Inv
  <2>9. ASSUME NEW l \in late, Late(l) PROVE UNCHANGED attempt /\ late' \subseteq late
    BY <2>9 DEF Late
  <2>10. CASE UNCHANGED vars
    BY <2>7, <2>10 DEF vars
  <2>11. QED
    BY <2>6, <2>7, <2>8, <2>9, <2>10 DEF Next, TaskStep, RunStep
<1>4. QED
  BY <1>2, <1>3, LoneKept

LEMMA InvStep == Inv /\ [Next]_vars => Inv'
<1> SUFFICES ASSUME Inv, [Next]_vars PROVE Inv'
  OBVIOUS
<1>1. TypeOK'
  BY TypeStep DEF Inv
<1>2. RunsInv'
  BY <1>1, RunsStep DEF Inv
<1>3. Apart'
  BY <1>1, <1>2, ApartStep DEF Inv
<1>4. Named' /\ LoneInv'
  BY <1>1, <1>2, NamedStep, LoneStep
<1>5. QED
  BY <1>1, <1>2, <1>3, <1>4 DEF Inv

LEMMA Initially == Init => Inv
<1> SUFFICES ASSUME Init PROVE Inv
  OBVIOUS
<1>1. \A t \in Tasks : t[1] \in Runs /\ t[2] \in Repos
  BY TasksAre
<1>2. TypeOK
  BY TypeInit
<1>3. RunsInv
  BY <1>1 DEF Init, RunsInv, Active, Requests, Started
<1>4. Apart /\ LoneInv
  BY <1>1 DEF Init, Apart, LoneInv, Lone, Started
<1>5. Named
  BY <1>1 DEF Init, Named
<1>6. QED
  BY <1>2, <1>3, <1>4, <1>5 DEF Inv

LEMMA Invariant == Spec => []Inv
BY Initially, InvStep, PTL DEF Spec

--------------------------------------------------------------------------------
\* What the renewals guarantee.

\* The state of runs and tasks, of the forge and of the secrets keeps its types.
THEOREM TypeCorrect == Spec => []TypeOK
<1>1. Inv => TypeOK
  BY DEF Inv
<1>2. QED
  BY <1>1, Invariant, PTL

\* No secret holds a revoked token unless two runs renew it at once.
THEOREM SecretsStayValid == Spec => []SecretValid
<1>1. Init => SecretValid
  BY DEF Init, SecretValid
<1>2. Inv /\ SecretValid /\ [Next]_vars => SecretValid'
  <2> SUFFICES ASSUME Inv, SecretValid, [Next]_vars PROVE SecretValid'
    OBVIOUS
  <2>1. \A r \in Repos \ suspect : secret'[r] \in tokens' \cup {None}
    BY StepKept DEF RemoteKept
  <2>2. CASE suspect \subseteq suspect'
    BY <2>1, <2>2 DEF SecretValid
  <2>3. ASSUME NEW t \in Tasks, SetRepoSecret(t) PROVE SecretValid'
    <3>1. CASE t[1] \in beside
      BY <2>2, <2>3, <3>1 DEF SetRepoSecret
    <3>2. CASE t[1] \notin beside
      <4>1. t[1] \in Runs /\ t[2] \in Repos /\ Acting(t)
        BY <2>3, TasksAre DEF SetRepoSecret, Active, Requests, Acting, Open, Inv, RunsInv
      <4>2. Lone(t[1])
        BY <3>2, <4>1, ActingAlone DEF Inv
      <4>3. hand[t] \in tokens /\ hand[t].repo = t[2]
        BY <2>3, <4>1, <4>2 DEF SetRepoSecret, Inv, LoneInv, Named
      <4>4. tokens' = tokens /\ secret'[t[2]] = hand[t]
        BY <2>3, <4>1, <4>3 DEF SetRepoSecret, Effect, Inv, TypeOK
      <4>5. suspect' = suspect \ {t[2]}
        BY <2>3, <3>2 DEF SetRepoSecret
      <4>6. QED
        BY <2>1, <4>3, <4>4, <4>5 DEF SecretValid
    <3>3. QED
      BY <3>1, <3>2
  <2>4. ASSUME NEW t \in Tasks, TaskStep(t) PROVE SecretValid'
    <3>1. SetRepoSecret(t) \/ suspect' = suspect
      BY <2>4 DEF TaskStep, Renew, Acquire, MintToken, MintRefused, ListTokenNames, RevokeToken,
                  RevokingFails, AttemptFails, overlaps
    <3>2. QED
      BY <2>2, <2>3, <3>1
  <2>5. ASSUME NEW k \in Runs, RunStep(k) PROVE suspect \subseteq suspect'
    BY <2>5 DEF RunStep, StartRun, ListRepos, ListFails, Close, overlaps, Inv, TypeOK
  <2>6. ASSUME NEW l \in late, Late(l) PROVE suspect \subseteq suspect'
    BY <2>6 DEF Late, overlaps
  <2>7. CASE UNCHANGED vars
    BY <2>2, <2>7 DEF vars, overlaps
  <2>8. QED
    BY <2>2, <2>4, <2>5, <2>6, <2>7 DEF Next, TaskStep, RunStep
<1>3. QED
  BY <1>1, <1>2, Invariant, PTL DEF Spec

\* After a lone run has closed well, every secret holds a valid token of it.
THEOREM RenewalsHold == Spec => []RenewedHolds
<1>1. Inv => RenewedHolds
  <2> SUFFICES ASSUME Inv, NEW k \in Runs, phase[k] = "ok", k \notin beside,
                      \A j \in Runs : j > k => phase[j] = "none", NEW r \in Repos
               PROVE  secret[r].run = k /\ secret[r] \in tokens
    BY DEF RenewedHolds
  <2>1. Lone(k)
    BY DEF Lone, Started
  <2>2. PICK t \in Tasks : t[1] = k /\ t[2] = r
    <3>1. <<k, r>> \in Tasks
      BY TasksAre
    <3>2. QED
      BY <3>1
  <2>3. pc[t] = "ok"
    BY <2>2 DEF Inv, RunsInv
  <2>4. QED
    BY <2>1, <2>2, <2>3 DEF Inv, LoneInv
<1>2. QED
  BY <1>1, Invariant, PTL

LEMMA LeaksStep ==
  ASSUME Inv, LeaksListed, [Next]_vars
  PROVE  LeaksListed'
<1>1. /\ RemoteKept /\ tokens' \subseteq Tokens
      /\ pc \in [Tasks -> Requests \cup {"queued", "search", "ok", "failed"}]
      /\ doomed \in [Tasks -> SUBSET Tokens] /\ tokens \subseteq Tokens
  BY StepKept, InvStep DEF Inv, TypeOK
\* No step adds a token that an earlier run has minted.
<1>2. ASSUME NEW u \in Tasks, u[1] \notin beside, pc[u] # "queued",
             NEW x \in tokens', x.run < u[1]
      PROVE  x \in tokens
  <2>1. u[1] \in Runs /\ Started(u[1]) /\ x.run \in Int /\ u[1] \in Int
    BY <1>1, <1>2, TasksAre DEF Inv, RunsInv, Started, Runs
  <2>2. x \notin tokens => x.run >= u[1]
    BY <1>1, <1>2, <2>1 DEF RemoteKept
  <2>3. QED
    BY <1>2, <2>1, <2>2
\* What a task has listed stays listed as long as it does nothing.
<1>3. ASSUME NEW u \in Tasks, u \notin unrevoked, u[1] \notin beside, service = "sonar",
             pc'[u] = pc[u], doomed'[u] = doomed[u],
             NEW x \in tokens', x.repo = u[2], x.run < u[1]
      PROVE  pc'[u] # "ok" /\ (pc'[u] = "revoke" => x \in doomed'[u])
  <2>1. CASE pc[u] = "queued"
    BY <1>3, <2>1
  <2>2. CASE pc[u] # "queued"
    BY <1>2, <1>3, <2>2 DEF LeaksListed
  <2>3. QED
    BY <2>1, <2>2
<1>4. ASSUME service' = service, unrevoked' = unrevoked, \A j \in beside : j \in beside',
             pc' = pc, doomed' = doomed
      PROVE  LeaksListed'
  BY <1>3, <1>4 DEF LeaksListed
<1>5. ASSUME NEW t \in Tasks, TaskStep(t), t \notin unrevoked', t[1] \notin beside, service = "sonar",
             NEW x \in tokens', x.repo = t[2], x.run < t[1]
      PROVE  pc'[t] # "ok" /\ (pc'[t] = "revoke" => x \in doomed'[t])
  <2> USE DEF Becomes, Goes, Renewed, Retried, GivenUp
  <2>1. pc[t] # "queued" => x \in tokens
    BY <1>2, <1>5
  <2>2. t \notin unrevoked /\ (pc[t] = "revoke" /\ x \in tokens => x \in doomed[t])
    <3>1. t \notin unrevoked
      BY <1>5 DEF TaskStep, Renew, Acquire, MintToken, MintRefused, SetRepoSecret, ListTokenNames,
                  RevokeToken, RevokingFails, AttemptFails
    <3>2. QED
      BY <1>5, <3>1 DEF LeaksListed
  <2>3. CASE Acquire(t) \/ MintToken(t) \/ MintRefused(t) \/ AttemptFails(t)
    <3>1. pc'[t] \in {"mint", "set", "failed"}
      BY <1>1, <2>3 DEF Acquire, MintToken, MintRefused, AttemptFails, AttemptEnds
    <3>2. QED
      BY <3>1
  <2>4. CASE SetRepoSecret(t)
    <3>1. pc'[t] = "search"
      BY <1>1, <1>5, <2>4 DEF SetRepoSecret
    <3>2. QED
      BY <3>1
  <2>5. CASE ListTokenNames(t)
    <3>1. pc[t] = "search" /\ x \in tokens /\ hand[t].run = t[1]
      BY <2>1, <2>5 DEF ListTokenNames, Inv, Named
    <3>2. t[1] \in Int /\ x.run \in Int
      BY <1>1, TasksAre DEF Runs
    <3>3. x \in Prior(t)
      BY <1>5, <3>1, <3>2 DEF Prior, HasPrefix, SameName
    <3>4. pc'[t] = "revoke" /\ doomed'[t] = Prior(t)
      BY <1>1, <2>5, <3>3 DEF ListTokenNames
    <3>5. QED
      BY <3>3, <3>4
  <2>6. CASE \E y \in Tokens : RevokeToken(t, y)
    <3>1. PICK y \in Tokens : RevokeToken(t, y)
      BY <2>6
    <3>2. pc[t] = "revoke" /\ x \in tokens /\ x \in doomed[t]
      BY <2>1, <2>2, <3>1 DEF RevokeToken
    <3>3. x # y
      BY <1>5, <3>1 DEF RevokeToken, Effect, SameName
    <3>4. x \in doomed[t] \ {y}
      BY <3>2, <3>3
    <3>5. pc'[t] = "revoke" /\ doomed'[t] = doomed[t] \ {y}
      BY <1>1, <3>1, <3>4 DEF RevokeToken, AfterRevoke
    <3>6. QED
      BY <3>4, <3>5
  <2>7. CASE RevokingFails(t)
    BY <1>5, <2>7 DEF RevokingFails
  <2>8. QED
    BY <1>5, <2>3, <2>4, <2>5, <2>6, <2>7 DEF TaskStep, Renew
<1>6. ASSUME NEW t \in Tasks, TaskStep(t) PROVE LeaksListed'
  <2>1. /\ UNCHANGED <<service, beside>>
        /\ \A u \in Tasks \ {t} : pc'[u] = pc[u] /\ doomed'[u] = doomed[u]
    BY <1>6, TaskStepLocal DEF Inv
  <2>2. \A u \in Tasks : u \in unrevoked => u \in unrevoked'
    BY <1>6 DEF TaskStep, Renew, Acquire, MintToken, MintRefused, SetRepoSecret, ListTokenNames,
                RevokeToken, RevokingFails, AttemptFails
  <2>3. SUFFICES ASSUME service = "sonar", NEW u \in Tasks \ unrevoked', u[1] \notin beside,
                        NEW x \in tokens', x.repo = u[2], x.run < u[1]
                 PROVE  pc'[u] # "ok" /\ (pc'[u] = "revoke" => x \in doomed'[u])
    BY <2>1 DEF LeaksListed
  <2>4. CASE u = t
    BY <1>5, <1>6, <2>3, <2>4
  <2>5. CASE u # t
    BY <1>3, <2>1, <2>2, <2>3, <2>5
  <2>6. QED
    BY <2>4, <2>5
<1>7. ASSUME NEW k \in Runs, RunStep(k) PROVE LeaksListed'
  <2>1. UNCHANGED <<service, attempt, unrevoked>>
    BY <1>7, RunStepLocal DEF Inv
  <2>2. \A j \in beside : j \in beside'
    BY <1>7 DEF RunStep, StartRun, ListRepos, ListFails, Close, overlaps
  <2>3. QED
    BY <1>4, <2>1, <2>2 DEF attempt
<1>8. ASSUME NEW l \in late, Late(l) PROVE LeaksListed'
  BY <1>4, <1>8 DEF Late, workflow, attempt, overlaps
<1>9. CASE UNCHANGED vars
  BY <1>4, <1>9 DEF vars, workflow, attempt, overlaps
<1>10. QED
  BY <1>6, <1>7, <1>8, <1>9 DEF Next, TaskStep, RunStep

\* A renewal that has revoked all it found leaves no token of an earlier run.
THEOREM NoTokenLeaks == Spec => []NothingLeaks
<1>1. Init => LeaksListed
  BY DEF Init, LeaksListed
<1>2. Inv /\ LeaksListed => NothingLeaks
  <2> SUFFICES ASSUME Inv, LeaksListed, service = "sonar", NEW t \in Tasks \ unrevoked,
                      pc[t] = "ok", t[1] \notin beside, NEW x \in tokens, x.repo = t[2]
               PROVE  x.run >= t[1]
    BY DEF NothingLeaks
  <2>1. x.run \in Int /\ t[1] \in Int
    BY TasksAre DEF Inv, TypeOK, Runs
  <2>2. ~(x.run < t[1])
    BY DEF LeaksListed
  <2>3. QED
    BY <2>1, <2>2
<1>3. QED
  BY <1>1, <1>2, LeaksStep, Invariant, PTL DEF Spec

================================================================================
