------------------------------ MODULE TokenRenewer ------------------------------
(***************************************************************************)
(* The RenewTokens and RenewSonarCloudTokens workflows: for each listed    *)
(* repository, with bounded concurrency, an activity mints a token, writes *)
(* it to a secret of the repository and, at SonarCloud, revokes the tokens *)
(* that it minted for the repository before.                               *)
(*                                                                         *)
(* A SonarCloud token bears the name of its repository and its run, in     *)
(* every attempt, and a name that exists cannot be minted again.  An       *)
(* attempt that was given up can do nothing more once its context has      *)
(* expired, except that the request it had sent may still be carried out.  *)
(***************************************************************************)
EXTENDS Integers, FiniteSets

CONSTANTS
  Repos,            \* the repositories of the list in Consul
  Extends,          \* by repository: those whose names begin with its name
  Concurrency,      \* renewals at once in a run
  MaximumAttempts,  \* StandardRetry's MaximumAttempts: 3 in the code
  MaxRuns,          \* bounds the runs
  ByHand,           \* the runs that start beside another that is still open
  MaxFaults         \* bounds the faults in a behaviour

ASSUME RenewerAssumption ==
  /\ Extends \in [Repos -> SUBSET Repos]
  /\ {Concurrency, MaximumAttempts, MaxRuns} \subseteq Nat \ {0}
  /\ ByHand \subseteq 1..MaxRuns
  /\ MaxFaults \in Nat

Runs == 1..MaxRuns
Tasks == Runs \X Repos

\* A token is known by its repository, its run and the attempt that minted it.
Tokens == [repo : Repos, run : Runs, try : 1..MaximumAttempts]
None == [repo |-> "none", run |-> 0, try |-> 0]

VARIABLES
  service,  \* which workflow it is: "github" or "sonar"
  phase,    \* by run: "none", "list", "renew", "ok" or "error"
  pc,       \* by task: the next request of its attempt, or "queued", "ok", "failed"
  tries,    \* by task: attempts that have failed
  hand,     \* by task: the token it has minted
  doomed,   \* by task: the tokens it has still to revoke
  late,     \* requests of attempts that were given up, not yet carried out
  tokens,   \* the tokens that are valid
  secret,   \* by repository: the token in its secret
  faults,
  beside,      \* auxiliary: the runs that were open at once with another
  suspect,     \* auxiliary: the repositories that no other run has renewed since
  unrevoked    \* auxiliary: the tasks that passed over a prior token

attempt == <<pc, tries, hand, doomed>>
remote == <<tokens, secret>>
overlaps == <<beside, suspect>>
workflow == <<service, phase>>
vars == <<workflow, attempt, late, remote, faults, overlaps, unrevoked>>

Requests == {"mint", "set", "revoke"}
Open(k) == phase[k] \in {"list", "renew"}
Active(t) == pc[t] \in Requests \cup {"search"}

Init ==
  /\ service \in {"github", "sonar"}
  /\ phase = [k \in Runs |-> "none"]
  /\ pc = [t \in Tasks |-> "queued"]
  /\ tries = [t \in Tasks |-> 0]
  /\ hand = [t \in Tasks |-> None]
  /\ doomed = [t \in Tasks |-> {}]
  /\ late = {} /\ tokens = {}
  /\ secret = [r \in Repos |-> None]
  /\ faults = 0
  /\ beside = {} /\ suspect = {} /\ unrevoked = {}

--------------------------------------------------------------------------------
\* The workflow and renewAll.

\* The schedule starts a run when the one before has closed, an operator whenever
\* he likes; no request lasts until a later run.
StartRun(k) ==
  /\ phase[k] = "none" /\ late = {}
  /\ \A j \in Runs : j < k => phase[j] # "none"
  /\ phase' = [phase EXCEPT ![k] = "list"]
  /\ LET open == {j \in Runs : Open(j)} IN
     IF open = {} THEN UNCHANGED overlaps
     ELSE k \in ByHand /\ beside' = beside \cup open \cup {k} /\ suspect' = Repos
  /\ UNCHANGED <<service, attempt, late, remote, faults, unrevoked>>

ListRepos(k) ==
  /\ phase[k] = "list"
  /\ phase' = [phase EXCEPT ![k] = "renew"]
  /\ UNCHANGED <<service, attempt, late, remote, faults, overlaps, unrevoked>>

Slots(k) == Concurrency - Cardinality({r \in Repos : Active(<<k, r>>)})

Acquire(t) ==
  /\ phase[t[1]] = "renew" /\ pc[t] = "queued" /\ Slots(t[1]) > 0
  /\ pc' = [pc EXCEPT ![t] = "mint"]
  /\ UNCHANGED <<workflow, tries, hand, doomed, late, remote, faults, overlaps, unrevoked>>

\* Slip: the error of a repository is logged and not returned.
OutcomeLogged(k) == "ok"

\* The errors of the repositories are joined.
Outcome(k) == IF \E r \in Repos : pc[<<k, r>>] = "failed" THEN "error" ELSE "ok"

Close(k) ==
  /\ phase[k] = "renew"
  /\ \A r \in Repos : pc[<<k, r>>] \in {"ok", "failed"}
  /\ phase' = [phase EXCEPT ![k] = Outcome(k)]
  /\ UNCHANGED <<service, attempt, late, remote, faults, overlaps, unrevoked>>

--------------------------------------------------------------------------------
\* The requests, as GitHub and SonarCloud carry them out.

SameName(x, y) == x.repo = y.repo /\ x.run = y.run
Taken(x) == service = "sonar" /\ \E y \in tokens : SameName(x, y)

Effect(request, x) ==
  /\ tokens' = CASE request = "mint" -> IF Taken(x) THEN tokens ELSE tokens \cup {x}
                 [] request = "set" -> tokens
                 [] request = "revoke" -> {y \in tokens : ~SameName(x, y)}
  /\ secret' = IF request = "set" THEN [secret EXCEPT ![x.repo] = x] ELSE secret

\* The task's token, or the prior token that it is about to revoke.
Sends(t, x) ==
  /\ pc[t] \in Requests
  /\ CASE pc[t] = "mint" -> x = [repo |-> t[2], run |-> t[1], try |-> tries[t] + 1]
       [] pc[t] = "set" -> x = hand[t]
       [] pc[t] = "revoke" -> x \in doomed[t]

--------------------------------------------------------------------------------
\* RenewRepoToken and RenewSonarCloudToken.

Becomes(t, next, n, x, rest) ==
  /\ pc' = [pc EXCEPT ![t] = next]
  /\ tries' = [tries EXCEPT ![t] = n]
  /\ hand' = [hand EXCEPT ![t] = x]
  /\ doomed' = [doomed EXCEPT ![t] = rest]

Goes(t, next, x, rest) == Becomes(t, next, tries[t], x, rest)
Renewed(t) == Goes(t, "ok", hand[t], {})
Retried(t) == Becomes(t, "mint", tries[t] + 1, None, {})

\* Slip: one retry too many.
RetriableOnceMore(t) == tries[t] + 1 <= MaximumAttempts

Retriable(t) == tries[t] + 1 < MaximumAttempts

GivenUp(t) == Becomes(t, "failed", tries[t] + 1, None, {})

MintToken(t) ==
  /\ pc[t] = "mint"
  /\ \E x \in Tokens :
       /\ Sends(t, x) /\ ~Taken(x)
       /\ Effect("mint", x)
       /\ Goes(t, "set", x, {})
  /\ UNCHANGED <<workflow, late, faults, overlaps, unrevoked>>

\* The name exists already: an error like any other.
MintRefused(t) ==
  /\ pc[t] = "mint"
  /\ \E x \in Tokens : Sends(t, x) /\ Taken(x)
  /\ IF Retriable(t) THEN Retried(t) ELSE GivenUp(t)
  /\ UNCHANGED <<workflow, late, remote, faults, overlaps, unrevoked>>

SetRepoSecret(t) ==
  /\ pc[t] = "set"
  /\ Effect("set", hand[t])
  /\ IF service = "sonar" THEN Goes(t, "search", hand[t], {}) ELSE Renewed(t)
  /\ suspect' = IF t[1] \in beside THEN suspect ELSE suspect \ {t[2]}
  /\ UNCHANGED <<workflow, late, faults, beside, unrevoked>>

\* Slip: the prefix ends with the repository's name.
HasPrefixUnclosed(x, r) == x.repo = r \/ x.repo \in Extends[r]

\* sonarTokenPrefix ends with a slash, which no name of a repository contains.
HasPrefix(x, r) == x.repo = r

\* Slip: only the token of the run before is looked for.
PriorToLast(t) == {x \in tokens : HasPrefix(x, t[2]) /\ x.run = t[1] - 1}

\* Slip: the token that has just been minted is not kept.
PriorAll(t) == {x \in tokens : HasPrefix(x, t[2])}

\* What revokeOldSonarTokens finds.
Prior(t) == {x \in tokens : HasPrefix(x, t[2]) /\ ~SameName(x, hand[t])}

ListTokenNames(t) ==
  /\ pc[t] = "search"
  /\ IF Prior(t) = {} THEN Renewed(t) ELSE Goes(t, "revoke", hand[t], Prior(t))
  /\ UNCHANGED <<workflow, late, remote, faults, overlaps, unrevoked>>

AfterRevoke(t, x) ==
  LET rest == doomed[t] \ {x}
  IN  IF rest = {} THEN Renewed(t) ELSE Goes(t, "revoke", hand[t], rest)

RevokeToken(t, x) ==
  /\ pc[t] = "revoke" /\ x \in doomed[t]
  /\ Effect("revoke", x)
  /\ AfterRevoke(t, x)
  /\ UNCHANGED <<workflow, late, faults, overlaps, unrevoked>>

--------------------------------------------------------------------------------
\* Faults.

Fault == faults < MaxFaults /\ faults' = faults + 1

\* Revoking is best-effort: what could not be listed or revoked stays.
RevokingFails(t) ==
  /\ Fault
  /\ \/ pc[t] = "search" /\ Renewed(t)
     \/ pc[t] = "revoke" /\ \E x \in doomed[t] : AfterRevoke(t, x)
  /\ unrevoked' = unrevoked \cup {t}
  /\ UNCHANGED <<workflow, late, remote, overlaps>>

\* Slip: a secret that could not be written is only warned about.
AttemptEndsQuietly(t) ==
  IF pc[t] = "set" THEN Renewed(t) ELSE (Retriable(t) /\ Retried(t)) \/ GivenUp(t)

\* An attempt is retried while attempts and ScheduleToClose allow it.
AttemptEnds(t) == (Retriable(t) /\ Retried(t)) \/ GivenUp(t)

\* The attempt fails, its worker dies, or it is given up after StartToClose.  A
\* request that it had sent was not carried out, was carried out, or will be.
AttemptFails(t) ==
  /\ Active(t)
  /\ Fault
  /\ \/ UNCHANGED <<remote, late>>
     \/ \E x \in Tokens :
          /\ Sends(t, x)
          /\ \/ Effect(pc[t], x) /\ UNCHANGED late
             \/ late' = late \cup {<<pc[t], t, x>>} /\ UNCHANGED remote
  /\ AttemptEnds(t)
  /\ UNCHANGED <<workflow, overlaps, unrevoked>>

Late(l) ==
  /\ late' = late \ {l}
  /\ \/ Effect(l[1], l[3])
     \/ UNCHANGED remote
  /\ UNCHANGED <<workflow, attempt, faults, overlaps, unrevoked>>

ListFails(k) ==
  /\ phase[k] = "list"
  /\ Fault
  /\ phase' = [phase EXCEPT ![k] = "error"]
  /\ UNCHANGED <<service, attempt, late, remote, overlaps, unrevoked>>

--------------------------------------------------------------------------------
Renew(t) ==
  \/ Acquire(t)
  \/ MintToken(t) \/ MintRefused(t) \/ SetRepoSecret(t)
  \/ ListTokenNames(t)
  \/ \E x \in Tokens : RevokeToken(t, x)

Next ==
  \/ \E k \in Runs : StartRun(k) \/ ListRepos(k) \/ ListFails(k) \/ Close(k)
  \/ \E t \in Tasks : Renew(t) \/ RevokingFails(t) \/ AttemptFails(t)
  \/ \E l \in late : Late(l)

Spec == Init /\ [][Next]_vars

--------------------------------------------------------------------------------
\* Properties.

TypeOK ==
  /\ service \in {"github", "sonar"}
  /\ phase \in [Runs -> {"none", "list", "renew", "ok", "error"}]
  /\ pc \in [Tasks -> Requests \cup {"queued", "search", "ok", "failed"}]
  /\ tries \in [Tasks -> 0..MaximumAttempts]
  /\ \A t \in Tasks : Active(t) => tries[t] < MaximumAttempts
  /\ hand \in [Tasks -> Tokens \cup {None}]
  /\ doomed \in [Tasks -> SUBSET Tokens]
  /\ late \subseteq Requests \X Tasks \X Tokens
  /\ tokens \subseteq Tokens
  /\ secret \in [Repos -> Tokens \cup {None}]
  /\ faults \in 0..MaxFaults
  /\ beside \subseteq Runs /\ suspect \subseteq Repos /\ unrevoked \subseteq Tasks

\* The rotation leaves no repository with a revoked token in its secret, at no
\* point of it and whatever fails, is lost or comes late; only two runs that
\* renew the repository at once may.
SecretValid == \A r \in Repos \ suspect : secret[r] \in tokens \cup {None}

\* When a run has closed well and no other was open beside it, every repository
\* holds a valid token of that run, until the next one starts.
RenewedHolds ==
  \A k \in Runs :
    /\ phase[k] = "ok" /\ k \notin beside
    /\ \A j \in Runs : j > k => phase[j] = "none"
    => \A r \in Repos : secret[r].run = k /\ secret[r] \in tokens

\* Once a renewal has revoked all it found, no token of an earlier run is left:
\* what failed attempts have leaked is gone, and not only the token before.
NothingLeaks ==
  service = "sonar" =>
    \A t \in Tasks \ unrevoked :
      pc[t] = "ok" /\ t[1] \notin beside => \A x \in tokens : x.repo = t[2] => x.run >= t[1]

================================================================================
