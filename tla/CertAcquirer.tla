------------------------------ MODULE CertAcquirer ------------------------------
(***************************************************************************)
(* The CertAcquirer workflow: one activity obtains the wildcard            *)
(* certificate from the certificate authority and stages it in Vault, and  *)
(* a second one copies what is staged to the path that Traefik reads.      *)
(*                                                                         *)
(* The authority remembers every account registered and every certificate  *)
(* issued, also when the answer is lost.  An attempt that was given up can *)
(* do nothing more once its context has expired, except that the request   *)
(* it had sent may still be carried out.                                   *)
(***************************************************************************)
EXTENDS Integers

CONSTANTS
  IssueAttempts,    \* retryIssue's MaximumAttempts: 3 in the code
  PublishAttempts,  \* retryPublish's MaximumAttempts: 5 in the code
  MaxRuns,          \* bounds the runs, which the schedule starts one by one
  MaxFaults         \* bounds the faults in a behaviour

ASSUME ConstantsAssumption ==
  /\ {IssueAttempts, PublishAttempts} \subseteq Nat \ {0}
  /\ {MaxRuns, MaxFaults} \subseteq Nat

VARIABLES
  phase,       \* "issue", "publish", or how the last run ended: "ok", "error"
  tries,       \* attempts of the activity that have failed
  pc,          \* the next request of the current attempt
  hand,        \* the account or certificate that the attempt holds
  late,        \* requests of attempts that were given up, not yet carried out,
               \* with their values and the attempts' numbers
  account,     \* the ACME account in Vault; accounts and certificates are
  staging,     \* numbered in the order in which the authority made them, and
  published,   \* None stands for an absent secret
  registered,  \* how many accounts the authority has registered
  issued,      \* how many certificates it has issued
  runs, faults,
  before,          \* auxiliary: issued and published when the run began
  lostAccounts,    \* auxiliary: attempts that failed after asking for an
                   \* account and before it was known to be saved
  lostCerts        \* auxiliary: likewise for a certificate and its staging

attempt == <<phase, tries, pc, hand>>
vault == <<account, staging, published>>
authority == <<registered, issued>>
lost == <<lostAccounts, lostCerts>>
vars == <<attempt, late, vault, authority, runs, faults, before, lost>>

None == 0
Closed == phase \in {"ok", "error"}
Maximum == IF phase = "issue" THEN IssueAttempts ELSE PublishAttempts
First(p) == IF p = "issue" THEN "load" ELSE "read"

Requests == {"register", "save", "obtain", "stage", "publish"}

Init ==
  /\ phase = "ok" /\ tries = 0 /\ pc = "load" /\ hand = None
  /\ late = {}
  /\ account = None /\ staging = None /\ published = None
  /\ registered = 0 /\ issued = 0
  /\ runs = 0 /\ faults = 0
  /\ before = [issued |-> 0, published |-> None]
  /\ lostAccounts = 0 /\ lostCerts = 0

--------------------------------------------------------------------------------
\* Temporal.

Enter(p) == phase' = p /\ tries' = 0 /\ pc' = First(p) /\ hand' = None

\* A schedule's runs are days apart: no request of an earlier run is left.
StartRun ==
  /\ Closed /\ runs < MaxRuns /\ late = {}
  /\ Enter("issue")
  /\ runs' = runs + 1
  /\ before' = [issued |-> issued, published |-> published]
  /\ UNCHANGED <<late, vault, authority, faults, lost>>

Close(outcome) == phase' = outcome /\ tries' = 0 /\ pc' = "load" /\ hand' = None

\* Slip: an issue that failed is logged, and the run goes on to publish.
GiveUpLogged == IF phase = "issue" THEN Enter("publish") ELSE Close("error")

\* CertAcquirer returns the error of either activity.
GiveUp == Close("error")

\* Slip: one retry too many.
RetriableOnceMore == tries + 1 <= Maximum

Retriable == tries + 1 < Maximum

\* Slip: one activity issues and publishes.
RetryFromIssue ==
  phase' = "issue" /\ tries' = tries + 1 /\ pc' = First("issue") /\ hand' = None

\* The next attempt begins at the activity's first request.
Retry == tries' = tries + 1 /\ pc' = First(phase) /\ hand' = None /\ UNCHANGED phase

--------------------------------------------------------------------------------
\* The requests, as Vault and the authority carry them out.

Effect(request, value) ==
  /\ registered' = IF request = "register" THEN registered + 1 ELSE registered
  /\ account' = IF request = "save" THEN value ELSE account
  /\ issued' = IF request = "obtain" THEN issued + 1 ELSE issued
  /\ staging' = IF request = "stage" THEN value ELSE staging
  /\ published' = IF request = "publish" THEN value ELSE published

Goes(next, value) == pc' = next /\ hand' = value /\ UNCHANGED <<phase, tries>>

--------------------------------------------------------------------------------
\* IssueWildcardCert and PublishWildcardCert.

\* Slip: a Vault that is down reads as one without the account.
LoadAccountAbsent ==
  /\ phase = "issue" /\ pc = "load"
  /\ \E found \in {account, None} :
       Goes(IF found = None THEN "register" ELSE "obtain", found)
  /\ UNCHANGED <<late, vault, authority, runs, faults, before, lost>>

\* ensureUser and newIssuer read: an account that is not there has to be made.
LoadAccount ==
  /\ phase = "issue" /\ pc = "load"
  /\ Goes(IF account = None THEN "register" ELSE "obtain", account)
  /\ UNCHANGED <<late, vault, authority, runs, faults, before, lost>>

ReadStaged ==
  /\ phase = "publish" /\ pc = "read"
  /\ IF staging = None THEN Close("error") ELSE Goes("publish", staging)
  /\ UNCHANGED <<late, vault, authority, runs, faults, before, lost>>

\* What an attempt does when a request was answered.
Answered ==
  CASE pc = "register" -> Goes("save", registered')
    [] pc = "save" -> Goes("obtain", hand)
    [] pc = "obtain" -> Goes("stage", issued')
    [] pc = "stage" -> Enter("publish")
    [] pc = "publish" -> Close("ok")

Request ==
  /\ ~Closed /\ pc \in Requests
  /\ Effect(pc, hand)
  /\ Answered
  /\ UNCHANGED <<late, runs, faults, before, lost>>

--------------------------------------------------------------------------------
\* Faults.

Fault == faults < MaxFaults /\ faults' = faults + 1

\* The attempt fails, its worker dies, or it is given up after StartToClose.  A
\* request that it had sent was not carried out, was carried out, or will be.
AttemptFails ==
  /\ ~Closed
  /\ Fault
  /\ \/ UNCHANGED <<vault, authority, late>>
     \/ pc \in Requests /\ Effect(pc, hand) /\ UNCHANGED late
     \/ pc \in Requests /\ late' = late \cup {<<pc, hand, tries>>} /\ UNCHANGED <<vault, authority>>
  /\ lostAccounts' = IF pc \in {"register", "save"} THEN lostAccounts + 1 ELSE lostAccounts
  /\ lostCerts' = IF pc \in {"obtain", "stage"} THEN lostCerts + 1 ELSE lostCerts
  /\ \/ Retriable /\ Retry
     \/ GiveUp  \* no attempt is left, or ScheduleToClose has passed
  /\ UNCHANGED <<runs, before>>

\* classifyACME: a rate limit is not retried.
RateLimited ==
  /\ pc \in {"register", "obtain"}
  /\ Fault
  /\ GiveUp
  /\ UNCHANGED <<late, vault, authority, runs, before, lost>>

Late(r) ==
  /\ r \in late /\ late' = late \ {r}
  /\ \/ Effect(r[1], r[2])
     \/ UNCHANGED <<vault, authority>>
  /\ UNCHANGED <<attempt, runs, faults, before, lost>>

--------------------------------------------------------------------------------
Run == LoadAccount \/ ReadStaged \/ Request

Next == StartRun \/ Run \/ AttemptFails \/ RateLimited \/ \E r \in late : Late(r)

Spec == Init /\ [][Next]_vars

--------------------------------------------------------------------------------
\* Properties.

TypeOK ==
  /\ phase \in {"issue", "publish", "ok", "error"}
  /\ tries \in 0..(Maximum - 1)
  /\ pc \in Requests \cup {"load", "read"}
  /\ late \subseteq Requests \X Nat \X Nat
  /\ {hand, account, staging, published, registered, issued} \subseteq Nat
  /\ runs \in 0..MaxRuns /\ faults \in 0..MaxFaults
  /\ before \in [issued : Nat, published : Nat]
  /\ {lostAccounts, lostCerts} \subseteq Nat

\* What Traefik reads is what it read before the run or a certificate of this
\* run, and the latter when the run ends well: no run that could not stage its
\* certificate publishes an older one again, whichever writes come late.
PublishedFresh ==
  /\ published = before.published \/ published \in before.issued + 1..issued
  /\ phase = "ok" /\ runs > 0 => published > before.issued

\* One account serves all runs: the authority registers another one only when an
\* attempt fails between asking for an account and knowing it saved, never
\* because Vault could not be read and not once per run.
OneAccount == registered <= 1 + lostAccounts

\* Each run takes one certificate, and one more for each of its attempts that
\* failed between asking for a certificate and knowing it staged: a failure to
\* publish costs none.
NoIssuanceForPublish == issued <= runs + lostCerts

================================================================================
