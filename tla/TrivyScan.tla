------------------------------- MODULE TrivyScan -------------------------------
(***************************************************************************)
(* The Scan workflow: for every image that runs, with bounded concurrency, *)
(* an activity runs Trivy and stores a row for the scan and one for each   *)
(* vulnerability in a transaction.  When it has failed for good, a second  *)
(* activity stores a row for the failure.                                  *)
(*                                                                         *)
(* A commit may succeed although its answer is lost, or after the attempt  *)
(* that asked for it was given up: the retry then stores the scan again.   *)
(***************************************************************************)
EXTENDS Integers, Sequences, FiniteSets

CONSTANTS
  Images,           \* the images that may run
  Reports,          \* by image: the reports of Trivy, each the sequence of the
                    \* findings [id, severity] that it lists
  Concurrency,      \* images scanned at once
  MaximumAttempts,  \* StandardRetry's MaximumAttempts: 3 in the code
  MaxFaults         \* bounds the faults in a behaviour

Counted == {"CRITICAL", "HIGH", "MEDIUM", "LOW"}
Ids == UNION {{r[n].id : n \in DOMAIN r} : r \in UNION {Reports[i] : i \in Images}}
Findings == [id : Ids, severity : Counted \cup {"UNKNOWN"}]

ASSUME ScanAssumption ==
  /\ DOMAIN Reports = Images
  /\ \A i \in Images : Reports[i] \subseteq Seq(Findings)
  /\ {Concurrency, MaximumAttempts} \subseteq Nat \ {0} /\ MaxFaults \in Nat

VARIABLES
  phase,    \* "images", "scan", then how the run ended: "ok" or "error"
  images,   \* what GetRunningImages returned
  act,      \* by image: the activity it is in, "ScanImage" or "SaveScanResult"
  pc,       \* by image: "queued", "trivy", "insert", "vulns", "commit", "done"
  tries,    \* by image: attempts of the activity that have failed
  report,   \* by image: the report that its attempt stores
  tx,       \* by image: the vulnerabilities its open transaction has inserted
  db,       \* the committed rows
  late,     \* rows whose commit was under way when the attempt was given up
  summary,  \* by image: the counts that the workflow received
  faults,
  lost      \* auxiliary: by image, the commits of which nobody got the answer

workflow == <<phase, images>>
attempt == <<act, pc, tries, report, tx>>
vars == <<workflow, attempt, db, late, summary, faults, lost>>

\* A scan row with its vulnerabilities and the attempt that stored it.
Rows == [image : Images, act : {"ScanImage", "SaveScanResult"},
         try : 1..MaximumAttempts, vulns : SUBSET Findings]
Saved(i) == {w \in db : w.image = i}
Active(i) == pc[i] \notin {"queued", "done"}
Zero == [s \in Counted |-> 0]

Init ==
  /\ phase = "images" /\ images = {}
  /\ act = [i \in Images |-> "ScanImage"]
  /\ pc = [i \in Images |-> "queued"]
  /\ tries = [i \in Images |-> 0]
  /\ report = [i \in Images |-> <<>>]
  /\ tx = [i \in Images |-> {}]
  /\ db = {} /\ late = {}
  /\ summary = [i \in Images |-> Zero]
  /\ faults = 0
  /\ lost = [i \in Images |-> 0]

--------------------------------------------------------------------------------
\* parseTrivyOutput.

\* Of the findings with one ID the first is kept.
Firsts(r) == {n \in DOMAIN r : \A m \in 1..n - 1 : r[m].id # r[n].id}
Vulns(r) == {r[n] : n \in Firsts(r)}

\* Slip: a finding is counted before it is known to be new.
CountsOfAll(r) == [s \in Counted |-> Cardinality({n \in DOMAIN r : r[n].severity = s})]

Counts(r) == [s \in Counted |-> Cardinality({n \in Firsts(r) : r[n].severity = s})]

--------------------------------------------------------------------------------
\* The workflow.

GetRunningImages ==
  /\ phase = "images"
  /\ phase' = "scan"
  /\ images' \in SUBSET Images
  /\ UNCHANGED <<attempt, db, late, summary, faults, lost>>

Slots == Concurrency - Cardinality({i \in images : Active(i)})

Acquire(i) ==
  /\ phase = "scan" /\ i \in images
  /\ pc[i] = "queued" /\ Slots > 0
  /\ pc' = [pc EXCEPT ![i] = "trivy"]
  /\ UNCHANGED <<workflow, act, tries, report, tx, db, late, summary, faults, lost>>

\* No failure of an image is a failure of the run.
Close ==
  /\ phase = "scan"
  /\ \A i \in images : pc[i] = "done"
  /\ phase' = "ok"
  /\ UNCHANGED <<images, attempt, db, late, summary, faults, lost>>

--------------------------------------------------------------------------------
\* ScanImage, and saveScanResult in both activities.

Becomes(i, activity, step, n, r) ==
  /\ act' = [act EXCEPT ![i] = activity]
  /\ pc' = [pc EXCEPT ![i] = step]
  /\ tries' = [tries EXCEPT ![i] = n]
  /\ report' = [report EXCEPT ![i] = r]
  /\ tx' = [tx EXCEPT ![i] = {}]

execTrivy(i) ==
  /\ pc[i] = "trivy"
  /\ \E r \in Reports[i] : Becomes(i, act[i], "insert", tries[i], r)
  /\ UNCHANGED <<workflow, db, late, summary, faults, lost>>

InsertScan(i) ==
  /\ pc[i] = "insert"
  /\ pc' = [pc EXCEPT ![i] = IF report[i] = <<>> THEN "commit" ELSE "vulns"]
  /\ UNCHANGED <<workflow, act, tries, report, tx, db, late, summary, faults, lost>>

InsertVulnerability(i) ==
  /\ pc[i] = "vulns"
  /\ \E v \in Vulns(report[i]) \ tx[i] : tx' = [tx EXCEPT ![i] = @ \cup {v}]
  /\ pc' = [pc EXCEPT ![i] = IF tx'[i] = Vulns(report[i]) THEN "commit" ELSE @]
  /\ UNCHANGED <<workflow, act, tries, report, db, late, summary, faults, lost>>

Row(i) == [image |-> i, act |-> act[i], try |-> tries[i] + 1, vulns |-> tx[i]]

\* The activity ends, and the workflow receives the counts.
Commit(i) ==
  /\ pc[i] = "commit"
  /\ db' = db \cup {Row(i)}
  /\ summary' = [summary EXCEPT ![i] = Counts(report[i])]
  /\ Becomes(i, act[i], "done", tries[i], report[i])
  /\ UNCHANGED <<workflow, late, faults, lost>>

--------------------------------------------------------------------------------
\* Faults.

Fault == faults < MaxFaults /\ faults' = faults + 1

\* Slip: a scan that failed for good is only logged.
ActivityFailsLogged(i) == Becomes(i, act[i], "done", tries[i], <<>>)

\* A failed scan gets a row; a row that could not be saved is only logged.
ActivityFails(i) ==
  IF act[i] = "ScanImage"
  THEN Becomes(i, "SaveScanResult", "insert", 0, <<>>)
  ELSE Becomes(i, act[i], "done", tries[i], <<>>)

\* Slip: one retry too many.
RetriableOnceMore(i) == tries[i] + 1 <= MaximumAttempts

Retriable(i) == tries[i] + 1 < MaximumAttempts

First(i) == IF act[i] = "ScanImage" THEN "trivy" ELSE "insert"

\* An attempt is retried while attempts and ScheduleToClose allow it.
AttemptEnds(i) ==
  \/ Retriable(i) /\ Becomes(i, act[i], First(i), tries[i] + 1, <<>>)
  \/ ActivityFails(i)

\* Slip: a transaction that is left open commits what it has.
RolledBackNot(i) == db' = IF tx[i] = {} THEN db ELSE db \cup {Row(i)}

\* The deferred Rollback, or the server's when the worker dies.
RolledBack(i) == UNCHANGED db

AttemptFails(i) ==
  /\ Active(i)
  /\ Fault
  /\ RolledBack(i)
  /\ AttemptEnds(i)
  /\ UNCHANGED <<workflow, late, summary, lost>>

\* Nobody gets the answer to a commit that was carried out or will be.
CommitLost(i) ==
  /\ pc[i] = "commit"
  /\ Fault
  /\ \/ db' = db \cup {Row(i)} /\ UNCHANGED late
     \/ late' = late \cup {Row(i)} /\ UNCHANGED db
  /\ lost' = [lost EXCEPT ![i] = @ + 1]
  /\ AttemptEnds(i)
  /\ UNCHANGED <<workflow, summary>>

\* An image that is not found and output that cannot be parsed are not retried.
ScanRefused(i) ==
  /\ pc[i] = "trivy"
  /\ Fault
  /\ ActivityFails(i)
  /\ UNCHANGED <<workflow, db, late, summary, lost>>

ImagesFail ==
  /\ phase = "images"
  /\ Fault
  /\ phase' = "error"
  /\ UNCHANGED <<images, attempt, db, late, summary, lost>>

Late(w) ==
  /\ late' = late \ {w}
  /\ db' \in {db, db \cup {w}}
  /\ UNCHANGED <<workflow, attempt, summary, faults, lost>>

--------------------------------------------------------------------------------
Scan(i) ==
  \/ Acquire(i) \/ execTrivy(i)
  \/ InsertScan(i) \/ InsertVulnerability(i) \/ Commit(i)

Run == GetRunningImages \/ Close \/ \E i \in Images : Scan(i)

Next ==
  \/ Run \/ ImagesFail
  \/ \E i \in Images : AttemptFails(i) \/ CommitLost(i) \/ ScanRefused(i)
  \/ \E w \in late : Late(w)

Spec == Init /\ [][Next]_vars

--------------------------------------------------------------------------------
\* Properties.

TypeOK ==
  /\ phase \in {"images", "scan", "ok", "error"}
  /\ images \subseteq Images
  /\ act \in [Images -> {"ScanImage", "SaveScanResult"}]
  /\ pc \in [Images -> {"queued", "trivy", "insert", "vulns", "commit", "done"}]
  /\ tries \in [Images -> 0..MaximumAttempts - 1]
  /\ report \in [Images -> Seq(Findings)]
  /\ \A i \in Images : report[i] \in Reports[i] \cup {<<>>}
  /\ tx \in [Images -> SUBSET Findings]
  /\ db \subseteq Rows /\ late \subseteq Rows
  /\ summary \in [Images -> [Counted -> Nat]]
  /\ faults \in 0..MaxFaults
  /\ lost \in [Images -> Nat]

\* What can be read of a scan is all that a report of the image lists, with one
\* vulnerability for each ID, and nothing for a scan that failed: never the part
\* that an attempt had written when it failed.
ScansAreComplete ==
  \A w \in db : IF w.act = "ScanImage"
                THEN \E r \in Reports[w.image] : w.vulns = Vulns(r)
                ELSE w.vulns = {}

\* The counts the workflow got for an image are those of a scan it can look up.
SummaryIsStored ==
  \A i \in Images : summary[i] # Zero =>
    \E w \in Saved(i) :
      \A s \in Counted : summary[i][s] = Cardinality({v \in w.vulns : v.severity = s})

\* When the run has closed every image has a row, unless no attempt to save the
\* failure of its scan succeeded, and it has more than one only when an answer
\* to a commit was lost.
EveryImageOnRecord ==
  phase = "ok" =>
    \A i \in images :
      /\ Saved(i) = {} => act[i] = "SaveScanResult" /\ faults >= 2
      /\ Cardinality(Saved(i)) <= 1 + lost[i]

================================================================================
