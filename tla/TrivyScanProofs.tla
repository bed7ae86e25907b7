---------------------------- MODULE TrivyScanProofs ----------------------------
(***************************************************************************)
(* What TrivyScan guarantees for every set of images, all reports, any     *)
(* number of attempts and any faults.                                      *)
(***************************************************************************)
EXTENDS TrivyScan, FiniteSetTheorems, TLAPS

\* What an attempt has in hand: a report of the image, or the empty one of a scan
\* that failed; and how much of it the open transaction holds.
AttemptInv ==
  \A i \in Images :
    /\ act[i] = "ScanImage" /\ pc[i] \in {"insert", "vulns", "commit"} => report[i] \in Reports[i]
    /\ act[i] = "SaveScanResult" => report[i] = <<>> /\ pc[i] \notin {"queued", "trivy"}
    /\ pc[i] = "insert" => tx[i] = {}
    /\ pc[i] = "commit" => tx[i] = Vulns(report[i])

\* A row that holds all it should.
Whole(w) == IF w.act = "ScanImage"
            THEN \E r \in Reports[w.image] : w.vulns = Vulns(r)
            ELSE w.vulns = {}

\* Rows are whole before their commit is known.
RowsWhole == \A w \in db \cup late : Whole(w)

\* The rows of an image that are stored or may yet be.
Of(i) == {w \in db \cup late : w.image = i}

\* Every row but one was stored by an attempt that did not get its answer.
RowsCounted ==
  \A i \in Images :
    /\ IsFiniteSet(Of(i))
    /\ Cardinality(Of(i)) <= lost[i] + (IF pc[i] = "done" THEN 1 ELSE 0)

\* Every step to a missing row has cost a fault.
FaultsCounted ==
  /\ \A i \in Images :
       /\ act[i] = "SaveScanResult" => faults >= 1
       /\ pc[i] = "done" /\ Saved(i) = {} => act[i] = "SaveScanResult" /\ faults >= 2
  /\ phase = "ok" => \A i \in images : pc[i] = "done"

Inv == TypeOK /\ AttemptInv

--------------------------------------------------------------------------------
\* parseTrivyOutput.

LEMMA VulnsOfReport ==
  /\ \A r \in Seq(Findings) : Vulns(r) \subseteq Findings
  /\ Vulns(<<>>) = {}
BY DEF Vulns, Firsts

\* What is counted of a report is what is stored of it.
LEMMA CountsOfVulns ==
  ASSUME NEW r \in Seq(Findings), NEW s \in Counted
  PROVE  /\ Counts(r)[s] \in Nat
         /\ Counts(r)[s] = Cardinality({v \in Vulns(r) : v.severity = s})
<1> DEFINE places == {n \in Firsts(r) : r[n].severity = s}
           kept == {v \in Vulns(r) : v.severity = s}
           place == [n \in places |-> r[n]]
<1>1. Counts(r)[s] = Cardinality(places)
  BY DEF Counts
<1>2. places \in SUBSET (1..Len(r)) /\ Len(r) \in Nat
  BY DEF Firsts
<1>3. IsFiniteSet(places) /\ Cardinality(places) \in Nat
  <2>1. IsFiniteSet(1..Len(r))
    BY <1>2, FS_Interval
  <2>2. IsFiniteSet(places)
    BY <1>2, <2>1, FS_Subset
  <2>3. QED
    BY <2>2, FS_CardinalityType
<1>4. \A n \in places : r[n] \in kept
  BY DEF Vulns
<1>5. \A v \in kept : \E n \in places : r[n] = v
  BY DEF Vulns
<1>6. \A m, n \in places : r[m] = r[n] => m = n
  <2> SUFFICES ASSUME NEW m \in places, NEW n \in places, r[m] = r[n], m # n
               PROVE  FALSE
    OBVIOUS
  <2>1. m \in Nat /\ n \in Nat /\ m >= 1 /\ n >= 1
    BY <1>2
  <2>2. CASE m < n
    BY <2>1, <2>2 DEF Firsts
  <2>3. CASE n < m
    BY <2>1, <2>3 DEF Firsts
  <2>4. QED
    BY <2>1, <2>2, <2>3
<1> HIDE DEF places, kept
<1>7. place \in Surjection(places, kept) /\ place \in Injection(places, kept)
  BY <1>4, <1>5, <1>6 DEF Surjection, Injection, IsInjective
<1>8. Cardinality(kept) = Cardinality(places)
  BY <1>3, <1>7, FS_Surjection
<1>9. QED
  BY <1>1, <1>3, <1>8 DEF kept

--------------------------------------------------------------------------------
\* Types, and what an attempt has in hand.

LEMMA Initially == Init => Inv
<1> SUFFICES ASSUME Init PROVE Inv
  OBVIOUS
<1>1. TypeOK
  BY ScanAssumption DEF Init, TypeOK, Zero
<1>2. AttemptInv
  BY DEF Init, AttemptInv
<1>3. QED
  BY <1>1, <1>2 DEF Inv

LEMMA FaultTyped == ASSUME TypeOK, Fault PROVE faults' \in 0..MaxFaults /\ faults' = faults + 1
BY ScanAssumption DEF TypeOK, Fault

\* The types of what an attempt of an image works on.
AttemptTyped ==
  /\ act \in [Images -> {"ScanImage", "SaveScanResult"}]
  /\ pc \in [Images -> {"queued", "trivy", "insert", "vulns", "commit", "done"}]
  /\ tries \in [Images -> 0..MaximumAttempts - 1]
  /\ report \in [Images -> Seq(Findings)]
  /\ \A i \in Images : report[i] \in Reports[i] \cup {<<>>}
  /\ tx \in [Images -> SUBSET Findings]

\* A retry, the failure's own activity or the end begins with nothing in hand.
LEMMA EndsTyped ==
  ASSUME Inv, NEW i \in Images, AttemptEnds(i) \/ ActivityFails(i)
  PROVE  /\ AttemptTyped' /\ AttemptInv'
         /\ \A j \in Images \ {i} : act'[j] = act[j] /\ pc'[j] = pc[j]
         /\ act[i] = "SaveScanResult" => act'[i] = "SaveScanResult"
         /\ pc'[i] = "done" => act[i] = "SaveScanResult"
<1>1. \E activity \in {"ScanImage", "SaveScanResult"},
         step \in {"trivy", "insert", "done"}, n \in 0..MaximumAttempts - 1 :
        /\ Becomes(i, activity, step, n, <<>>)
        /\ activity = "SaveScanResult" <=> step # "trivy"
        /\ act[i] = "SaveScanResult" => activity = "SaveScanResult"
        /\ step = "done" => act[i] = "SaveScanResult"
  <2>1. /\ act[i] \in {"ScanImage", "SaveScanResult"}
        /\ tries[i] \in 0..MaximumAttempts - 1 /\ MaximumAttempts \in Nat
    BY ScanAssumption DEF Inv, TypeOK
  <2>2. CASE Retriable(i) /\ Becomes(i, act[i], First(i), tries[i] + 1, <<>>)
    <3>1. tries[i] + 1 \in 0..MaximumAttempts - 1
      BY <2>1, <2>2 DEF Retriable
    <3>2. QED
      BY <2>1, <2>2, <3>1 DEF First
  <2>3. CASE ActivityFails(i)
    <3>1. 0 \in 0..MaximumAttempts - 1
      BY <2>1
    <3>2. QED
      BY <2>1, <2>3, <3>1 DEF ActivityFails
  <2>4. QED
    BY <2>2, <2>3 DEF AttemptEnds
<1>2. PICK activity \in {"ScanImage", "SaveScanResult"},
           step \in {"trivy", "insert", "done"}, n \in 0..MaximumAttempts - 1 :
        /\ Becomes(i, activity, step, n, <<>>)
        /\ activity = "SaveScanResult" <=> step # "trivy"
        /\ act[i] = "SaveScanResult" => activity = "SaveScanResult"
        /\ step = "done" => act[i] = "SaveScanResult"
  BY <1>1
<1> USE DEF Inv, TypeOK, Becomes
<1>3. <<>> \in Seq(Findings)
  OBVIOUS
<1>4. AttemptTyped'
  BY <1>2, <1>3 DEF AttemptTyped
<1>5. AttemptInv'
  BY <1>2 DEF AttemptInv
<1>6. QED
  BY <1>2, <1>4, <1>5

LEMMA RowTyped == ASSUME TypeOK, NEW i \in Images PROVE Row(i) \in Rows
BY ScanAssumption DEF TypeOK, Row, Rows

LEMMA InvStep == Inv /\ [Next]_vars => Inv'
<1> SUFFICES ASSUME Inv, [Next]_vars PROVE Inv'
  OBVIOUS
<1> USE DEF Inv, TypeOK, workflow, attempt
<1>1. CASE GetRunningImages \/ Close \/ ImagesFail
  <2>1. faults' \in 0..MaxFaults
    BY <1>1, FaultTyped DEF GetRunningImages, Close, ImagesFail
  <2>2. QED
    BY <1>1, <2>1 DEF GetRunningImages, Close, ImagesFail, AttemptInv
<1>2. ASSUME NEW i \in Images, Acquire(i) PROVE Inv'
  BY <1>2 DEF Acquire, AttemptInv
<1>3. ASSUME NEW i \in Images, execTrivy(i) PROVE Inv'
  <2>1. PICK r \in Reports[i] : Becomes(i, act[i], "insert", tries[i], r)
    BY <1>3 DEF execTrivy
  <2>2. r \in Seq(Findings)
    BY ScanAssumption
  <2>3. TypeOK'
    BY <1>3, <2>1, <2>2 DEF execTrivy, Becomes
  <2>4. AttemptInv'
    BY <1>3, <2>1, <2>2 DEF execTrivy, Becomes, AttemptInv
  <2>5. QED
    BY <2>3, <2>4
<1>4. ASSUME NEW i \in Images, InsertScan(i) PROVE Inv'
  BY <1>4, VulnsOfReport DEF InsertScan, AttemptInv
<1>5. ASSUME NEW i \in Images, InsertVulnerability(i) PROVE Inv'
  BY <1>5, VulnsOfReport DEF InsertVulnerability, AttemptInv
<1>6. ASSUME NEW i \in Images, Commit(i) PROVE Inv'
  <2>1. Row(i) \in Rows
    BY RowTyped
  <2>2. Counts(report[i]) \in [Counted -> Nat]
    <3>1. \A s \in Counted : Counts(report[i])[s] \in Nat
      BY CountsOfVulns
    <3>2. QED
      BY <3>1 DEF Counts
  <2>3. TypeOK'
    BY <1>6, <2>1, <2>2 DEF Commit, Becomes
  <2>4. AttemptInv'
    BY <1>6 DEF Commit, Becomes, AttemptInv
  <2>5. QED
    BY <2>3, <2>4
<1>7. ASSUME NEW i \in Images, AttemptFails(i) \/ CommitLost(i) \/ ScanRefused(i) PROVE Inv'
  <2>1. faults' \in 0..MaxFaults /\ Row(i) \in Rows
    BY <1>7, FaultTyped, RowTyped DEF AttemptFails, CommitLost, ScanRefused
  <2>2. AttemptTyped' /\ AttemptInv'
    BY <1>7, EndsTyped DEF AttemptFails, CommitLost, ScanRefused
  <2>3. QED
    BY <1>7, <2>1, <2>2 DEF AttemptFails, CommitLost, ScanRefused, AttemptTyped, RolledBack
<1>8. ASSUME NEW w \in late, Late(w) PROVE Inv'
  BY <1>8 DEF Late, AttemptInv
<1>9. CASE UNCHANGED vars
  BY <1>9 DEF vars, AttemptInv
<1>10. QED
  BY <1>1, <1>2, <1>3, <1>4, <1>5, <1>6, <1>7, <1>8, <1>9 DEF Next, Run, Scan

LEMMA Invariant == Spec => []Inv
<1>1. QED
  BY Initially, InvStep, PTL DEF Spec

\* The state of every image, the rows and the counts keep their types.
THEOREM TypeCorrect == Spec => []TypeOK
<1>1. Inv => TypeOK
  BY DEF Inv
<1>2. QED
  BY <1>1, Invariant, PTL

--------------------------------------------------------------------------------
\* What is stored.

LEMMA RowsStep == Inv /\ RowsWhole /\ [Next]_vars => RowsWhole'
<1> SUFFICES ASSUME Inv, RowsWhole, [Next]_vars PROVE RowsWhole'
  OBVIOUS
<1> USE DEF workflow, attempt
<1>1. CASE UNCHANGED <<db, late>>
  BY <1>1 DEF RowsWhole
<1>2. ASSUME NEW i \in Images, Commit(i) \/ CommitLost(i) PROVE RowsWhole'
  <2>1. Whole(Row(i))
    BY <1>2, VulnsOfReport DEF Commit, CommitLost, Whole, Row, Inv, TypeOK, AttemptInv
  <2>2. db' \cup late' = db \cup late \cup {Row(i)}
    BY <1>2 DEF Commit, CommitLost
  <2>3. QED
    BY <2>1, <2>2 DEF RowsWhole
<1>3. ASSUME NEW w \in late, Late(w) PROVE RowsWhole'
  BY <1>3 DEF Late, RowsWhole
<1>4. CASE \/ GetRunningImages \/ Close \/ ImagesFail
           \/ \E i \in Images : \/ Acquire(i) \/ execTrivy(i) \/ InsertScan(i)
                                \/ InsertVulnerability(i) \/ AttemptFails(i) \/ ScanRefused(i)
  <2>1. UNCHANGED <<db, late>>
    BY <1>4 DEF GetRunningImages, Close, ImagesFail, Acquire, execTrivy, InsertScan,
                InsertVulnerability, AttemptFails, RolledBack, ScanRefused
  <2>2. QED
    BY <1>1, <2>1
<1>5. CASE UNCHANGED vars
  BY <1>1, <1>5 DEF vars
<1>6. QED
  BY <1>2, <1>3, <1>4, <1>5 DEF Next, Run, Scan

\* What can be read of a scan is all of a report, or nothing for a failed scan.
THEOREM StoresWholeScans == Spec => []ScansAreComplete
<1>1. Init => RowsWhole
  BY DEF Init, RowsWhole
<1>2. RowsWhole => ScansAreComplete
  BY DEF RowsWhole, ScansAreComplete, Whole
<1>3. QED
  BY <1>1, <1>2, RowsStep, Invariant, PTL DEF Spec

--------------------------------------------------------------------------------
\* What the workflow reports.

LEMMA SummaryStep == Inv /\ SummaryIsStored /\ [Next]_vars => SummaryIsStored'
<1> SUFFICES ASSUME Inv, SummaryIsStored, [Next]_vars, NEW i \in Images, summary'[i] # Zero
             PROVE  \E w \in Saved(i)' : \A s \in Counted :
                      summary'[i][s] = Cardinality({v \in w.vulns : v.severity = s})
  BY DEF SummaryIsStored, Zero
<1> USE DEF workflow, attempt
<1>1. CASE Commit(i)
  <2>1. Row(i) \in Saved(i)'
    BY <1>1 DEF Commit, Saved, Row
  <2>2. Row(i).vulns = Vulns(report[i]) /\ report[i] \in Seq(Findings)
    BY <1>1 DEF Commit, Row, Inv, TypeOK, AttemptInv
  <2>3. summary'[i] = Counts(report[i])
    BY <1>1 DEF Commit, Inv, TypeOK
  <2>4. QED
    BY <2>1, <2>2, <2>3, CountsOfVulns
<1>2. CASE summary'[i] = summary[i] /\ \A w \in db : w \in db'
  BY <1>2 DEF SummaryIsStored, Saved
<1>3. ASSUME NEW j \in Images \ {i}, Commit(j)
      PROVE  summary'[i] = summary[i] /\ \A w \in db : w \in db'
  BY <1>3 DEF Commit, Inv, TypeOK
<1>4. ASSUME NEW j \in Images, Acquire(j) \/ execTrivy(j) \/ InsertScan(j) \/ InsertVulnerability(j)
      PROVE  summary'[i] = summary[i] /\ \A w \in db : w \in db'
  BY <1>4 DEF Acquire, execTrivy, InsertScan, InsertVulnerability
<1>5. ASSUME NEW j \in Images, AttemptFails(j) \/ CommitLost(j) \/ ScanRefused(j)
      PROVE  summary'[i] = summary[i] /\ \A w \in db : w \in db'
  BY <1>5 DEF AttemptFails, RolledBack, CommitLost, ScanRefused
<1>6. CASE \/ GetRunningImages \/ Close \/ ImagesFail \/ UNCHANGED vars
           \/ \E w \in late : Late(w)
  <2>1. summary'[i] = summary[i] /\ \A w \in db : w \in db'
    BY <1>6 DEF GetRunningImages, Close, ImagesFail, Late, vars
  <2>2. QED
    BY <1>2, <2>1
<1>7. QED
  BY <1>1, <1>2, <1>3, <1>4, <1>5, <1>6 DEF Next, Run, Scan

\* The counts the workflow got for an image are those of a scan it can look up.
THEOREM ReportsStoredScans == Spec => []SummaryIsStored
<1>1. Init => SummaryIsStored
  BY DEF Init, SummaryIsStored
<1>2. QED
  BY <1>1, SummaryStep, Invariant, PTL DEF Spec

--------------------------------------------------------------------------------
\* Every image is on record.

\* The rows of an image grow by at most the one that is committed.
LEMMA RowAdded ==
  ASSUME NEW i \in Images, NEW w, IsFiniteSet(Of(i)),
         db' \cup late' \subseteq db \cup late \cup {w}
  PROVE  /\ IsFiniteSet(Of(i)') /\ Cardinality(Of(i)') \in Nat /\ Cardinality(Of(i)) \in Nat
         /\ Cardinality(Of(i)') <= Cardinality(Of(i)) + 1
         /\ w.image # i => Cardinality(Of(i)') <= Cardinality(Of(i))
<1>1. /\ IsFiniteSet(Of(i) \cup {w}) /\ Cardinality(Of(i)) \in Nat
      /\ Cardinality(Of(i) \cup {w}) \in {Cardinality(Of(i)), Cardinality(Of(i)) + 1}
  BY FS_AddElement, FS_CardinalityType
<1>2. Of(i)' \in SUBSET (Of(i) \cup {w})
  BY DEF Of
<1>3. /\ IsFiniteSet(Of(i)') /\ Cardinality(Of(i)') \in Nat
      /\ Cardinality(Of(i)') <= Cardinality(Of(i) \cup {w})
  BY <1>1, <1>2, FS_Subset, FS_CardinalityType
<1>4. ASSUME w.image # i PROVE Cardinality(Of(i)') <= Cardinality(Of(i))
  <2>1. Of(i)' \in SUBSET Of(i)
    BY <1>4 DEF Of
  <2>2. QED
    BY <2>1, FS_Subset
<1>5. QED
  BY <1>1, <1>3, <1>4

LEMMA RowsCountedStep == Inv /\ RowsCounted /\ [Next]_vars => RowsCounted'
<1> SUFFICES ASSUME Inv, RowsCounted, [Next]_vars, NEW i \in Images
             PROVE  /\ IsFiniteSet(Of(i)')
                    /\ Cardinality(Of(i)') <= lost'[i] + (IF pc'[i] = "done" THEN 1 ELSE 0)
  BY DEF RowsCounted
<1> DEFINE allowed == lost[i] + (IF pc[i] = "done" THEN 1 ELSE 0)
<1>1. IsFiniteSet(Of(i)) /\ Cardinality(Of(i)) <= allowed /\ lost[i] \in Nat
  BY DEF RowsCounted, Inv, TypeOK
<1> USE DEF workflow, attempt
<1>2. ASSUME db' \cup late' \subseteq db \cup late, lost'[i] = lost[i],
             pc[i] = "done" => pc'[i] = "done"
      PROVE  /\ IsFiniteSet(Of(i)')
             /\ Cardinality(Of(i)') <= lost'[i] + (IF pc'[i] = "done" THEN 1 ELSE 0)
  <2>1. Of(i)' \in SUBSET Of(i)
    BY <1>2 DEF Of
  <2>2. /\ IsFiniteSet(Of(i)') /\ Cardinality(Of(i)') \in Nat /\ Cardinality(Of(i)) \in Nat
        /\ Cardinality(Of(i)') <= Cardinality(Of(i))
    BY <1>1, <2>1, FS_Subset, FS_CardinalityType
  <2>3. QED
    BY <1>1, <1>2, <2>2
<1>3. ASSUME NEW j \in Images, Commit(j) \/ CommitLost(j)
      PROVE  /\ IsFiniteSet(Of(i)')
             /\ Cardinality(Of(i)') <= lost'[i] + (IF pc'[i] = "done" THEN 1 ELSE 0)
  <2>1. db' \cup late' \subseteq db \cup late \cup {Row(j)} /\ Row(j).image = j
    BY <1>3 DEF Commit, CommitLost, Row
  <2>2. /\ IsFiniteSet(Of(i)') /\ Cardinality(Of(i)') \in Nat /\ Cardinality(Of(i)) \in Nat
        /\ Cardinality(Of(i)') <= Cardinality(Of(i)) + 1
        /\ j # i => Cardinality(Of(i)') <= Cardinality(Of(i))
    BY <1>1, <2>1, RowAdded
  <2>3. pc[j] = "commit"
    BY <1>3 DEF Commit, CommitLost
  <2>4. CASE j # i
    <3>1. pc'[i] = pc[i] /\ lost'[i] = lost[i]
      BY <1>3, <2>4, EndsTyped DEF Commit, CommitLost, Becomes, Inv, TypeOK
    <3>2. QED
      BY <1>1, <2>2, <2>4, <3>1
  <2>5. CASE j = i /\ Commit(j)
    <3>1. pc'[i] = "done" /\ lost'[i] = lost[i]
      BY <2>5 DEF Commit, Becomes, Inv, TypeOK
    <3>2. QED
      BY <1>1, <2>2, <2>3, <2>5, <3>1
  <2>6. CASE j = i /\ CommitLost(j)
    <3>1. lost'[i] = lost[i] + 1
      BY <2>6 DEF CommitLost, Inv, TypeOK
    <3>2. QED
      BY <1>1, <2>2, <2>3, <2>6, <3>1
  <2>7. QED
    BY <1>3, <2>4, <2>5, <2>6
<1>4. ASSUME NEW j \in Images, Acquire(j) \/ execTrivy(j) \/ InsertScan(j) \/ InsertVulnerability(j)
      PROVE  db' \cup late' \subseteq db \cup late /\ lost'[i] = lost[i] /\ (pc[i] = "done" => pc'[i] = "done")
  BY <1>4 DEF Acquire, execTrivy, InsertScan, InsertVulnerability, Becomes, Inv, TypeOK
<1>5. ASSUME NEW j \in Images, AttemptFails(j) \/ ScanRefused(j)
      PROVE  db' \cup late' \subseteq db \cup late /\ lost'[i] = lost[i] /\ (pc[i] = "done" => pc'[i] = "done")
  <2>1. Active(j) /\ \A k \in Images \ {j} : pc'[k] = pc[k]
    BY <1>5, EndsTyped DEF AttemptFails, ScanRefused, Active
  <2>2. QED
    BY <1>5, <2>1 DEF AttemptFails, RolledBack, ScanRefused, Active
<1>6. CASE \/ GetRunningImages \/ Close \/ ImagesFail \/ UNCHANGED vars
           \/ \E w \in late : Late(w)
  <2>1. db' \cup late' \subseteq db \cup late /\ lost'[i] = lost[i] /\ pc'[i] = pc[i]
    BY <1>6 DEF GetRunningImages, Close, ImagesFail, Late, vars
  <2>2. QED
    BY <1>2, <2>1
<1>7. QED
  BY <1>2, <1>3, <1>4, <1>5, <1>6 DEF Next, Run, Scan

LEMMA FaultsCountedStep == Inv /\ FaultsCounted /\ [Next]_vars => FaultsCounted'
<1> SUFFICES ASSUME Inv, FaultsCounted, [Next]_vars PROVE FaultsCounted'
  OBVIOUS
<1> USE DEF workflow, attempt, Inv, TypeOK, FaultsCounted, Saved, Active
<1>1. CASE GetRunningImages \/ Close
  BY <1>1 DEF GetRunningImages, Close
<1>2. CASE ImagesFail
  BY <1>2, FaultTyped DEF ImagesFail
<1>3. ASSUME NEW i \in Images, Acquire(i) \/ InsertScan(i) \/ InsertVulnerability(i)
      PROVE  FaultsCounted'
  BY <1>3 DEF Acquire, InsertScan, InsertVulnerability
<1>4. ASSUME NEW i \in Images, execTrivy(i) PROVE FaultsCounted'
  BY <1>4 DEF execTrivy, Becomes
<1>5. ASSUME NEW i \in Images, Commit(i) PROVE FaultsCounted'
  <2>1. Row(i) \in db' /\ Row(i).image = i
    BY <1>5 DEF Commit, Row
  <2>2. QED
    BY <1>5, <2>1 DEF Commit, Becomes
<1>6. ASSUME NEW i \in Images, AttemptFails(i) \/ CommitLost(i) \/ ScanRefused(i)
      PROVE  FaultsCounted'
  <2>1. /\ Active(i) /\ faults' = faults + 1 /\ phase' = phase /\ images' = images
        /\ \A w \in db : w \in db'
    BY <1>6, FaultTyped DEF AttemptFails, CommitLost, ScanRefused, RolledBack
  <2>2. /\ \A j \in Images \ {i} : act'[j] = act[j] /\ pc'[j] = pc[j]
        /\ act[i] = "SaveScanResult" => act'[i] = "SaveScanResult"
        /\ pc'[i] = "done" => act[i] = "SaveScanResult"
    BY <1>6, EndsTyped DEF AttemptFails, CommitLost, ScanRefused
  <2>3. pc[i] # "done"
    BY <2>1
  <2>4. ASSUME NEW j \in Images
        PROVE  /\ act'[j] = "SaveScanResult" => faults' >= 1
               /\ pc'[j] = "done" /\ Saved(j)' = {} => act'[j] = "SaveScanResult" /\ faults' >= 2
    <3>1. CASE j = i
      BY <2>1, <2>2, <3>1
    <3>2. CASE j # i
      BY <2>1, <2>2, <3>2
    <3>3. QED
      BY <3>1, <3>2
  <2>5. phase' = "ok" => \A j \in images' : pc'[j] = "done"
    BY <2>1, <2>2, <2>3
  <2>6. QED
    BY <2>4, <2>5
<1>7. ASSUME NEW w \in late, Late(w) PROVE FaultsCounted'
  BY <1>7 DEF Late
<1>8. CASE UNCHANGED vars
  BY <1>8 DEF vars
<1>9. QED
  BY <1>1, <1>2, <1>3, <1>4, <1>5, <1>6, <1>7, <1>8 DEF Next, Run, Scan

\* When the run has closed every image has a row, unless saving the failure of its
\* scan failed too, and more than one only for the answers that were lost.
THEOREM EveryImageIsOnRecord == Spec => []EveryImageOnRecord
<1>1. Init => RowsCounted /\ FaultsCounted
  BY FS_EmptySet DEF Init, RowsCounted, FaultsCounted, Of
<1>2. Inv /\ RowsCounted /\ FaultsCounted => EveryImageOnRecord
  <2> SUFFICES ASSUME Inv, RowsCounted, FaultsCounted, phase = "ok", NEW i \in images
               PROVE  /\ Saved(i) = {} => act[i] = "SaveScanResult" /\ faults >= 2
                      /\ Cardinality(Saved(i)) <= 1 + lost[i]
    BY DEF EveryImageOnRecord
  <2>1. i \in Images /\ pc[i] = "done" /\ lost[i] \in Nat
    BY DEF Inv, TypeOK, FaultsCounted
  <2>2. IsFiniteSet(Of(i)) /\ Cardinality(Of(i)) <= lost[i] + 1
    BY <2>1 DEF RowsCounted
  <2>3. Saved(i) \in SUBSET Of(i)
    BY DEF Saved, Of
  <2>4. /\ Cardinality(Saved(i)) \in Nat /\ Cardinality(Of(i)) \in Nat
        /\ Cardinality(Saved(i)) <= Cardinality(Of(i))
    BY <2>2, <2>3, FS_Subset, FS_CardinalityType
  <2>5. QED
    BY <2>1, <2>2, <2>4 DEF FaultsCounted
<1>3. QED
  BY <1>1, <1>2, RowsCountedStep, FaultsCountedStep, Invariant, PTL DEF Spec

================================================================================
