---------------------------- MODULE MediaImportProofs ----------------------------
(***************************************************************************)
(* What MediaImport guarantees for every set of downloads and whatever is  *)
(* in them, any number of attempts and faults.                             *)
(***************************************************************************)
EXTENDS MediaImport, FiniteSetTheorems, TLAPS

\* Only the folders of the run are offered, and all of them before it goes on.
FlowInv ==
  /\ folders \subseteq complete
  /\ phase # "ok" => refreshes < MaximumAttempts
  /\ phase \in {"list", "error"} => folders = {}
  /\ phase \in {"refresh", "ok"} => \A f \in folders : pc[f] = "done"

\* The reasons why a file may not be imported, but the one that is overridden.
Wanted(x) == x.rejects \subseteq {"unexpected"}

\* Radarr is offered what Sonarr recognises nothing in; what an attempt imports is in
\* its folder, recognised and wanted; a folder that is done has not been forgotten.
Offer(f) ==
  /\ pc[f] # "queued" => f \in folders
  /\ app[f] = "radarr" => Recognised(f, "sonarr") = {}
  /\ pc[f] = "post" =>
       /\ ~dryRun /\ files[f] \subseteq Recognised(f, app[f])
       /\ (\A x \in files[f] : Wanted(x)) /\ result[f].imported > 0
  /\ pc[f] = "done" => result[f].flagged \/ result[f].imported + result[f].skipped > 0

OfferInv == \A f \in Folders : Offer(f)

\* An import is of an episode, or of a folder without episodes.
Sorted(c) ==
  /\ c[2] = "sonarr" => c[1].sonarr = "episodes"
  /\ c[2] = "radarr" => Recognised(c[1].folder, "sonarr") = {}

\* What may yet be accepted was asked for, in this run, and the answer is lost.
RequestInv ==
  /\ \A c \in accepted \cup late : Sorted(c)
  /\ \A c \in late : ~dryRun /\ Wanted(c[1]) /\ c[1].folder \in complete \cap lost

\* An import that no scan has followed belongs to a folder that makes the run ask for
\* one, unless its answer is lost.
ScanInv ==
  \A c \in accepted \ scanned :
    \/ c[1].folder \in lost
    \/ /\ ~dryRun /\ c[1].folder \in folders
       /\ pc[c[1].folder] = "done" /\ result[c[1].folder].imported > 0
       /\ phase \in {"import", "refresh"} \/ refreshes > 0

TypeInv == TypeOK /\ FlowInv /\ OfferInv
Inv == TypeInv /\ RequestInv /\ ScanInv

--------------------------------------------------------------------------------
\* Decisions.

Results == [imported : Nat, skipped : Nat, noMatch : BOOLEAN, flagged : BOOLEAN]

LEMMA Parameters ==
  /\ MaximumAttempts \in Nat \ {0} /\ MaxFaults \in Nat
  /\ \A x \in Files : x.folder \in Folders
BY MediaAssumption

LEMMA CountOfFiles ==
  ASSUME NEW S \in SUBSET Files
  PROVE  Cardinality(S) \in Nat /\ (S # {} => Cardinality(S) > 0)
<1>1. IsFiniteSet(S)
  BY MediaAssumption, FS_Subset
<1>2. Cardinality(S) \in Nat /\ (Cardinality(S) = 0 <=> S = {})
  BY <1>1, FS_CardinalityType, FS_EmptySet
<1>3. QED
  BY <1>2

LEMMA RecognisedInFolder ==
  ASSUME NEW f \in Folders, NEW a
  PROVE  /\ Missing(f, a) \subseteq Recognised(f, a) /\ Recognised(f, a) \subseteq Files
         /\ \A x \in Recognised(f, a) : x.folder = f
         /\ \A x \in Missing(f, a) : Wanted(x)
<1>1. Missing(f, a) \subseteq Recognised(f, a) /\ Recognised(f, a) \subseteq Files
  BY DEF Missing, Recognised, In
<1>2. \A x \in Recognised(f, a) : x.folder = f
  BY DEF Recognised, In
<1>3. \A x \in Missing(f, a) : Wanted(x)
  <2> SUFFICES ASSUME NEW x \in Missing(f, a) PROVE x.rejects \subseteq {"unexpected"}
    BY DEF Wanted
  <2>1. Rejects(x, a) \subseteq {"unexpected"} /\ x.rejects \subseteq Rejects(x, a)
    BY DEF Missing, importable, Rejects
  <2>2. QED
    BY <2>1
<1>4. QED
  BY <1>1, <1>2, <1>3

\* The result of a folder accounts for every file that was recognised.
LEMMA ResultOfFolder ==
  ASSUME TypeOK, NEW f \in Folders
  PROVE  LET r == Result(f, Missing(f, app[f]))
         IN  /\ r \in Results
             /\ Missing(f, app[f]) # {} => r.imported > 0
             /\ r.noMatch <=> Recognised(f, app[f]) = {}
             /\ r.flagged <=> app[f] = "radarr" /\ r.noMatch
             /\ ~r.noMatch => r.imported + r.skipped > 0
<1> DEFINE xs == Missing(f, app[f])
           ys == Recognised(f, app[f])
           r == Result(f, xs)
<1>1. xs \subseteq ys /\ ys \subseteq Files
  BY RecognisedInFolder
<1>2. /\ Cardinality(xs) \in Nat /\ (xs # {} => Cardinality(xs) > 0)
      /\ Cardinality(ys \ xs) \in Nat /\ (ys \ xs # {} => Cardinality(ys \ xs) > 0)
  <2> HIDE DEF xs, ys
  <2>1. xs \in SUBSET Files /\ (ys \ xs) \in SUBSET Files
    BY <1>1
  <2>2. QED
    BY <2>1, CountOfFiles
<1>3. /\ r.imported = Cardinality(xs) /\ r.skipped = Cardinality(ys \ xs)
      /\ r.noMatch = (ys = {}) /\ r.flagged = (app[f] = "radarr" /\ (ys = {}))
      /\ r = [imported |-> Cardinality(xs), skipped |-> Cardinality(ys \ xs),
              noMatch |-> (ys = {}), flagged |-> (app[f] = "radarr" /\ (ys = {}))]
  BY DEF Result, NoMatch
<1>4. r \in Results
  <2> HIDE DEF xs, ys, r
  <2>1. (ys = {}) \in BOOLEAN /\ (app[f] = "radarr" /\ (ys = {})) \in BOOLEAN
    OBVIOUS
  <2>2. QED
    BY <1>2, <1>3, <2>1 DEF Results
<1>5. ys # {} => r.imported + r.skipped > 0
  <2> HIDE DEF xs, ys, r
  <2>1. QED
    BY <1>1, <1>2, <1>3
<1>6. xs # {} => r.imported > 0
  <2> HIDE DEF xs, ys, r
  <2>1. QED
    BY <1>2, <1>3
<1>7. (r.noMatch <=> ys = {}) /\ (r.flagged <=> app[f] = "radarr" /\ r.noMatch)
  <2> HIDE DEF xs, ys, r
  <2>1. QED
    BY <1>3
<1>8. ~r.noMatch => r.imported + r.skipped > 0
  BY <1>5, <1>7
<1>9. QED
  <2> HIDE DEF xs, ys, r
  <2>1. /\ r \in Results /\ (xs # {} => r.imported > 0)
        /\ r.noMatch <=> ys = {}
        /\ r.flagged <=> app[f] = "radarr" /\ r.noMatch
        /\ ~r.noMatch => r.imported + r.skipped > 0
    BY <1>4, <1>6, <1>7, <1>8
  <2>2. QED
    BY <2>1, Zenon DEF xs, ys, r

--------------------------------------------------------------------------------
\* Types, and what is offered to whom.

AttemptType ==
  /\ app \in [Folders -> Apps]
  /\ pc \in [Folders -> {"queued", "ask", "post", "done"}]
  /\ tries \in [Folders -> 0..MaximumAttempts - 1]
  /\ files \in [Folders -> SUBSET Files]
  /\ result \in [Folders -> Results]

LEMMA BecomesOf ==
  ASSUME TypeOK, NEW f \in Folders, NEW a \in Apps, NEW step \in {"ask", "post", "done"},
         NEW n \in 0..MaximumAttempts - 1, NEW xs \in SUBSET Files, NEW r \in Results,
         Becomes(f, a, step, n, xs, r)
  PROVE  /\ AttemptType'
         /\ app'[f] = a /\ pc'[f] = step /\ files'[f] = xs /\ result'[f] = r
         /\ \A g \in Folders \ {f} :
              app'[g] = app[g] /\ pc'[g] = pc[g] /\ files'[g] = files[g] /\ result'[g] = result[g]
BY DEF TypeOK, AttemptType, Becomes, Results

LEMMA PendingResult == Pending \in Results /\ [Pending EXCEPT !.flagged = TRUE] \in Results
                       /\ [Pending EXCEPT !.flagged = TRUE].flagged
BY DEF Pending, Results

LEMMA OfferKept ==
  ASSUME NEW g \in Folders, Offer(g),
         app'[g] = app[g], pc'[g] = pc[g], files'[g] = files[g], result'[g] = result[g],
         dryRun' = dryRun, folders \subseteq folders'
  PROVE  Offer(g)'
BY DEF Offer

\* What the steps of a folder's activity do.
LEMMA Decisions ==
  ASSUME TypeInv, NEW f \in Folders, arrDecisions(f)
  PROVE  AttemptType' /\ OfferInv' /\ \A g \in Folders \ {f} : pc'[g] = pc[g] /\ result'[g] = result[g]
<1> DEFINE xs == Missing(f, app[f])
           r == Result(f, xs)
<1>1. /\ TypeOK /\ OfferInv /\ pc[f] = "ask" /\ f \in folders
      /\ app[f] \in Apps /\ tries[f] \in 0..MaximumAttempts - 1 /\ UNCHANGED <<dryRun, folders>>
  BY DEF TypeInv, TypeOK, OfferInv, Offer, arrDecisions, workflow
<1>2. /\ xs \subseteq Recognised(f, app[f]) /\ xs \subseteq Files /\ \A x \in xs : Wanted(x)
  BY RecognisedInFolder
<1>3. /\ r \in Results /\ (xs # {} => r.imported > 0)
      /\ r.noMatch <=> Recognised(f, app[f]) = {}
      /\ r.flagged <=> app[f] = "radarr" /\ r.noMatch
      /\ ~r.noMatch => r.imported + r.skipped > 0
  BY <1>1, ResultOfFolder
<1>4. \/ xs # {} /\ ~dryRun /\ Becomes(f, app[f], "post", tries[f], xs, r)
      \/ /\ xs = {} \/ dryRun
         /\ IF r.noMatch /\ app[f] = "sonarr"
            THEN Becomes(f, "radarr", "ask", 0, {}, Pending)
            ELSE Becomes(f, app[f], "done", tries[f], {}, r)
  BY DEF arrDecisions
<1>5. \A g \in Folders : Offer(g)
  BY <1>1 DEF OfferInv
<1> HIDE DEF xs, r
<1>6. CASE xs # {} /\ ~dryRun /\ Becomes(f, app[f], "post", tries[f], xs, r)
  <2>1. /\ AttemptType'
        /\ app'[f] = app[f] /\ pc'[f] = "post" /\ files'[f] = xs /\ result'[f] = r
        /\ \A g \in Folders \ {f} :
             app'[g] = app[g] /\ pc'[g] = pc[g] /\ files'[g] = files[g] /\ result'[g] = result[g]
    BY <1>1, <1>2, <1>3, <1>6, BecomesOf
  <2>2. Offer(f)'
    BY <1>1, <1>2, <1>3, <1>5, <1>6, <2>1 DEF Offer
  <2>3. \A g \in Folders \ {f} : Offer(g)'
    BY <1>1, <1>5, <2>1, OfferKept
  <2>4. QED
    BY <2>1, <2>2, <2>3 DEF OfferInv
<1>7. CASE r.noMatch /\ app[f] = "sonarr" /\ Becomes(f, "radarr", "ask", 0, {}, Pending)
  <2>1. /\ AttemptType'
        /\ app'[f] = "radarr" /\ pc'[f] = "ask"
        /\ \A g \in Folders \ {f} :
             app'[g] = app[g] /\ pc'[g] = pc[g] /\ files'[g] = files[g] /\ result'[g] = result[g]
    <3>1. 0 \in 0..MaximumAttempts - 1 /\ "radarr" \in Apps
      BY Parameters DEF Apps
    <3>2. QED
      BY <1>1, <1>7, <3>1, PendingResult, BecomesOf
  <2>2. Offer(f)'
    BY <1>1, <1>3, <1>7, <2>1 DEF Offer
  <2>3. \A g \in Folders \ {f} : Offer(g)'
    BY <1>1, <1>5, <2>1, OfferKept
  <2>4. QED
    BY <2>1, <2>2, <2>3 DEF OfferInv
<1>8. CASE ~(r.noMatch /\ app[f] = "sonarr") /\ Becomes(f, app[f], "done", tries[f], {}, r)
  <2>1. /\ AttemptType'
        /\ app'[f] = app[f] /\ pc'[f] = "done" /\ result'[f] = r
        /\ \A g \in Folders \ {f} :
             app'[g] = app[g] /\ pc'[g] = pc[g] /\ files'[g] = files[g] /\ result'[g] = result[g]
    BY <1>1, <1>3, <1>8, BecomesOf
  <2>2. r.flagged \/ r.imported + r.skipped > 0
    BY <1>1, <1>3, <1>8 DEF Apps
  <2>3. Offer(f)'
    BY <1>1, <1>5, <2>1, <2>2 DEF Offer
  <2>4. \A g \in Folders \ {f} : Offer(g)'
    BY <1>1, <1>5, <2>1, OfferKept
  <2>5. QED
    BY <2>1, <2>3, <2>4 DEF OfferInv
<1>9. QED
  BY <1>4, <1>6, <1>7, <1>8

LEMMA Posting ==
  ASSUME TypeInv, NEW f \in Folders, arrManualImport(f)
  PROVE  /\ AttemptType' /\ OfferInv' /\ pc'[f] = "done" /\ result'[f] = result[f]
         /\ \A g \in Folders \ {f} : pc'[g] = pc[g] /\ result'[g] = result[g]
<1>1. /\ TypeOK /\ OfferInv /\ pc[f] = "post" /\ result[f] \in Results
      /\ app[f] \in Apps /\ tries[f] \in 0..MaximumAttempts - 1 /\ UNCHANGED <<dryRun, folders>>
      /\ Becomes(f, app[f], "done", tries[f], {}, result[f])
  BY DEF TypeInv, TypeOK, arrManualImport, workflow, Results
<1>2. /\ AttemptType'
      /\ app'[f] = app[f] /\ pc'[f] = "done" /\ result'[f] = result[f]
      /\ \A g \in Folders \ {f} :
           app'[g] = app[g] /\ pc'[g] = pc[g] /\ files'[g] = files[g] /\ result'[g] = result[g]
  BY <1>1, BecomesOf
<1>3. result[f].imported > 0 /\ result[f].imported \in Nat /\ result[f].skipped \in Nat
  BY <1>1 DEF OfferInv, Offer, Results
<1>4. Offer(f)'
  BY <1>1, <1>2, <1>3 DEF OfferInv, Offer
<1>5. \A g \in Folders \ {f} : Offer(g)'
  BY <1>1, <1>2, OfferKept DEF OfferInv
<1>6. QED
  BY <1>2, <1>4, <1>5 DEF OfferInv

LEMMA Retrying ==
  ASSUME TypeInv, NEW f \in Folders, Active(f), AttemptEnds(f), UNCHANGED <<dryRun, folders>>
  PROVE  AttemptType' /\ OfferInv' /\ \A g \in Folders \ {f} : pc'[g] = pc[g] /\ result'[g] = result[g]
<1>1. /\ TypeOK /\ OfferInv /\ f \in folders
      /\ app[f] \in Apps /\ tries[f] \in 0..MaximumAttempts - 1
  BY DEF TypeInv, TypeOK, OfferInv, Offer, Active
<1> DEFINE flag == [Pending EXCEPT !.flagged = TRUE]
<1>2. Pending \in Results /\ flag \in Results /\ flag.flagged
  BY PendingResult
<1> HIDE DEF flag
<1>3. CASE Retriable(tries[f]) /\ Becomes(f, app[f], "ask", tries[f] + 1, {}, Pending)
  <2>1. tries[f] + 1 \in 0..MaximumAttempts - 1
    BY <1>1, <1>3, Parameters DEF Retriable
  <2>2. /\ AttemptType'
        /\ app'[f] = app[f] /\ pc'[f] = "ask"
        /\ \A g \in Folders \ {f} :
             app'[g] = app[g] /\ pc'[g] = pc[g] /\ files'[g] = files[g] /\ result'[g] = result[g]
    BY <1>1, <1>2, <1>3, <2>1, BecomesOf
  <2>3. Offer(f)'
    BY <1>1, <2>2 DEF OfferInv, Offer
  <2>4. \A g \in Folders \ {f} : Offer(g)'
    BY <1>1, <2>2, OfferKept DEF OfferInv
  <2>5. QED
    BY <2>2, <2>3, <2>4 DEF OfferInv
<1>4. CASE Becomes(f, app[f], "done", tries[f], {}, flag)
  <2>1. /\ AttemptType'
        /\ app'[f] = app[f] /\ pc'[f] = "done" /\ result'[f] = flag
        /\ \A g \in Folders \ {f} :
             app'[g] = app[g] /\ pc'[g] = pc[g] /\ files'[g] = files[g] /\ result'[g] = result[g]
    BY <1>1, <1>2, <1>4, BecomesOf
  <2>2. Offer(f)'
    BY <1>1, <1>2, <2>1 DEF OfferInv, Offer
  <2>3. \A g \in Folders \ {f} : Offer(g)'
    BY <1>1, <2>1, OfferKept DEF OfferInv
  <2>4. QED
    BY <2>1, <2>2, <2>3 DEF OfferInv
<1>5. QED
  BY <1>3, <1>4 DEF AttemptEnds, GivenUp, flag

\* While a folder is being offered, the run has not gone on.
LEMMA Offering ==
  ASSUME TypeInv, NEW f \in Folders, pc[f] \in {"ask", "post"}
  PROVE  phase = "import" /\ f \in folders
BY DEF TypeInv, TypeOK, FlowInv, OfferInv, Offer

\* The imports of an attempt that are asked for.
LEMMA Asked ==
  ASSUME TypeInv, NEW f \in Folders, pc[f] = "post", NEW c \in files[f] \X {app[f]}
  PROVE  /\ c[1].folder = f /\ c[1] \in Files /\ Wanted(c[1]) /\ Sorted(c)
         /\ ~dryRun /\ f \in complete /\ c \in Files \X Apps
<1>1. Offer(f) /\ app[f] \in Apps /\ f \in folders /\ f \in complete
  BY Offering DEF TypeInv, TypeOK, OfferInv, FlowInv
<1>2. c[1] \in files[f] /\ c[2] = app[f] /\ c = <<c[1], c[2]>>
  OBVIOUS
<1>3. c[1] \in Recognised(f, app[f]) /\ Wanted(c[1]) /\ ~dryRun
  BY <1>1, <1>2 DEF Offer
<1>4. c[1].folder = f /\ c[1] \in Files
  BY <1>3, RecognisedInFolder
<1>5. Sorted(c)
  BY <1>1, <1>2, <1>3, <1>4 DEF Offer, Sorted, Recognised
<1>6. c \in Files \X Apps
  BY <1>1, <1>2, <1>4
<1>7. QED
  BY <1>1, <1>3, <1>4, <1>5, <1>6

LEMMA TypeInit == Init => TypeInv
<1> SUFFICES ASSUME Init PROVE TypeInv
  OBVIOUS
<1>1. PICK earlier \in SUBSET Files : library = earlier \X {"sonarr"} /\ accepted = library /\ scanned = library
  BY DEF Init
<1>2. library \subseteq Files \X Apps
  BY <1>1 DEF Apps
<1>3. UNION {accepted, library, late, scanned} \subseteq Files \X Apps
  BY <1>1, <1>2 DEF Init
<1>4. result \in [Folders -> Results]
  BY PendingResult DEF Init
<1>5. dryRun \in BOOLEAN
  BY DEF Init
<1>6. TypeOK
  BY <1>3, <1>4, <1>5, Parameters DEF Init, TypeOK, Results, Apps
<1>7. FlowInv /\ OfferInv
  BY Parameters DEF Init, FlowInv, OfferInv, Offer
<1>8. QED
  BY <1>6, <1>7 DEF TypeInv

LEMMA TypeStep == TypeInv /\ [Next]_vars => TypeInv'
<1> SUFFICES ASSUME TypeInv, [Next]_vars PROVE TypeInv'
  OBVIOUS
<1>1. TypeOK /\ FlowInv /\ OfferInv /\ AttemptType
  BY DEF TypeInv, TypeOK, AttemptType, Results
<1>2. \A f \in Folders : Offer(f)
  BY <1>1 DEF OfferInv
<1>3. ASSUME NEW f \in Folders, arrDecisions(f) PROVE TypeInv'
  <2>1. UNCHANGED <<workflow, refreshes, services, faults, lost>> /\ phase = "import"
    BY <1>3, Offering DEF arrDecisions
  <2>2. AttemptType' /\ OfferInv'
    BY <1>3, Decisions
  <2>3. TypeOK'
    BY <1>1, <2>1, <2>2 DEF TypeOK, AttemptType, Results, workflow, services
  <2>4. FlowInv'
    BY <1>1, <2>1 DEF FlowInv, workflow, services
  <2>5. QED
    BY <2>2, <2>3, <2>4 DEF TypeInv
<1>4. ASSUME NEW f \in Folders, arrManualImport(f) PROVE TypeInv'
  <2>1. /\ UNCHANGED <<workflow, refreshes, complete, library, late, scanned, faults, lost>> /\ phase = "import"
        /\ accepted' = accepted \cup (files[f] \X {app[f]}) /\ pc[f] = "post"
    BY <1>4, Offering DEF arrManualImport
  <2>2. AttemptType' /\ OfferInv'
    BY <1>4, Posting
  <2>3. accepted' \subseteq Files \X Apps
    BY <1>1, <2>1, Asked DEF TypeOK
  <2>4. TypeOK'
    BY <1>1, <2>1, <2>2, <2>3 DEF TypeOK, AttemptType, Results, workflow
  <2>5. FlowInv'
    BY <1>1, <2>1 DEF FlowInv, workflow
  <2>6. QED
    BY <2>2, <2>4, <2>5 DEF TypeInv
<1>5. ASSUME NEW f \in Folders, AttemptFails(f) PROVE TypeInv'
  <2>1. UNCHANGED <<workflow, refreshes, services, lost>> /\ phase = "import" /\ faults' \in 0..MaxFaults
    BY <1>1, <1>5, Offering, Parameters DEF AttemptFails, Active, Fault, TypeOK
  <2>2. AttemptType' /\ OfferInv'
    BY <1>5, <2>1, Retrying DEF AttemptFails, workflow
  <2>3. TypeOK'
    BY <1>1, <2>1, <2>2 DEF TypeOK, AttemptType, Results, workflow, services
  <2>4. FlowInv'
    BY <1>1, <2>1 DEF FlowInv, workflow, services
  <2>5. QED
    BY <2>2, <2>3, <2>4 DEF TypeInv
<1>6. ASSUME NEW f \in Folders, AnswerLost(f) PROVE TypeInv'
  <2>1. /\ UNCHANGED <<workflow, refreshes, complete, library, scanned>> /\ phase = "import"
        /\ faults' \in 0..MaxFaults /\ pc[f] = "post" /\ lost' = lost \cup {f}
        /\ \/ accepted' = accepted \cup (files[f] \X {app[f]}) /\ UNCHANGED late
           \/ late' = late \cup (files[f] \X {app[f]}) /\ UNCHANGED accepted
    BY <1>1, <1>6, Offering, Parameters DEF AnswerLost, Fault, TypeOK
  <2>2. AttemptType' /\ OfferInv'
    BY <1>6, <2>1, Retrying DEF AnswerLost, Active, workflow
  <2>3. accepted' \subseteq Files \X Apps /\ late' \subseteq Files \X Apps
    BY <1>1, <2>1, Asked DEF TypeOK
  <2>4. TypeOK'
    BY <1>1, <2>1, <2>2, <2>3 DEF TypeOK, AttemptType, Results, workflow
  <2>5. FlowInv'
    BY <1>1, <2>1 DEF FlowInv, workflow
  <2>6. QED
    BY <2>2, <2>4, <2>5 DEF TypeInv
<1>7. ASSUME NEW f \in Folders, Acquire(f) PROVE TypeInv'
  <2>1. TypeOK'
    BY <1>1, <1>7 DEF Acquire, workflow, services, TypeOK
  <2>2. FlowInv'
    BY <1>1, <1>7 DEF Acquire, workflow, services, FlowInv
  <2>3. \A g \in Folders \ {f} : Offer(g)'
    BY <1>1, <1>2, <1>7, OfferKept DEF Acquire, workflow, TypeOK
  <2>4. Offer(f)'
    BY <1>1, <1>2, <1>7 DEF Acquire, workflow, Offer, TypeOK
  <2>5. QED
    BY <2>1, <2>2, <2>3, <2>4 DEF TypeInv, OfferInv
<1>8. CASE ListCompleted
  <2>1. TypeOK' /\ FlowInv'
    BY <1>1, <1>8 DEF ListCompleted, attempt, services, TypeOK, FlowInv
  <2>2. \A g \in Folders : Offer(g)'
    BY <1>1, <1>2, <1>8, OfferKept DEF ListCompleted, attempt, FlowInv
  <2>3. QED
    BY <2>1, <2>2 DEF TypeInv, OfferInv
<1>9. CASE Barrier \/ JellyfinRefresh \/ ListFails \/ RefreshFails
  <2>1. UNCHANGED <<dryRun, folders, attempt, complete, library, late, lost, accepted>>
    BY <1>9 DEF Barrier, JellyfinRefresh, ListFails, RefreshFails, services
  <2>2. phase' \in {"refresh", "ok", "error"} /\ faults' \in 0..MaxFaults /\ scanned' \in {scanned, accepted}
    BY <1>1, <1>9, Parameters DEF Barrier, JellyfinRefresh, ListFails, RefreshFails, services, Fault, TypeOK
  <2>3. refreshes' \in 0..MaximumAttempts /\ (phase' # "ok" => refreshes' < MaximumAttempts)
    BY <1>1, <1>9, Parameters DEF Barrier, JellyfinRefresh, ListFails, RefreshFails, Retriable, TypeOK, FlowInv
  <2>4. TypeOK'
    BY <1>1, <2>1, <2>2, <2>3 DEF attempt, TypeOK
  <2>5. FlowInv'
    BY <1>1, <1>9, <2>1, <2>3 DEF Barrier, JellyfinRefresh, ListFails, RefreshFails, attempt, FlowInv
  <2>6. \A g \in Folders : Offer(g)'
    BY <1>2, <2>1, OfferKept DEF attempt
  <2>7. QED
    BY <2>4, <2>5, <2>6 DEF TypeInv, OfferInv
<1>10. CASE (\E f \in Folders : Download(f)) \/ (\E c \in accepted : Import(c)) \/ (\E c \in late : AcceptLate(c)) \/ UNCHANGED vars
  <2>1. UNCHANGED <<workflow, attempt, refreshes, scanned, faults, lost>> /\ complete \subseteq complete'
    BY <1>10 DEF Download, Import, AcceptLate, vars, services
  <2>2. complete' \subseteq Folders /\ UNION {accepted', library', late', scanned'} \subseteq Files \X Apps
    BY <1>1, <1>10 DEF Download, Import, AcceptLate, vars, services, TypeOK
  <2>3. TypeOK' /\ FlowInv'
    BY <1>1, <2>1, <2>2 DEF workflow, attempt, TypeOK, FlowInv
  <2>4. \A g \in Folders : Offer(g)'
    BY <1>2, <2>1, OfferKept DEF workflow, attempt
  <2>5. QED
    BY <2>3, <2>4 DEF TypeInv, OfferInv
<1>11. QED
  BY <1>3, <1>4, <1>5, <1>6, <1>7, <1>8, <1>9, <1>10 DEF Next, Run

--------------------------------------------------------------------------------
\* The imports that are accepted.

\* Every import that a step adds has been asked for, with an answer or without one.
LEMMA NewImports ==
  ASSUME TypeInv, RequestInv, [Next]_vars
  PROVE  /\ \A c \in accepted' \ accepted : ~dryRun /\ Wanted(c[1]) /\ c[1].folder \in complete /\ Sorted(c)
         /\ \A c \in late' \ late : ~dryRun /\ Wanted(c[1]) /\ c[1].folder \in complete \cap lost' /\ Sorted(c)
<1>1. ASSUME NEW f \in Folders, arrManualImport(f)
      PROVE  \A c \in accepted' \ accepted : ~dryRun /\ Wanted(c[1]) /\ c[1].folder \in complete /\ Sorted(c)
  <2>1. pc[f] = "post" /\ accepted' = accepted \cup (files[f] \X {app[f]})
    BY <1>1 DEF arrManualImport
  <2>2. QED
    BY <2>1, Asked
<1>2. ASSUME NEW f \in Folders, AnswerLost(f)
      PROVE  /\ \A c \in accepted' \ accepted : ~dryRun /\ Wanted(c[1]) /\ c[1].folder \in complete /\ Sorted(c)
             /\ \A c \in late' \ late : ~dryRun /\ Wanted(c[1]) /\ c[1].folder \in complete \cap lost' /\ Sorted(c)
  <2>1. /\ pc[f] = "post" /\ lost' = lost \cup {f}
        /\ \/ accepted' = accepted \cup (files[f] \X {app[f]}) /\ UNCHANGED late
           \/ late' = late \cup (files[f] \X {app[f]}) /\ UNCHANGED accepted
    BY <1>2 DEF AnswerLost
  <2>2. QED
    BY <2>1, Asked
<1>3. ASSUME NEW c \in late, AcceptLate(c)
      PROVE  accepted' \subseteq accepted \cup {c} /\ late' \subseteq late
  BY <1>3 DEF AcceptLate
<1>4. \A c \in late : ~dryRun /\ Wanted(c[1]) /\ c[1].folder \in complete /\ Sorted(c)
  BY DEF RequestInv
<1>5. \A f \in Folders : arrManualImport(f) => late' = late
  BY DEF arrManualImport
<1>6. \A f \in Folders : arrDecisions(f) \/ AttemptFails(f) \/ Acquire(f) \/ Download(f)
        => UNCHANGED <<accepted, late>>
  BY DEF arrDecisions, AttemptFails, Acquire, Download, services
<1>7. /\ ListCompleted \/ Barrier \/ JellyfinRefresh \/ ListFails \/ RefreshFails \/ UNCHANGED vars
           => UNCHANGED <<accepted, late>>
      /\ \A c \in accepted : Import(c) => UNCHANGED <<accepted, late>>
  BY DEF ListCompleted, Barrier, JellyfinRefresh, ListFails, RefreshFails, Import, vars, services
<1>8. QED
  BY <1>1, <1>2, <1>3, <1>4, <1>5, <1>6, <1>7 DEF Next, Run

LEMMA RequestStep == TypeInv /\ RequestInv /\ [Next]_vars => RequestInv'
<1> SUFFICES ASSUME TypeInv, RequestInv, [Next]_vars PROVE RequestInv'
  OBVIOUS
<1>1. UNCHANGED dryRun /\ complete \subseteq complete' /\ lost \subseteq lost'
  BY DEF Next, Run, ListCompleted, Barrier, JellyfinRefresh, Acquire, arrDecisions, arrManualImport,
         ListFails, RefreshFails, AttemptFails, AnswerLost, Download, Import, AcceptLate,
         vars, workflow, services
<1>2. \A c : Sorted(c)' = Sorted(c) /\ Wanted(c[1])' = Wanted(c[1])
  BY DEF Sorted, Wanted, Recognised, In
<1>3. QED
  BY <1>1, <1>2, NewImports DEF RequestInv

\* The folder of an import that no scan has followed makes the run ask for one.
AsksForScan(f) ==
  /\ ~dryRun /\ f \in folders /\ pc[f] = "done" /\ result[f].imported > 0
  /\ phase \in {"import", "refresh"} \/ refreshes > 0

LEMMA AsksKept ==
  ASSUME NEW g, AsksForScan(g), UNCHANGED <<workflow, refreshes>>, pc'[g] = pc[g], result'[g] = result[g]
  PROVE  AsksForScan(g)'
BY DEF AsksForScan, workflow

LEMMA ScanStep == Inv /\ [Next]_vars => ScanInv'
<1> SUFFICES ASSUME Inv, [Next]_vars PROVE ScanInv'
  OBVIOUS
<1>1. TypeInv /\ TypeOK /\ RequestInv /\ \A c \in accepted \ scanned : c[1].folder \in lost \/ AsksForScan(c[1].folder)
  BY DEF Inv, TypeInv, ScanInv, AsksForScan
<1>2. \A c \in accepted : c[1].folder \in Folders
  BY <1>1, Parameters DEF TypeOK
<1> SUFFICES ASSUME NEW c \in accepted' \ scanned'
             PROVE  c[1].folder \in lost' \/ AsksForScan(c[1].folder)'
  BY DEF ScanInv, AsksForScan
<1> DEFINE g == c[1].folder
<1>3. ASSUME NEW f \in Folders, arrDecisions(f) \/ AttemptFails(f) \/ Acquire(f) PROVE g \in lost' \/ AsksForScan(g)'
  <2>1. /\ UNCHANGED <<workflow, refreshes, services, lost>> /\ pc[f] # "done"
        /\ \A h \in Folders \ {f} : pc'[h] = pc[h] /\ result'[h] = result[h]
    <3>1. CASE arrDecisions(f)
      BY <1>1, <3>1, Decisions DEF arrDecisions
    <3>2. CASE AttemptFails(f)
      BY <1>1, <3>2, Retrying DEF AttemptFails, Active, workflow
    <3>3. CASE Acquire(f)
      BY <1>1, <3>3 DEF Acquire, TypeOK
    <3>4. QED
      BY <1>3, <3>1, <3>2, <3>3
  <2>2. c \in accepted \ scanned
    BY <2>1 DEF services
  <2>3. CASE AsksForScan(g)
    <3>1. g # f /\ g \in Folders
      BY <1>2, <2>1, <2>2, <2>3 DEF AsksForScan
    <3>2. QED
      BY <2>1, <2>3, <3>1, AsksKept
  <2>4. QED
    BY <1>1, <2>1, <2>2, <2>3
<1>4. ASSUME NEW f \in Folders, arrManualImport(f) PROVE g \in lost' \/ AsksForScan(g)'
  <2>1. /\ pc[f] = "post" /\ accepted' = accepted \cup (files[f] \X {app[f]})
        /\ UNCHANGED <<workflow, refreshes, scanned, lost>>
    BY <1>4 DEF arrManualImport
  <2>2. /\ pc'[f] = "done" /\ result'[f] = result[f]
        /\ \A h \in Folders \ {f} : pc'[h] = pc[h] /\ result'[h] = result[h]
    BY <1>1, <1>4, Posting
  <2>3. CASE c \in files[f] \X {app[f]}
    <3>1. g = f /\ ~dryRun /\ phase = "import" /\ f \in folders
      BY <1>1, <2>1, <2>3, Asked, Offering
    <3>2. result[f].imported > 0
      BY <1>1, <2>1 DEF TypeInv, OfferInv, Offer
    <3>3. QED
      BY <2>1, <2>2, <3>1, <3>2 DEF AsksForScan, workflow
  <2>4. CASE c \in accepted \ scanned
    <3>1. CASE AsksForScan(g)
      <4>1. g # f /\ g \in Folders
        BY <1>2, <2>1, <2>4, <3>1 DEF AsksForScan
      <4>2. QED
        BY <2>1, <2>2, <3>1, <4>1, AsksKept
    <3>2. QED
      BY <1>1, <2>1, <2>4, <3>1
  <2>5. QED
    BY <2>1, <2>3, <2>4
<1>5. ASSUME NEW f \in Folders, AnswerLost(f) PROVE g \in lost' \/ AsksForScan(g)'
  <2>1. /\ pc[f] = "post" /\ lost' = lost \cup {f} /\ accepted' \subseteq accepted \cup (files[f] \X {app[f]})
        /\ UNCHANGED <<workflow, refreshes, scanned>>
    BY <1>5 DEF AnswerLost
  <2>2. \A h \in Folders \ {f} : pc'[h] = pc[h] /\ result'[h] = result[h]
    BY <1>1, <1>5, <2>1, Retrying DEF AnswerLost, Active, workflow
  <2>3. CASE c \in files[f] \X {app[f]}
    BY <1>1, <2>1, <2>3, Asked
  <2>4. CASE c \in accepted \ scanned
    <3>1. CASE AsksForScan(g)
      <4>1. g # f /\ g \in Folders
        BY <1>2, <2>1, <2>4, <3>1 DEF AsksForScan
      <4>2. QED
        BY <2>1, <2>2, <3>1, <4>1, AsksKept
    <3>2. QED
      BY <1>1, <2>1, <2>4, <3>1
  <2>5. QED
    BY <2>1, <2>3, <2>4
<1>6. CASE ListCompleted \/ ListFails
  <2>1. UNCHANGED <<accepted, scanned, lost>> /\ phase = "list"
    BY <1>6 DEF ListCompleted, ListFails, services
  <2>2. ~AsksForScan(g)
    BY <1>1, <2>1 DEF TypeInv, FlowInv, AsksForScan
  <2>3. QED
    BY <1>1, <2>1, <2>2
<1>7. CASE Barrier
  <2>1. /\ UNCHANGED <<dryRun, folders, attempt, refreshes, services, lost>>
        /\ phase' = IF Imported /\ ~dryRun THEN "refresh" ELSE "ok"
    BY <1>7 DEF Barrier
  <2>2. CASE AsksForScan(g)
    <3>1. Imported /\ ~dryRun
      BY <2>2 DEF Imported, AsksForScan
    <3>2. QED
      BY <2>1, <2>2, <3>1 DEF AsksForScan, attempt
  <2>3. QED
    BY <1>1, <2>1, <2>2 DEF services
<1>8. CASE JellyfinRefresh
  BY <1>8 DEF JellyfinRefresh
<1>9. CASE RefreshFails
  <2>1. /\ UNCHANGED <<dryRun, folders, attempt, accepted, lost>>
        /\ scanned' \in {scanned, accepted} /\ refreshes' = refreshes + 1 /\ refreshes \in Nat
    BY <1>1, <1>9, Parameters DEF RefreshFails, TypeOK
  <2>2. AsksForScan(g) => AsksForScan(g)'
    BY <2>1 DEF AsksForScan, attempt
  <2>3. QED
    BY <1>1, <2>1, <2>2
<1>10. ASSUME NEW d \in late, AcceptLate(d) PROVE g \in lost' \/ AsksForScan(g)'
  <2>1. accepted' \subseteq accepted \cup {d} /\ UNCHANGED <<workflow, attempt, refreshes, scanned, lost>>
    BY <1>10 DEF AcceptLate
  <2>2. d[1].folder \in lost
    BY <1>1 DEF RequestInv
  <2>3. AsksForScan(g) => AsksForScan(g)'
    BY <2>1, AsksKept DEF attempt
  <2>4. QED
    BY <1>1, <2>1, <2>2, <2>3
<1>11. CASE (\E f \in Folders : Download(f)) \/ (\E d \in accepted : Import(d)) \/ UNCHANGED vars
  <2>1. UNCHANGED <<workflow, attempt, refreshes, accepted, scanned, lost>>
    BY <1>11 DEF Download, Import, vars, services
  <2>2. AsksForScan(g) => AsksForScan(g)'
    BY <2>1, AsksKept DEF attempt
  <2>3. QED
    BY <1>1, <2>1, <2>2
<1>12. QED
  BY <1>3, <1>4, <1>5, <1>6, <1>7, <1>8, <1>9, <1>10, <1>11 DEF Next, Run

--------------------------------------------------------------------------------
\* The theorems.

LEMMA Invariance == Spec => []Inv
<1>1. Init => Inv
  <2> SUFFICES ASSUME Init PROVE Inv
    OBVIOUS
  <2>1. PICK earlier \in SUBSET {x \in Files : x.sonarr = "episodes" /\ x.folder \in complete} :
          library = earlier \X {"sonarr"}
    BY DEF Init
  <2>2. accepted = library /\ scanned = library /\ late = {}
    BY DEF Init
  <2>3. \A c \in accepted : c[1].sonarr = "episodes" /\ c[2] = "sonarr"
    BY <2>1, <2>2
  <2>4. RequestInv /\ ScanInv
    BY <2>2, <2>3 DEF RequestInv, Sorted, ScanInv
  <2>5. QED
    BY <2>4, TypeInit DEF Inv
<1>2. Inv /\ [Next]_vars => Inv'
  BY TypeStep, RequestStep, ScanStep DEF Inv
<1>3. QED
  BY <1>1, <1>2, PTL DEF Spec

\* The attempts at every folder, and what they find, keep their types.
THEOREM TypeCorrect == Spec => []TypeOK
<1>1. Inv => TypeOK
  BY DEF Inv, TypeInv
<1>2. QED
  BY <1>1, Invariance, PTL

\* Sonarr and Radarr are asked only for files of completed downloads that they have no
\* other reason to reject, and never in a dry run.
THEOREM ImportsAreWanted == Spec => ImportsOnlyMissing
<1>1. Inv /\ [Next]_vars =>
        [\A c \in accepted' \ accepted :
           ~dryRun /\ c[1].folder \in complete /\ c[1].rejects \subseteq {"unexpected"}]_vars
  BY NewImports DEF Inv, Wanted
<1>2. QED
  BY <1>1, Invariance, PTL DEF Spec, ImportsOnlyMissing

\* No file becomes both an episode and a movie.
THEOREM SortsEachFile == Spec => []EpisodeOrMovie
<1>1. Inv => EpisodeOrMovie
  <2> SUFFICES ASSUME Inv, NEW x \in Files, {x} \X Apps \subseteq accepted PROVE FALSE
    BY DEF EpisodeOrMovie
  <2>1. <<x, "sonarr">> \in accepted /\ <<x, "radarr">> \in accepted
    BY DEF Apps
  <2>2. x.sonarr = "episodes" /\ Recognised(x.folder, "sonarr") = {}
    BY <2>1 DEF Inv, RequestInv, Sorted
  <2>3. x \in Recognised(x.folder, "sonarr")
    BY <2>2 DEF Recognised, In
  <2>4. QED
    BY <2>2, <2>3
<1>2. QED
  BY <1>1, Invariance, PTL

\* A closed run has asked for a scan after its imports were accepted, unless asking
\* failed or the import's answer is lost.
THEOREM ScansItsImports == Spec => []ScannedAfterImport
<1>1. Inv => ScannedAfterImport
  BY DEF Inv, ScanInv, ScannedAfterImport
<1>2. QED
  BY <1>1, Invariance, PTL

\* A closed run has accounted for every folder it was given.
THEOREM AccountsForFolders == Spec => []NoFolderForgotten
<1>1. Inv => NoFolderForgotten
  BY DEF Inv, TypeInv, TypeOK, FlowInv, OfferInv, Offer, NoFolderForgotten
<1>2. QED
  BY <1>1, Invariance, PTL

================================================================================
