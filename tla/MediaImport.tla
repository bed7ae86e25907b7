------------------------------ MODULE MediaImport ------------------------------
(***************************************************************************)
(* The Reconcile workflow: every folder that Deluge has completed is       *)
(* offered to Sonarr and, when that recognises no episode in it, to        *)
(* Radarr, with bounded concurrency; when anything was imported, Jellyfin  *)
(* is asked to scan the library.                                           *)
(*                                                                         *)
(* Sonarr and Radarr accept an import as a command and carry it out later. *)
(* They may have accepted it although the answer was lost, or accept it    *)
(* after the attempt was given up: the retry then asks about the folder    *)
(* again and decides anew.                                                 *)
(***************************************************************************)
EXTENDS Integers, FiniteSets

CONSTANTS
  Folders,          \* the downloads of Deluge
  Files,            \* what is in them: folder, name, what Sonarr makes of a file
                    \* ("none", "series" without episodes or "episodes"), whether
                    \* Radarr recognises a movie, and the reasons to reject it
  Concurrency,      \* folders at once
  MaximumAttempts,  \* StandardRetry's MaximumAttempts: 3 in the code
  MaxFaults         \* bounds the faults in a behaviour

Apps == {"sonarr", "radarr"}
Reasons == {"unexpected", "not an upgrade", "sample"}

ASSUME MediaAssumption ==
  /\ IsFiniteSet(Files)
  /\ \A x \in Files :
       /\ x.folder \in Folders /\ x.sonarr \in {"none", "series", "episodes"}
       /\ x.movie \in BOOLEAN /\ x.rejects \subseteq Reasons
  /\ {Concurrency, MaximumAttempts} \subseteq Nat \ {0} /\ MaxFaults \in Nat

VARIABLES
  dryRun,    \* the run only reports
  phase,     \* "list", "import", "refresh", then "ok" or "error"
  folders,   \* what ListCompleted returned
  app,       \* by folder: whom it is offered to
  pc,        \* by folder: "queued", "ask", "post", "done"
  tries,     \* by folder: attempts of the activity that have failed
  files,     \* by folder: what the attempt is about to import
  result,    \* by folder: what the workflow knows of it
  refreshes, \* attempts of JellyfinRefresh that have failed
  complete,  \* the folders whose download has completed
  accepted,  \* the imports that Sonarr and Radarr have accepted
  library,   \* the imports that they have carried out
  late,      \* the imports they may yet accept from attempts that were given up
  scanned,   \* the imports accepted before Jellyfin was last asked to scan
  faults,
  lost       \* auxiliary: the folders with an import whose answer nobody got

workflow == <<dryRun, phase, folders>>
attempt == <<app, pc, tries, files, result>>
services == <<complete, accepted, library, late, scanned>>
vars == <<workflow, attempt, refreshes, services, faults, lost>>

Pending == [imported |-> 0, skipped |-> 0, noMatch |-> FALSE, flagged |-> FALSE]
In(f) == {x \in Files : x.folder = f}
Active(f) == pc[f] \in {"ask", "post"}

\* A file that Sonarr or Radarr has is listed with one more rejection.
Rejects(x, a) ==
  IF <<x, a>> \in library THEN x.rejects \cup {"not an upgrade"} ELSE x.rejects

--------------------------------------------------------------------------------
\* What decides about a file.

\* Slip: one overridable rejection is enough.
importableByOne(x, a) == Rejects(x, a) = {} \/ "unexpected" \in Rejects(x, a)

importable(x, a) == Rejects(x, a) \subseteq {"unexpected"}

Recognised(f, a) ==
  {x \in In(f) : IF a = "sonarr" THEN x.sonarr = "episodes" ELSE x.movie}
Missing(f, a) == {x \in Recognised(f, a) : importable(x, a)}

\* Slip: a folder with nothing to import counts as not recognised.
NoMatchMissing(f, a) == Missing(f, a) = {}

NoMatch(f, a) == Recognised(f, a) = {}

Init ==
  /\ dryRun \in BOOLEAN
  /\ phase = "list" /\ folders = {}
  /\ app = [f \in Folders |-> "sonarr"]
  /\ pc = [f \in Folders |-> "queued"]
  /\ tries = [f \in Folders |-> 0]
  /\ files = [f \in Folders |-> {}]
  /\ result = [f \in Folders |-> Pending]
  /\ refreshes = 0
  /\ complete \in SUBSET Folders
  /\ \E earlier \in SUBSET {x \in Files : x.sonarr = "episodes" /\ x.folder \in complete} :
       /\ \A x \in earlier : x.rejects \subseteq {"unexpected"}
       /\ library = earlier \X {"sonarr"}
  /\ accepted = library /\ scanned = library
  /\ late = {}
  /\ faults = 0 /\ lost = {}

--------------------------------------------------------------------------------
\* The workflow.

\* Slip: downloads are listed whatever their progress.
ListAll ==
  /\ phase = "list"
  /\ phase' = "import"
  /\ folders' = Folders
  /\ UNCHANGED <<dryRun, attempt, refreshes, services, faults, lost>>

ListCompleted ==
  /\ phase = "list"
  /\ phase' = "import"
  /\ folders' = complete
  /\ UNCHANGED <<dryRun, attempt, refreshes, services, faults, lost>>

Slots == Concurrency - Cardinality({f \in folders : Active(f)})

Acquire(f) ==
  /\ phase = "import" /\ f \in folders
  /\ pc[f] = "queued" /\ Slots > 0
  /\ pc' = [pc EXCEPT ![f] = "ask"]
  /\ UNCHANGED <<workflow, app, tries, files, result, refreshes, services, faults, lost>>

\* Slip: only what Sonarr imported is counted.
ImportedBySonarr == \E f \in folders : app[f] = "sonarr" /\ result[f].imported > 0

Imported == \E f \in folders : result[f].imported > 0

Barrier ==
  /\ phase = "import"
  /\ \A f \in folders : pc[f] = "done"
  /\ phase' = IF Imported /\ ~dryRun THEN "refresh" ELSE "ok"
  /\ UNCHANGED <<dryRun, folders, attempt, refreshes, services, faults, lost>>

--------------------------------------------------------------------------------
\* SonarrImport, RadarrImport and reconcileFolder.

Becomes(f, a, step, n, xs, r) ==
  /\ app' = [app EXCEPT ![f] = a]
  /\ pc' = [pc EXCEPT ![f] = step]
  /\ tries' = [tries EXCEPT ![f] = n]
  /\ files' = [files EXCEPT ![f] = xs]
  /\ result' = [result EXCEPT ![f] = r]

Result(f, xs) ==
  [imported |-> Cardinality(xs),
   skipped |-> Cardinality(Recognised(f, app[f]) \ Missing(f, app[f])),
   noMatch |-> NoMatch(f, app[f]),
   flagged |-> app[f] = "radarr" /\ NoMatch(f, app[f])]

\* The decisions come with one request; what is to be done with the folder next
\* follows from them.
arrDecisions(f) ==
  /\ pc[f] = "ask"
  /\ LET xs == Missing(f, app[f])
         r == Result(f, xs)
     IN  \/ xs # {} /\ ~dryRun /\ Becomes(f, app[f], "post", tries[f], xs, r)
         \/ /\ xs = {} \/ dryRun
            /\ IF r.noMatch /\ app[f] = "sonarr"
               THEN Becomes(f, "radarr", "ask", 0, {}, Pending)
               ELSE Becomes(f, app[f], "done", tries[f], {}, r)
  /\ UNCHANGED <<workflow, refreshes, services, faults, lost>>

arrManualImport(f) ==
  /\ pc[f] = "post"
  /\ accepted' = accepted \cup (files[f] \X {app[f]})
  /\ Becomes(f, app[f], "done", tries[f], {}, result[f])
  /\ UNCHANGED <<workflow, refreshes, complete, library, late, scanned, faults, lost>>

JellyfinRefresh ==
  /\ phase = "refresh"
  /\ scanned' = accepted
  /\ phase' = "ok"
  /\ UNCHANGED <<dryRun, folders, attempt, refreshes, complete, accepted, library, late, faults, lost>>

--------------------------------------------------------------------------------
\* Faults.

Fault == faults < MaxFaults /\ faults' = faults + 1

\* Slip: one retry too many.
RetriableOnceMore(n) == n + 1 <= MaximumAttempts

Retriable(n) == n + 1 < MaximumAttempts

\* Slip: the error of an activity is only logged.
GivenUpLogged(f) == Becomes(f, app[f], "done", tries[f], {}, Pending)

\* A folder whose import failed is flagged.
GivenUp(f) == Becomes(f, app[f], "done", tries[f], {}, [Pending EXCEPT !.flagged = TRUE])

\* An attempt is retried while attempts and ScheduleToClose allow it.
AttemptEnds(f) ==
  \/ Retriable(tries[f]) /\ Becomes(f, app[f], "ask", tries[f] + 1, {}, Pending)
  \/ GivenUp(f)

AttemptFails(f) ==
  /\ Active(f)
  /\ Fault
  /\ AttemptEnds(f)
  /\ UNCHANGED <<workflow, refreshes, services, lost>>

\* Nobody gets the answer to an import that was accepted or will be.
AnswerLost(f) ==
  /\ pc[f] = "post"
  /\ Fault
  /\ \/ accepted' = accepted \cup (files[f] \X {app[f]}) /\ UNCHANGED late
     \/ late' = late \cup (files[f] \X {app[f]}) /\ UNCHANGED accepted
  /\ lost' = lost \cup {f}
  /\ AttemptEnds(f)
  /\ UNCHANGED <<workflow, refreshes, complete, library, scanned>>

ListFails ==
  /\ phase = "list"
  /\ Fault
  /\ phase' = "error"
  /\ UNCHANGED <<dryRun, folders, attempt, refreshes, services, lost>>

\* A scan that could not be asked for is only warned about.
RefreshFails ==
  /\ phase = "refresh"
  /\ Fault
  /\ refreshes' = refreshes + 1
  /\ phase' = IF Retriable(refreshes) THEN phase ELSE "ok"
  /\ scanned' \in {scanned, accepted}
  /\ UNCHANGED <<dryRun, folders, attempt, complete, accepted, library, late, lost>>

--------------------------------------------------------------------------------
\* The services.

\* Downloads complete and imports are carried out at any time; it matters until
\* the run has closed.
Download(f) ==
  /\ phase \notin {"ok", "error"}
  /\ f \notin complete
  /\ complete' = complete \cup {f}
  /\ UNCHANGED <<workflow, attempt, refreshes, accepted, library, late, scanned, faults, lost>>

Import(c) ==
  /\ c \in accepted \ library
  /\ library' = library \cup {c}
  /\ UNCHANGED <<workflow, attempt, refreshes, complete, accepted, late, scanned, faults, lost>>

AcceptLate(c) ==
  /\ late' = late \ {c}
  /\ accepted' \in {accepted, accepted \cup {c}}
  /\ UNCHANGED <<workflow, attempt, refreshes, complete, library, scanned, faults, lost>>

--------------------------------------------------------------------------------
Run ==
  \/ ListCompleted \/ Barrier \/ JellyfinRefresh
  \/ \E f \in Folders : Acquire(f) \/ arrDecisions(f) \/ arrManualImport(f)

Next ==
  \/ Run \/ ListFails \/ RefreshFails
  \/ \E f \in Folders : AttemptFails(f) \/ AnswerLost(f) \/ Download(f)
  \/ \E c \in accepted : Import(c)
  \/ \E c \in late : AcceptLate(c)

Spec == Init /\ [][Next]_vars

--------------------------------------------------------------------------------
\* Properties.

TypeOK ==
  /\ dryRun \in BOOLEAN
  /\ phase \in {"list", "import", "refresh", "ok", "error"}
  /\ folders \subseteq Folders /\ complete \subseteq Folders /\ lost \subseteq Folders
  /\ app \in [Folders -> Apps]
  /\ pc \in [Folders -> {"queued", "ask", "post", "done"}]
  /\ tries \in [Folders -> 0..MaximumAttempts - 1]
  /\ files \in [Folders -> SUBSET Files]
  /\ result \in [Folders -> [imported : Nat, skipped : Nat, noMatch : BOOLEAN, flagged : BOOLEAN]]
  /\ refreshes \in 0..MaximumAttempts
  /\ UNION {accepted, library, late, scanned} \subseteq Files \X Apps
  /\ faults \in 0..MaxFaults

\* Sonarr and Radarr are asked to import only what a completed download holds and
\* what they have no reason to reject but the one that is overridden, and nothing
\* in a dry run.
ImportsOnlyMissing ==
  [][\A c \in accepted' \ accepted :
       ~dryRun /\ c[1].folder \in complete /\ c[1].rejects \subseteq {"unexpected"}]_vars

\* No file goes into the library as an episode and as a movie, even when the
\* answer to its import is lost and the folder is offered again.
EpisodeOrMovie == \A x \in Files : ~({x} \X Apps \subseteq accepted)

\* A run that has closed has asked for a scan since its imports were accepted; it
\* has not only if the scan itself failed or nobody got the import's answer.
ScannedAfterImport ==
  phase = "ok" /\ refreshes = 0 =>
    \A c \in accepted \ scanned : c[1].folder \in lost

\* Every folder the run was given has been imported from or skipped by the
\* service that recognised it, or it is flagged for a human.
NoFolderForgotten ==
  phase = "ok" =>
    \A f \in folders : result[f].flagged \/ result[f].imported + result[f].skipped > 0

================================================================================
