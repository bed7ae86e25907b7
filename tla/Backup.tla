--------------------------------- MODULE Backup ---------------------------------
(***************************************************************************)
(* The Backup workflow: three concurrent legs (the Nomad and Consul        *)
(* snapshots, and the Postgres globals followed by a bounded fan-out over  *)
(* the databases), each of which writes an artifact to the local disk and  *)
(* uploads it to S3, evicting older backups when the quota is exceeded;    *)
(* then local retention and the optional S3 sweep.                         *)
(*                                                                         *)
(* One run a day.  An artifact or an object is known by its kind and the   *)
(* run that made it: attempts of one run start seconds apart and so write  *)
(* files of different names, which are told apart only by being whole.     *)
(***************************************************************************)
EXTENDS Integers, FiniteSets, FiniteSetsExt, Functions

CONSTANTS
  Snapshots,        \* the snapshot legs: "nomad" and "consul"
  Databases,        \* the databases of the cluster, which do not change
  DumpConcurrency,  \* databases dumped or uploaded at once
  MaximumAttempts,  \* StandardRetry's MaximumAttempts: 3 in the code
  MaxEvictions,     \* maxEvictions: 3 in the code
  LocalDays,        \* the retention windows, in runs
  S3Days,
  S3Cleanup,        \* whether the workflow sweeps S3 itself
  Earlier,          \* runs 1..Earlier have succeeded before
  Uploaded,         \* the kinds whose uploads succeeded in them too
  MaxRuns,          \* bounds the runs modelled after them
  MaxFaults         \* bounds the faults in a behaviour

Globals == "globals"
Kinds == Snapshots \cup {Globals} \cup Databases

ASSUME KindsAssumption ==
  /\ IsFiniteSet(Kinds) /\ "list" \notin Kinds
  /\ Snapshots \cap Databases = {} /\ Globals \notin Snapshots \cup Databases
ASSUME ConfigAssumption ==
  /\ {DumpConcurrency, MaximumAttempts, LocalDays, S3Days} \subseteq Nat \ {0}
  /\ MaxEvictions \in Nat /\ S3Cleanup \in BOOLEAN /\ Uploaded \subseteq Kinds
ASSUME BoundsAssumption == {Earlier, MaxRuns, MaxFaults} \subseteq Nat

VARIABLES
  run,        \* the number of the last run started
  phase,      \* "idle", "legs", "local" retention, "s3" sweep
  outcome,    \* how the last closed run ended: "ok", "error"
  listed,     \* the databases are known to the Postgres leg
  pc,         \* by kind: "waiting", "dump", "upload", "ended"
  tries,      \* failed attempts of the activity it awaits
  round,      \* evictions by the current attempt of its upload
  failed,     \* the fatal failures of this run
  reported,   \* the kinds whose S3 key is in its result
  cancelled,  \* its context is cancelled
  local,      \* the artifacts on disk
  remote,     \* the objects in the bucket |-> when each was last modified
  ghosts,     \* upload attempts that go on after they timed out: <<kind, round>>
  stalled,    \* the kinds with such an attempt in this run
  faults      \* the faults that have occurred

legs == <<listed, pc, tries, failed>>
upload == <<round, reported, remote, ghosts, stalled>>
vars == <<run, phase, outcome, legs, upload, cancelled, local, faults>>

Artifact(k, whole) == [kind |-> k, run |-> run, whole |-> whole]
Object(k) == [kind |-> k, run |-> run]

Fault == faults < MaxFaults /\ faults' = faults + 1

\* Initially the earlier runs' objects are all there, and the artifacts that
\* are within the retention window.
Init ==
  /\ run = Earlier
  /\ phase = "idle"
  /\ outcome = "ok"
  /\ listed = FALSE
  /\ pc = [k \in Kinds |-> "ended"]
  /\ tries = [k \in Kinds |-> 0]
  /\ round = [k \in Kinds |-> 0]
  /\ failed = {}
  /\ reported = {}
  /\ cancelled = FALSE
  /\ local = {[kind |-> k, run |-> r, whole |-> TRUE] :
                k \in Kinds, r \in {n \in 1..Earlier : n + LocalDays > Earlier}}
  /\ remote = [o \in [kind : Uploaded, run : 1..Earlier] |-> o.run]
  /\ ghosts = {}
  /\ stalled = {}
  /\ faults = 0

--------------------------------------------------------------------------------
\* The legs.

\* An attempt that a deadline ended is over before the next day's run.
Backup ==
  /\ phase = "idle" /\ ghosts = {}
  /\ run < Earlier + MaxRuns
  /\ run' = run + 1
  /\ phase' = "legs"
  /\ listed' = FALSE
  /\ pc' = [k \in Kinds |-> IF k \in Databases THEN "waiting" ELSE "dump"]
  /\ tries' = [k \in Kinds |-> 0]
  /\ round' = [k \in Kinds |-> 0]
  /\ failed' = {} /\ reported' = {} /\ stalled' = {}
  /\ cancelled' = FALSE
  /\ UNCHANGED <<outcome, local, remote, ghosts, faults>>

Enter(k, step) ==
  /\ pc' = [pc EXCEPT ![k] = step]
  /\ tries' = [tries EXCEPT ![k] = 0]

\* TakeNomadSnapshot, TakeConsulSnapshot, BackupPostgresGlobals and
\* BackupPostgresDatabase: the artifact is written, and its path returned.
Dump(k) ==
  /\ pc[k] = "dump" /\ ~cancelled
  /\ local' = local \cup {Artifact(k, TRUE)}
  /\ Enter(k, "upload")
  /\ UNCHANGED <<run, phase, outcome, listed, failed, upload, cancelled, faults>>

\* What an attempt that fails leaves: nothing, for it removes a partial file; a
\* truncated one if its worker died; a whole one if only its answer is lost.
Leftover(k) == {{}, {Artifact(k, FALSE)}, {Artifact(k, TRUE)}}

DumpAttemptFails(k) ==
  /\ pc[k] = "dump"
  /\ tries[k] + 1 < MaximumAttempts
  /\ Fault
  /\ tries' = [tries EXCEPT ![k] = @ + 1]
  /\ \E left \in Leftover(k) : local' = local \cup left
  /\ UNCHANGED <<run, phase, outcome, listed, pc, failed, upload, cancelled>>

\* The last attempt: a database's dump may use up its ScheduleToClose timeout in
\* two attempts of full length.
LastDump(k) == tries[k] + 1 = MaximumAttempts \/ (k \in Databases /\ tries[k] = 1)

\* The last attempt fails, or the workflow is cancelled: the leg fails.
DumpFails(k) ==
  /\ pc[k] = "dump"
  /\ \/ LastDump(k) /\ Fault
     \/ cancelled /\ UNCHANGED faults
  /\ Enter(k, "ended")
  /\ failed' = failed \cup {k}
  /\ \E left \in Leftover(k) : local' = local \cup left
  /\ UNCHANGED <<run, phase, outcome, listed, upload, cancelled>>

ListPostgresDatabases ==
  /\ phase = "legs"
  /\ pc[Globals] = "ended"
  /\ ~listed /\ failed \cap {Globals, "list"} = {}
  /\ \/ ~cancelled /\ listed' = TRUE /\ UNCHANGED <<failed, faults>>
     \/ /\ Fault \/ (cancelled /\ UNCHANGED faults)
        /\ failed' = failed \cup {"list"}
        /\ UNCHANGED listed
  /\ UNCHANGED <<run, phase, outcome, pc, tries, upload, cancelled, local>>

\* Slip: a slot that a failed dump does not give back.
SlotsLeaked == {d \in Databases : pc[d] \in {"dump", "upload"} \/ d \in failed}

\* A database holds its slot until its goroutine returns.
Slots == {d \in Databases : pc[d] \in {"dump", "upload"}}

\* The fan-out: a database that gets a slot is dumped, whatever befell others.
Acquire(d) ==
  /\ listed /\ pc[d] = "waiting"
  /\ Cardinality(Slots) < DumpConcurrency
  /\ Enter(d, "dump")
  /\ UNCHANGED <<run, phase, outcome, listed, failed, upload, cancelled, local, faults>>

--------------------------------------------------------------------------------
\* UploadToS3.

\* The kinds whose keys lie under k's prefix: each database has a subdirectory
\* of the prefix that the globals use.
Under(k) == IF k = Globals THEN {Globals} \cup Databases ELSE {k}

\* Slip: no key skipped.
EvictableAny(k) == {o \in DOMAIN remote : o.kind \in Under(k)}

\* Everything under the prefix but the key being uploaded.
Evictable(k) == {o \in DOMAIN remote : o.kind \in Under(k) /\ o # Object(k)}

\* Slip: one round too many.
CanEvictOffByOne(k, rounds) == rounds <= MaxEvictions /\ Evictable(k) # {}

CanEvict(k, rounds) == rounds < MaxEvictions /\ Evictable(k) # {}

DeleteObjects(objects) == remote' = Restrict(remote, DOMAIN remote \ objects)

DeleteOldest(k) ==
  \E o \in Evictable(k) :
    /\ \A p \in Evictable(k) : remote[o] <= remote[p]
    /\ DeleteObjects({o})

\* Later than everything in the bucket was modified.
Now == 1 + Max({0} \cup Range(remote))

\* An upload to a key that is there already replaces the object.
Put(k) == remote' = [o \in DOMAIN remote \cup {Object(k)} |->
                       IF o = Object(k) THEN Now ELSE remote[o]]

UploadToS3(k) ==
  /\ pc[k] = "upload" /\ ~cancelled
  /\ Put(k)
  /\ reported' = reported \cup {k}
  /\ Enter(k, "ended")
  /\ UNCHANGED <<run, phase, outcome, listed, failed, round, ghosts, stalled,
                 cancelled, local, faults>>

\* The quota is exceeded and the oldest backup under the prefix deleted; the
\* next round uploads again.
QuotaExceeded(k) ==
  /\ pc[k] = "upload"
  /\ CanEvict(k, round[k])
  /\ Fault
  /\ DeleteOldest(k)
  /\ round' = [round EXCEPT ![k] = @ + 1]
  /\ UNCHANGED <<run, phase, outcome, legs, reported, ghosts, stalled, cancelled, local>>

\* What the end of an attempt in an error may have done: nothing, stored the
\* object, deleted the oldest one, or, when it timed out, it goes on.
AttemptEnds(k) ==
  \/ UNCHANGED <<remote, ghosts, stalled>>
  \/ Put(k) /\ UNCHANGED <<ghosts, stalled>>
  \/ CanEvict(k, round[k]) /\ DeleteOldest(k) /\ UNCHANGED <<ghosts, stalled>>
  \/ /\ ghosts' = ghosts \cup {<<k, round[k]>>}
     /\ stalled' = stalled \cup {k}
     /\ UNCHANGED remote

\* Each attempt has its rounds anew.
UploadAttemptFails(k) ==
  /\ pc[k] = "upload"
  /\ tries[k] + 1 < MaximumAttempts
  /\ Fault
  /\ AttemptEnds(k)
  /\ tries' = [tries EXCEPT ![k] = @ + 1]
  /\ round' = [round EXCEPT ![k] = 0]
  /\ UNCHANGED <<run, phase, outcome, listed, pc, failed, reported, cancelled, local>>

\* A failed or cancelled upload is logged, and fails nothing.
UploadFails(k) ==
  /\ pc[k] = "upload"
  /\ \/ tries[k] + 1 = MaximumAttempts /\ Fault
     \/ cancelled /\ UNCHANGED faults
  /\ AttemptEnds(k)
  /\ Enter(k, "ended")
  /\ UNCHANGED <<run, phase, outcome, listed, failed, round, reported, cancelled, local>>

\* An attempt nobody waits for evicts, uploads, or gives up.
GhostUpload ==
  /\ \E g \in ghosts :
       \/ /\ CanEvict(g[1], g[2])
          /\ DeleteOldest(g[1])
          /\ ghosts' = (ghosts \ {g}) \cup {<<g[1], g[2] + 1>>}
       \/ Put(g[1]) /\ ghosts' = ghosts \ {g}
       \/ ghosts' = ghosts \ {g} /\ UNCHANGED remote
  /\ UNCHANGED <<run, phase, outcome, legs, round, reported, stalled, cancelled, local, faults>>

--------------------------------------------------------------------------------
\* The end of a run.

LegsEnded ==
  /\ \A k \in Snapshots \cup {Globals} : pc[k] = "ended"
  /\ failed \cap {Globals, "list"} = {} => listed /\ \A d \in Databases : pc[d] = "ended"

\* Slips: database dumps that fail taken as lightly as uploads; retention that
\* runs although a leg failed.
AfterLegsLenient(errs) == IF errs \subseteq Databases THEN "local" ELSE "idle"
AfterLegsAlways(errs) == "local"

\* Retention follows only when no leg failed.
AfterLegs(errs) == IF errs = {} THEN "local" ELSE "idle"

Join ==
  /\ phase = "legs" /\ LegsEnded
  /\ phase' = AfterLegs(failed)
  /\ outcome' = IF phase' = "idle" THEN "error" ELSE outcome
  /\ UNCHANGED <<run, legs, upload, cancelled, local, faults>>

\* A run's files are written over some hours: those exactly LocalDays old may be
\* beyond the cutoff.  What cannot be removed is skipped, and a cleanup that
\* fails is logged.
CleanupOldBackups ==
  /\ phase = "local"
  /\ \E old \in SUBSET {a \in local : a.run + LocalDays <= run} : local' = local \ old
  /\ phase' = IF S3Cleanup THEN "s3" ELSE "idle"
  /\ outcome' = IF S3Cleanup THEN outcome ELSE "ok"
  /\ UNCHANGED <<run, legs, upload, cancelled, faults>>

CleanupOldS3Backups ==
  /\ phase = "s3"
  /\ \E old \in SUBSET {o \in DOMAIN remote : o.run + S3Days <= run} : DeleteObjects(old)
  /\ phase' = "idle"
  /\ outcome' = "ok"
  /\ UNCHANGED <<run, legs, round, reported, ghosts, stalled, cancelled, local, faults>>

Cancel ==
  /\ phase # "idle" /\ ~cancelled
  /\ Fault
  /\ cancelled' = TRUE
  /\ UNCHANGED <<run, phase, outcome, legs, upload, local>>

--------------------------------------------------------------------------------
\* The system.

Leg(k) ==
  \/ Dump(k) \/ DumpAttemptFails(k) \/ DumpFails(k)
  \/ UploadToS3(k) \/ QuotaExceeded(k) \/ UploadAttemptFails(k) \/ UploadFails(k)

Workflow ==
  \/ ListPostgresDatabases \/ Join \/ CleanupOldBackups \/ CleanupOldS3Backups
  \/ \E d \in Databases : Acquire(d)
  \/ \E k \in Kinds : Leg(k)

Next == Backup \/ Workflow \/ GhostUpload \/ Cancel

\* Temporal's timeouts end every attempt, also those that nobody waits for.
Fairness == WF_vars(Workflow) /\ WF_vars(GhostUpload)

Spec == Init /\ [][Next]_vars /\ Fairness

--------------------------------------------------------------------------------
\* Properties.

TypeOK ==
  /\ run \in Nat
  /\ phase \in {"idle", "legs", "local", "s3"}
  /\ outcome \in {"ok", "error"}
  /\ listed \in BOOLEAN
  /\ pc \in [Kinds -> {"waiting", "dump", "upload", "ended"}]
  /\ tries \in [Kinds -> 0..(MaximumAttempts - 1)]
  /\ round \in [Kinds -> 0..MaxEvictions]
  /\ failed \subseteq Kinds \cup {"list"}
  /\ reported \subseteq Kinds
  /\ cancelled \in BOOLEAN
  /\ local \subseteq [kind : Kinds, run : 0..run, whole : BOOLEAN]
  /\ DOMAIN remote \subseteq [kind : Kinds, run : 0..run] /\ remote \in [DOMAIN remote -> Nat]
  /\ ghosts \subseteq Kinds \X (0..MaxEvictions)
  /\ stalled \subseteq Kinds
  /\ faults \in 0..MaxFaults

Whole(k) == Artifact(k, TRUE) \in local

\* A run that closes with success has made a whole artifact of every kind, which
\* its own retention has not taken; one that closes with an error has made those
\* of every snapshot and database that did not itself fail, unless the globals or
\* the listing did: no database goes without its dump because another one failed.
BackupComplete ==
  (phase = "idle" /\ run > Earlier) =>
    /\ outcome = "ok" => \A k \in Kinds : Whole(k)
    /\ \A k \in Kinds \ failed :
         Whole(k) \/ (k \in Databases /\ failed \cap {Globals, "list"} # {})

\* A key that the run reports is in the bucket until the next run: neither other
\* uploads, nor an attempt of the same upload that was given up, nor the sweep
\* takes it.  (An abandoned upload of the globals may: its prefix holds the
\* databases' keys too.)
ReportedStored ==
  \A k \in reported :
    (k \in Snapshots \/ Globals \notin stalled) => Object(k) \in DOMAIN remote

\* Local retention never takes the last whole artifact of a kind, however long
\* backups fail.
LocalKept ==
  [][\A k \in Kinds :
       (\E a \in local : a.kind = k /\ a.whole) => \E a \in local' : a.kind = k /\ a.whole]_vars

\* A run that has started closes, whatever fails and whoever waits for a slot.
RunCloses == phase # "idle" ~> phase = "idle"
=============================================================================
