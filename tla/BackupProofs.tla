------------------------------ MODULE BackupProofs ------------------------------
(***************************************************************************)
(* What Backup guarantees for every set of snapshots and databases, all    *)
(* retention windows, any number of attempts, evictions and faults.        *)
(***************************************************************************)
EXTENDS Backup, FiniteSetTheorems, WellFoundedInduction, TLAPS

\* The databases are dumped after the globals are uploaded and the listing is
\* known, and only then.
Stages ==
  /\ run >= Earlier /\ (phase # "idle" => run > Earlier)
  /\ listed => pc[Globals] = "ended" /\ failed \cap {Globals, "list"} = {}
  /\ \A d \in Databases : pc[d] \in {"dump", "upload"} => listed
  /\ run > Earlier => \A d \in Databases : pc[d] = "ended" => listed

\* A leg that has passed its dump, and not failed in it, has made a whole artifact.
Dumped ==
  run > Earlier =>
    \A k \in Kinds \ failed : pc[k] \in {"upload", "ended"} => Whole(k)

\* Retention starts, and a run ends well, only when no leg has failed.
Closing ==
  /\ phase # "legs" /\ run > Earlier => LegsEnded
  /\ phase \in {"local", "s3"} => failed = {}
  /\ phase = "idle" /\ run > Earlier /\ outcome = "ok" => failed = {}

\* A reported upload is over, and so is that of the globals before a database's; an
\* abandoned attempt is one of this run.
Uploads ==
  /\ \A k \in reported : pc[k] = "ended"
  /\ \A d \in Databases : d \in reported => listed
  /\ \A g \in ghosts : g[1] \in stalled

\* There is a bound on the times of the objects in the bucket.
Dated == \E n \in Nat : \A o \in DOMAIN remote : remote[o] <= n

TypeInv == TypeOK /\ Dated
LegInv == Stages /\ Dumped /\ Closing

--------------------------------------------------------------------------------
\* The bucket.

\* A set of naturals with a bound has a greatest element.
LEMMA MaxOfBounded ==
  ASSUME NEW S \in SUBSET Nat, S # {}, NEW n \in Nat, \A x \in S : x <= n
  PROVE  Max(S) \in S /\ \A x \in S : x <= Max(S)
<1> DEFINE below == {1..(n - x) : x \in S}
<1>1. \A x \in S : 1..(n - x) \in FiniteSubsetsOf(Nat)
  <2> SUFFICES ASSUME NEW x \in S PROVE 1..(n - x) \in FiniteSubsetsOf(Nat)
    OBVIOUS
  <2>1. n - x \in Int
    OBVIOUS
  <2>2. IsFiniteSet(1..(n - x)) /\ 1..(n - x) \subseteq Nat
    BY <2>1, FS_Interval
  <2>3. QED
    BY <2>2 DEF FiniteSubsetsOf
<1>2. below \subseteq FiniteSubsetsOf(Nat) /\ below # {}
  BY <1>1
<1>3. PICK b \in below : \A c \in below : ~(<<c, b>> \in StrictSubsetOrdering(Nat))
  BY <1>2, FS_StrictSubsetOrderingWellFounded, WFMin
<1>4. PICK m \in S : b = 1..(n - m)
  OBVIOUS
<1>5. ASSUME NEW x \in S, x > m PROVE FALSE
  <2>1. <<1..(n - x), 1..(n - m)>> \in StrictSubsetOrdering(Nat)
    <3>1. n - x < n - m /\ n - x >= 0 /\ n - m \in Nat
      BY <1>5
    <3>2. 1..(n - x) \subseteq 1..(n - m) /\ (n - m) \in 1..(n - m) /\ (n - m) \notin 1..(n - x)
      BY <3>1
    <3>3. QED
      BY <3>2 DEF StrictSubsetOrdering
  <2>2. QED
    BY <1>3, <1>4, <2>1
<1>6. \A x \in S : x <= m
  BY <1>5
<1>7. QED
  BY <1>6 DEF Max

LEMMA PutObject ==
  ASSUME TypeInv, NEW k \in Kinds, Put(k)
  PROVE  /\ DOMAIN remote' = DOMAIN remote \cup {Object(k)}
         /\ remote' \in [DOMAIN remote' -> Nat]
         /\ \E n \in Nat : \A o \in DOMAIN remote' : remote'[o] <= n
<1> DEFINE times == {0} \cup Range(remote)
<1>1. remote \in [DOMAIN remote -> Nat]
  BY DEF TypeInv, TypeOK
<1>2. times \in SUBSET Nat /\ times # {}
  BY <1>1 DEF Range
<1>3. PICK n \in Nat : \A o \in DOMAIN remote : remote[o] <= n
  BY DEF TypeInv, Dated
<1>4. \A x \in times : x <= n
  BY <1>1, <1>3 DEF Range
<1>5. Max(times) \in Nat /\ \A x \in times : x <= Max(times)
  <2> HIDE DEF times
  <2>1. QED
    BY <1>2, <1>4, MaxOfBounded
<1>6. Now = 1 + Max(times)
  BY DEF Now
<1>7. \A o \in DOMAIN remote : remote[o] \in times
  BY DEF Range
<1>8. Now \in Nat /\ \A o \in DOMAIN remote : remote[o] <= Now
  <2> HIDE DEF times
  <2>1. QED
    BY <1>1, <1>5, <1>6, <1>7
<1>9. QED
  BY <1>1, <1>8 DEF Put

LEMMA DeleteKeepsRest ==
  ASSUME TypeInv, NEW S, DeleteObjects(S)
  PROVE  /\ DOMAIN remote' = DOMAIN remote \ S
         /\ remote' \in [DOMAIN remote' -> Nat]
         /\ \E n \in Nat : \A o \in DOMAIN remote' : remote'[o] <= n
<1>1. remote' = [o \in DOMAIN remote \ S |-> remote[o]]
  BY DEF DeleteObjects, Restrict
<1>2. QED
  BY <1>1 DEF TypeInv, TypeOK, Dated

LEMMA DeleteOldestObject ==
  ASSUME TypeInv, NEW k \in Kinds, DeleteOldest(k)
  PROVE  \E o \in Evictable(k) :
           /\ DOMAIN remote' = DOMAIN remote \ {o}
           /\ remote' \in [DOMAIN remote' -> Nat]
           /\ \E n \in Nat : \A p \in DOMAIN remote' : remote'[p] <= n
BY DeleteKeepsRest DEF DeleteOldest

\* What an upload of k, of this run, may do to the bucket.
Uploading(k) == Put(k) \/ DeleteOldest(k) \/ UNCHANGED remote

LEMMA UploadingKeepsBucket ==
  ASSUME TypeInv, NEW k \in Kinds, Uploading(k), UNCHANGED run
  PROVE  /\ DOMAIN remote' \subseteq [kind : Kinds, run : 0..run']
         /\ remote' \in [DOMAIN remote' -> Nat]
         /\ Dated'
<1>1. CASE Put(k)
  <2>1. Object(k) \in [kind : Kinds, run : 0..run]
    BY DEF TypeInv, TypeOK, Object
  <2>2. DOMAIN remote' = DOMAIN remote \cup {Object(k)} /\ remote' \in [DOMAIN remote' -> Nat]
    BY <1>1, PutObject
  <2>3. Dated'
    BY <1>1, PutObject DEF Dated
  <2>4. QED
    BY <2>1, <2>2, <2>3 DEF TypeInv, TypeOK
<1>2. CASE DeleteOldest(k)
  BY <1>2, DeleteOldestObject DEF TypeInv, TypeOK, Dated
<1>3. CASE UNCHANGED remote
  BY <1>3 DEF TypeInv, TypeOK, Dated
<1>4. QED
  BY <1>1, <1>2, <1>3 DEF Uploading

LEMMA AttemptUploads ==
  ASSUME NEW k \in Kinds, AttemptEnds(k)
  PROVE  /\ Uploading(k)
         /\ ghosts' = ghosts \/ ghosts' = ghosts \cup {<<k, round[k]>>}
         /\ ghosts' # ghosts => k \in stalled'
         /\ stalled' = stalled \/ stalled' = stalled \cup {k}
BY DEF AttemptEnds, Uploading

--------------------------------------------------------------------------------
\* Types.

LEMMA Parameters ==
  /\ DumpConcurrency \in Nat \ {0} /\ MaximumAttempts \in Nat \ {0}
  /\ LocalDays \in Nat \ {0} /\ S3Days \in Nat \ {0}
  /\ MaxEvictions \in Nat /\ Uploaded \subseteq Kinds
  /\ Earlier \in Nat /\ MaxRuns \in Nat /\ MaxFaults \in Nat
  /\ Databases \subseteq Kinds /\ Snapshots \subseteq Kinds /\ Globals \in Kinds
  /\ "list" \notin Kinds /\ Globals \notin Databases /\ Snapshots \cap Databases = {}
BY KindsAssumption, ConfigAssumption, BoundsAssumption DEF Kinds

USE Parameters

LEMMA TypeInit == Init => TypeInv
<1> SUFFICES ASSUME Init PROVE TypeInv
  OBVIOUS
<1>1. remote = [o \in [kind : Uploaded, run : 1..Earlier] |-> o.run]
  BY DEF Init
<1>2. \A o \in DOMAIN remote : o.run \in 1..Earlier /\ remote[o] = o.run
  BY <1>1
<1>3. Dated
  BY <1>2 DEF Dated
<1>4. DOMAIN remote \subseteq [kind : Kinds, run : 0..Earlier] /\ remote \in [DOMAIN remote -> Nat]
  BY <1>1, <1>2
<1>5. local \subseteq [kind : Kinds, run : 0..Earlier, whole : BOOLEAN]
  <2> SUFFICES ASSUME NEW a \in local PROVE a \in [kind : Kinds, run : 0..Earlier, whole : BOOLEAN]
    OBVIOUS
  <2>1. PICK k \in Kinds, r \in {n \in 1..Earlier : n + LocalDays > Earlier} :
          a = [kind |-> k, run |-> r, whole |-> TRUE]
    BY DEF Init
  <2>2. r \in 0..Earlier
    OBVIOUS
  <2>3. QED
    BY <2>1, <2>2
<1>6. TypeOK
  <2>1. /\ pc \in [Kinds -> {"waiting", "dump", "upload", "ended"}]
        /\ tries \in [Kinds -> 0..(MaximumAttempts - 1)]
        /\ round \in [Kinds -> 0..MaxEvictions]
    BY DEF Init
  <2>2. /\ run = Earlier /\ phase = "idle" /\ outcome = "ok" /\ listed = FALSE
        /\ failed = {} /\ reported = {} /\ cancelled = FALSE
        /\ ghosts = {} /\ stalled = {} /\ faults = 0
    BY DEF Init
  <2>3. /\ DOMAIN remote \subseteq [kind : Kinds, run : 0..run]
        /\ remote \in [DOMAIN remote -> Nat]
        /\ local \subseteq [kind : Kinds, run : 0..run, whole : BOOLEAN]
    BY <1>4, <1>5, <2>2, Zenon
  <2>4. /\ run \in Nat /\ phase \in {"idle", "legs", "local", "s3"}
        /\ outcome \in {"ok", "error"} /\ faults \in 0..MaxFaults
    BY <2>2
  <2>5. /\ failed \subseteq Kinds \cup {"list"} /\ reported \subseteq Kinds
        /\ ghosts \subseteq Kinds \X (0..MaxEvictions) /\ stalled \subseteq Kinds
    BY <2>2
  <2>6. listed \in BOOLEAN /\ cancelled \in BOOLEAN
    BY <2>2, Zenon
  <2>7. QED
    BY <2>1, <2>3, <2>4, <2>5, <2>6, Zenon DEF TypeOK
<1>7. QED
  BY <1>3, <1>6 DEF TypeInv

LEMMA TypeStep == TypeInv /\ [Next]_vars => TypeInv'
<1> SUFFICES ASSUME TypeInv, [Next]_vars PROVE TypeInv'
  OBVIOUS
<1> USE DEF TypeInv, TypeOK
<1>1. \A k \in Kinds, w \in BOOLEAN : Artifact(k, w) \in [kind : Kinds, run : 0..run, whole : BOOLEAN]
  BY DEF Artifact
<1>2. \A k \in Kinds : \A left \in Leftover(k) : left \subseteq [kind : Kinds, run : 0..run, whole : BOOLEAN]
  <2> SUFFICES ASSUME NEW k \in Kinds, NEW left \in Leftover(k)
               PROVE  left \subseteq [kind : Kinds, run : 0..run, whole : BOOLEAN]
    OBVIOUS
  <2>1. left \subseteq {Artifact(k, TRUE), Artifact(k, FALSE)}
    BY DEF Leftover
  <2>2. QED
    BY <1>1, <2>1
<1>3. Databases \subseteq Kinds /\ Globals \in Kinds
  OBVIOUS
<1>4. CASE Backup
  <2>1. DOMAIN remote' \subseteq [kind : Kinds, run : 0..run'] /\ remote' \in [DOMAIN remote' -> Nat]
    BY <1>4 DEF Backup
  <2>2. local' \subseteq [kind : Kinds, run : 0..run', whole : BOOLEAN]
    BY <1>4 DEF Backup
  <2>3. pc' \in [Kinds -> {"waiting", "dump", "upload", "ended"}]
    BY <1>4 DEF Backup
  <2>4. Dated'
    BY <1>4 DEF Backup, Dated
  <2>5. tries' \in [Kinds -> 0..(MaximumAttempts - 1)] /\ round' \in [Kinds -> 0..MaxEvictions]
    BY <1>4 DEF Backup
  <2>6. /\ run' \in Nat /\ phase' \in {"idle", "legs", "local", "s3"}
        /\ outcome' \in {"ok", "error"} /\ faults' \in 0..MaxFaults
    BY <1>4 DEF Backup
  <2>7. /\ failed' \subseteq Kinds \cup {"list"} /\ reported' \subseteq Kinds
        /\ ghosts' \subseteq Kinds \X (0..MaxEvictions) /\ stalled' \subseteq Kinds
    BY <1>4 DEF Backup
  <2>8. listed' \in BOOLEAN /\ cancelled' \in BOOLEAN
    BY <1>4, Zenon DEF Backup
  <2>9. QED
    BY <2>1, <2>2, <2>3, <2>4, <2>5, <2>6, <2>7, <2>8, Zenon
<1>5. ASSUME NEW k \in Kinds, Dump(k) PROVE TypeInv'
  <2>1. local' \subseteq [kind : Kinds, run : 0..run, whole : BOOLEAN]
    <3>1. Artifact(k, TRUE) \in [kind : Kinds, run : 0..run, whole : BOOLEAN]
      BY <1>1
    <3>2. local' = local \cup {Artifact(k, TRUE)}
      BY <1>5 DEF Dump
    <3>3. QED
      BY <3>1, <3>2
  <2>2. /\ pc' \in [Kinds -> {"waiting", "dump", "upload", "ended"}]
        /\ tries' \in [Kinds -> 0..(MaximumAttempts - 1)]
    BY <1>5 DEF Dump, Enter
  <2>3. QED
    BY <1>5, <2>1, <2>2 DEF Dump, upload, Dated
<1>6. ASSUME NEW k \in Kinds, DumpAttemptFails(k) PROVE TypeInv'
  BY <1>2, <1>6 DEF DumpAttemptFails, upload, Fault, Dated
<1>7. ASSUME NEW k \in Kinds, DumpFails(k) PROVE TypeInv'
  BY <1>2, <1>7 DEF DumpFails, Enter, upload, Fault, Dated
<1>8. CASE ListPostgresDatabases
  <2>1. failed' \subseteq Kinds \cup {"list"}
    BY <1>8 DEF ListPostgresDatabases
  <2>2. listed' \in BOOLEAN
    BY <1>8 DEF ListPostgresDatabases
  <2>3. faults' \in 0..MaxFaults
    BY <1>8 DEF ListPostgresDatabases, Fault
  <2>4. QED
    BY <1>8, <2>1, <2>2, <2>3 DEF ListPostgresDatabases, upload, Dated
<1>9. ASSUME NEW d \in Databases, Acquire(d) PROVE TypeInv'
  BY <1>3, <1>9 DEF Acquire, Enter, upload, Dated
<1>10. ASSUME NEW k \in Kinds, UploadToS3(k) PROVE TypeInv'
  <2>1. Uploading(k) /\ UNCHANGED run
    BY <1>10 DEF UploadToS3, Uploading
  <2>2. QED
    BY <1>10, <2>1, UploadingKeepsBucket DEF UploadToS3, Enter
<1>11. ASSUME NEW k \in Kinds, QuotaExceeded(k) PROVE TypeInv'
  <2>1. Uploading(k) /\ UNCHANGED run
    BY <1>11 DEF QuotaExceeded, Uploading
  <2>2. QED
    BY <1>11, <2>1, UploadingKeepsBucket DEF QuotaExceeded, CanEvict, Fault, legs
<1>12. ASSUME NEW k \in Kinds, UploadAttemptFails(k) PROVE TypeInv'
  <2>1. AttemptEnds(k) /\ UNCHANGED run
    BY <1>12 DEF UploadAttemptFails
  <2>2. ghosts' \subseteq Kinds \X (0..MaxEvictions) /\ stalled' \subseteq Kinds
    BY <2>1, AttemptUploads
  <2>3. Uploading(k)
    BY <2>1, AttemptUploads
  <2>4. QED
    BY <1>12, <2>1, <2>2, <2>3, UploadingKeepsBucket DEF UploadAttemptFails, Fault
<1>13. ASSUME NEW k \in Kinds, UploadFails(k) PROVE TypeInv'
  <2>1. AttemptEnds(k) /\ UNCHANGED run
    BY <1>13 DEF UploadFails
  <2>2. ghosts' \subseteq Kinds \X (0..MaxEvictions) /\ stalled' \subseteq Kinds
    BY <2>1, AttemptUploads
  <2>3. Uploading(k)
    BY <2>1, AttemptUploads
  <2>4. QED
    BY <1>13, <2>1, <2>2, <2>3, UploadingKeepsBucket DEF UploadFails, Enter, Fault
<1>14. CASE GhostUpload
  <2>1. PICK g \in ghosts :
          \/ /\ CanEvict(g[1], g[2])
             /\ DeleteOldest(g[1])
             /\ ghosts' = (ghosts \ {g}) \cup {<<g[1], g[2] + 1>>}
          \/ Put(g[1]) /\ ghosts' = ghosts \ {g}
          \/ ghosts' = ghosts \ {g} /\ UNCHANGED remote
    BY <1>14 DEF GhostUpload
  <2>2. g[1] \in Kinds /\ g[2] \in 0..MaxEvictions
    OBVIOUS
  <2>3. Uploading(g[1]) /\ UNCHANGED run
    BY <1>14, <2>1 DEF GhostUpload, Uploading
  <2>4. ghosts' \subseteq Kinds \X (0..MaxEvictions)
    BY <2>1, <2>2 DEF CanEvict
  <2>5. QED
    BY <1>14, <2>2, <2>3, <2>4, UploadingKeepsBucket DEF GhostUpload, legs
<1>15. CASE Join
  BY <1>15 DEF Join, AfterLegs, legs, upload, Dated
<1>16. CASE CleanupOldBackups
  BY <1>16 DEF CleanupOldBackups, legs, upload, Dated
<1>17. CASE CleanupOldS3Backups
  <2>1. PICK old : DeleteObjects(old)
    BY <1>17 DEF CleanupOldS3Backups
  <2>2. Dated' /\ DOMAIN remote' \subseteq DOMAIN remote /\ remote' \in [DOMAIN remote' -> Nat]
    BY <2>1, DeleteKeepsRest DEF Dated
  <2>3. QED
    BY <1>17, <2>2 DEF CleanupOldS3Backups, legs
<1>18. CASE Cancel
  BY <1>18 DEF Cancel, Fault, legs, upload, Dated
<1>19. CASE UNCHANGED vars
  BY <1>19 DEF vars, legs, upload, Dated
<1>20. QED
  BY <1>4, <1>5, <1>6, <1>7, <1>8, <1>9, <1>10, <1>11, <1>12, <1>13, <1>14, <1>15,
     <1>16, <1>17, <1>18, <1>19 DEF Next, Workflow, Leg

--------------------------------------------------------------------------------
\* The legs.

\* Once the legs have ended, no activity of theirs is awaited and none starts.
LEMMA LegsOver ==
  ASSUME TypeInv, Stages, LegsEnded
  PROVE  /\ \A k \in Kinds : pc[k] \notin {"dump", "upload"}
         /\ listed => \A d \in Databases : pc[d] # "waiting"
<1>1. \A k \in Snapshots \cup {Globals} : pc[k] = "ended"
  BY DEF LegsEnded
<1>2. listed => \A d \in Databases : pc[d] = "ended"
  BY DEF LegsEnded, Stages
<1>3. \A d \in Databases : pc[d] \in {"dump", "upload"} => listed
  BY DEF Stages
<1>4. QED
  BY <1>1, <1>2, <1>3 DEF Kinds

LEMMA AllEnded ==
  ASSUME LegsEnded, failed = {}
  PROVE  \A k \in Kinds : pc[k] = "ended"
BY DEF LegsEnded, Kinds

\* A step of the legs, which keep their artifacts and add to what failed.
LegStep ==
  /\ UNCHANGED <<run, phase, outcome>>
  /\ local \subseteq local' /\ failed \subseteq failed'
  /\ \/ \E k \in Kinds : pc[k] \in {"dump", "upload"}
     \/ listed /\ \E d \in Databases : pc[d] = "waiting"

LEMMA LegSteps ==
  /\ \A k \in Kinds : Leg(k) => LegStep
  /\ \A d \in Databases : Acquire(d) => LegStep
<1>1. ASSUME NEW k \in Kinds, Leg(k) PROVE LegStep
  BY <1>1 DEF Leg, LegStep, Dump, DumpAttemptFails, DumpFails, UploadToS3, QuotaExceeded,
              UploadAttemptFails, UploadFails, legs
<1>2. ASSUME NEW d \in Databases, Acquire(d) PROVE LegStep
  BY <1>2 DEF Acquire, LegStep
<1>3. QED
  BY <1>1, <1>2

\* While the legs run nothing has closed.
LEMMA ClosingKept ==
  ASSUME TypeInv, LegInv, LegStep
  PROVE  Closing'
<1>1. CASE run > Earlier
  <2>1. phase = "legs"
    BY <1>1, LegsOver DEF LegInv, Closing, LegStep
  <2>2. phase' = "legs"
    BY <2>1 DEF LegStep
  <2>3. QED
    BY <2>2 DEF Closing
<1>2. CASE ~(run > Earlier)
  <2>1. phase = "idle"
    BY <1>2 DEF LegInv, Stages
  <2>2. phase' = "idle" /\ ~(run' > Earlier)
    BY <1>2, <2>1 DEF LegStep
  <2>3. QED
    BY <2>2 DEF Closing
<1>3. QED
  BY <1>1, <1>2

LEMMA LegInit == Init => LegInv
BY DEF Init, LegInv, Stages, Dumped, Closing

LEMMA LegInvStep == TypeInv /\ LegInv /\ [Next]_vars => LegInv'
<1> SUFFICES ASSUME TypeInv, LegInv, [Next]_vars PROVE LegInv'
  OBVIOUS
<1> USE DEF LegInv
<1>1. /\ pc \in [Kinds -> {"waiting", "dump", "upload", "ended"}]
      /\ run \in Nat /\ failed \subseteq Kinds \cup {"list"}
  BY DEF TypeInv, TypeOK
<1>2. CASE Backup
  <2>1. Stages'
    BY <1>1, <1>2 DEF Backup, Stages
  <2>2. Dumped'
    BY <1>1, <1>2 DEF Backup, Dumped
  <2>3. Closing'
    BY <1>1, <1>2 DEF Backup, Closing
  <2>4. QED
    BY <2>1, <2>2, <2>3
<1>3. ASSUME NEW k \in Kinds, Dump(k) PROVE LegInv'
  <2>1. Stages'
    BY <1>1, <1>3 DEF Dump, Enter, Stages
  <2>2. Dumped'
    BY <1>1, <1>3 DEF Dump, Enter, Dumped, Whole, Artifact
  <2>3. Closing'
    BY <1>3, LegSteps, ClosingKept DEF Leg
  <2>4. QED
    BY <2>1, <2>2, <2>3
<1>4. ASSUME NEW k \in Kinds, DumpAttemptFails(k) PROVE LegInv'
  <2>1. Stages'
    BY <1>1, <1>4 DEF DumpAttemptFails, Stages
  <2>2. Dumped'
    BY <1>1, <1>4 DEF DumpAttemptFails, Dumped, Whole, Artifact
  <2>3. Closing'
    BY <1>4, LegSteps, ClosingKept DEF Leg
  <2>4. QED
    BY <2>1, <2>2, <2>3
<1>5. ASSUME NEW k \in Kinds, DumpFails(k) PROVE LegInv'
  <2>1. Stages'
    BY <1>1, <1>5 DEF DumpFails, Enter, Stages
  <2>2. Dumped'
    BY <1>1, <1>5 DEF DumpFails, Enter, Dumped, Whole, Artifact
  <2>3. Closing'
    BY <1>5, LegSteps, ClosingKept DEF Leg
  <2>4. QED
    BY <2>1, <2>2, <2>3
<1>6. CASE ListPostgresDatabases
  <2>1. Stages'
    BY <1>1, <1>6 DEF ListPostgresDatabases, Stages
  <2>2. Dumped'
    BY <1>1, <1>6 DEF ListPostgresDatabases, Dumped, Whole, Artifact
  <2>3. Closing'
    BY <1>6 DEF ListPostgresDatabases, Closing
  <2>4. QED
    BY <2>1, <2>2, <2>3
<1>7. ASSUME NEW d \in Databases, Acquire(d) PROVE LegInv'
  <2>1. Stages'
    BY <1>1, <1>7 DEF Acquire, Enter, Stages
  <2>2. Dumped'
    BY <1>1, <1>7 DEF Acquire, Enter, Dumped, Whole, Artifact
  <2>3. Closing'
    BY <1>7, LegSteps, ClosingKept
  <2>4. QED
    BY <2>1, <2>2, <2>3
<1>8. ASSUME NEW k \in Kinds, UploadToS3(k) PROVE LegInv'
  <2>1. Stages'
    BY <1>1, <1>8 DEF UploadToS3, Enter, Stages
  <2>2. Dumped'
    BY <1>1, <1>8 DEF UploadToS3, Enter, Dumped, Whole, Artifact
  <2>3. Closing'
    BY <1>8, LegSteps, ClosingKept DEF Leg
  <2>4. QED
    BY <2>1, <2>2, <2>3
<1>9. ASSUME NEW k \in Kinds, QuotaExceeded(k) PROVE LegInv'
  BY <1>9 DEF QuotaExceeded, legs, Stages, Dumped, Closing, LegsEnded, Whole, Artifact
<1>10. ASSUME NEW k \in Kinds, UploadAttemptFails(k) PROVE LegInv'
  BY <1>10 DEF UploadAttemptFails, Stages, Dumped, Closing, LegsEnded, Whole, Artifact
<1>11. ASSUME NEW k \in Kinds, UploadFails(k) PROVE LegInv'
  <2>1. Stages'
    BY <1>1, <1>11 DEF UploadFails, Enter, Stages
  <2>2. Dumped'
    BY <1>1, <1>11 DEF UploadFails, Enter, Dumped, Whole, Artifact
  <2>3. Closing'
    BY <1>11, LegSteps, ClosingKept DEF Leg
  <2>4. QED
    BY <2>1, <2>2, <2>3
<1>12. CASE GhostUpload
  BY <1>12 DEF GhostUpload, legs, Stages, Dumped, Closing, LegsEnded, Whole, Artifact
<1>13. CASE Join
  <2>1. Stages' /\ Dumped'
    BY <1>13 DEF Join, legs, Stages, Dumped, Whole, Artifact
  <2>2. Closing'
    BY <1>13 DEF Join, AfterLegs, legs, Closing, LegsEnded
  <2>3. QED
    BY <2>1, <2>2
<1>14. CASE CleanupOldBackups
  <2>1. Stages'
    BY <1>14 DEF CleanupOldBackups, legs, Stages
  <2>2. Dumped'
    <3>1. PICK old \in SUBSET {a \in local : a.run + LocalDays <= run} : local' = local \ old
      BY <1>14 DEF CleanupOldBackups
    <3>2. \A k \in Kinds : Artifact(k, TRUE) \notin old
      BY <1>1, <3>1 DEF Artifact
    <3>3. \A k \in Kinds : Whole(k) => Whole(k)'
      BY <1>14, <3>1, <3>2 DEF CleanupOldBackups, Whole, Artifact
    <3>4. QED
      BY <1>14, <3>3 DEF CleanupOldBackups, legs, Dumped
  <2>3. Closing'
    BY <1>14 DEF CleanupOldBackups, legs, Closing, LegsEnded, Stages
  <2>4. QED
    BY <2>1, <2>2, <2>3
<1>15. CASE CleanupOldS3Backups
  <2>1. Stages' /\ Dumped'
    BY <1>15 DEF CleanupOldS3Backups, legs, Stages, Dumped, Whole, Artifact
  <2>2. Closing'
    BY <1>15 DEF CleanupOldS3Backups, legs, Closing, LegsEnded
  <2>3. QED
    BY <2>1, <2>2
<1>16. CASE Cancel
  BY <1>16 DEF Cancel, legs, Stages, Dumped, Closing, LegsEnded, Whole, Artifact
<1>17. CASE UNCHANGED vars
  BY <1>17 DEF vars, legs, Stages, Dumped, Closing, LegsEnded, Whole, Artifact
<1>18. QED
  BY <1>2, <1>3, <1>4, <1>5, <1>6, <1>7, <1>8, <1>9, <1>10, <1>11, <1>12, <1>13, <1>14,
     <1>15, <1>16, <1>17 DEF Next, Workflow, Leg

--------------------------------------------------------------------------------
\* The uploads.

UploadInv == Uploads /\ ReportedStored

LEMMA UploadInit == Init => UploadInv
BY DEF Init, UploadInv, Uploads, ReportedStored

\* What deletes the oldest object under k's prefix takes a reported one only if k is
\* the globals and that one a database's.
LEMMA DeletedOldest ==
  ASSUME TypeInv, NEW k \in Kinds, DeleteOldest(k), NEW j \in Kinds, k = Globals => j \notin Databases,
         Object(j) \in DOMAIN remote
  PROVE  Object(j) \in DOMAIN remote'
<1>1. PICK o \in Evictable(k) : DOMAIN remote' = DOMAIN remote \ {o}
  BY DeleteOldestObject
<1>2. o.kind \in Under(k) /\ o # Object(k)
  BY DEF Evictable
<1>3. o # Object(j)
  BY <1>2 DEF Object, Under
<1>4. QED
  BY <1>1, <1>3

LEMMA UploadingKeepsStored ==
  ASSUME TypeInv, Uploads, Stages, ReportedStored, NEW k \in Kinds, Uploading(k),
         k = Globals => pc[Globals] = "upload" \/ Globals \in stalled,
         UNCHANGED run, stalled \subseteq stalled'
  PROVE  \A j \in reported :
           (j \in Snapshots \/ Globals \notin stalled') => Object(j)' \in DOMAIN remote'
<1> SUFFICES ASSUME NEW j \in reported, j \in Snapshots \/ Globals \notin stalled'
             PROVE  Object(j)' \in DOMAIN remote'
  OBVIOUS
<1>1. Object(j) \in DOMAIN remote /\ Object(j)' = Object(j) /\ j \in Kinds
  BY DEF ReportedStored, Object, TypeInv, TypeOK
<1>2. k = Globals => j \notin Databases
  BY DEF Uploads, Stages
<1>3. QED
  BY <1>1, <1>2, PutObject, DeletedOldest DEF Uploading

LEMMA UploadInvStep == TypeInv /\ LegInv /\ UploadInv /\ [Next]_vars => UploadInv'
<1> SUFFICES ASSUME TypeInv, LegInv, UploadInv, [Next]_vars PROVE UploadInv'
  OBVIOUS
<1>1. /\ pc \in [Kinds -> {"waiting", "dump", "upload", "ended"}]
      /\ run \in Nat /\ reported \subseteq Kinds /\ stalled \subseteq Kinds
      /\ ghosts \subseteq Kinds \X (0..MaxEvictions)
  BY DEF TypeInv, TypeOK
<1>2. Stages /\ Uploads /\ ReportedStored
  BY DEF LegInv, UploadInv
<1> USE DEF UploadInv
<1>3. CASE Backup
  BY <1>3 DEF Backup, Uploads, ReportedStored
<1>4. ASSUME NEW k \in Kinds, Dump(k) \/ DumpAttemptFails(k) \/ DumpFails(k) PROVE UploadInv'
  <2>1. UNCHANGED <<run, listed, reported, remote, ghosts, stalled>>
    BY <1>4 DEF Dump, DumpAttemptFails, DumpFails, upload
  <2>2. \A j \in Kinds : pc[j] = "ended" => pc'[j] = "ended"
    BY <1>1, <1>4 DEF Dump, DumpAttemptFails, DumpFails, Enter
  <2>3. Uploads'
    BY <1>1, <1>2, <2>1, <2>2 DEF Uploads
  <2>4. ReportedStored'
    BY <1>2, <2>1 DEF ReportedStored, Object
  <2>5. QED
    BY <2>3, <2>4
<1>5. CASE ListPostgresDatabases
  BY <1>5 DEF ListPostgresDatabases, upload, Uploads, ReportedStored, Object
<1>6. ASSUME NEW d \in Databases, Acquire(d) PROVE UploadInv'
  BY <1>1, <1>2, <1>6 DEF Acquire, Enter, upload, Uploads, ReportedStored, Object
<1>7. ASSUME NEW k \in Kinds, UploadToS3(k) PROVE UploadInv'
  <2>1. Uploads'
    BY <1>1, <1>2, <1>7 DEF UploadToS3, Enter, Uploads, Stages
  <2>2. ReportedStored'
    BY <1>2, <1>7, PutObject DEF UploadToS3, ReportedStored, Object
  <2>3. QED
    BY <2>1, <2>2
<1>8. ASSUME NEW k \in Kinds, QuotaExceeded(k) PROVE UploadInv'
  <2>1. Uploads'
    BY <1>2, <1>8 DEF QuotaExceeded, legs, Uploads
  <2>2. Uploading(k) /\ pc[k] = "upload" /\ UNCHANGED <<run, reported, stalled>>
    BY <1>8 DEF QuotaExceeded, Uploading
  <2>3. ReportedStored'
    BY <1>2, <2>2, UploadingKeepsStored DEF ReportedStored
  <2>4. QED
    BY <2>1, <2>3
<1>9. ASSUME NEW k \in Kinds, UploadAttemptFails(k) \/ UploadFails(k) PROVE UploadInv'
  <2>1. pc[k] = "upload" /\ AttemptEnds(k) /\ UNCHANGED <<run, reported, listed>>
    BY <1>9 DEF UploadAttemptFails, UploadFails
  <2>2. /\ Uploading(k)
        /\ ghosts' = ghosts \/ ghosts' = ghosts \cup {<<k, round[k]>>}
        /\ ghosts' # ghosts => k \in stalled'
        /\ stalled' = stalled \/ stalled' = stalled \cup {k}
    BY <2>1, AttemptUploads
  <2>3. \A j \in Kinds : pc[j] = "ended" => pc'[j] = "ended"
    BY <1>1, <1>9 DEF UploadAttemptFails, UploadFails, Enter
  <2>4. \A g \in ghosts' : g[1] \in stalled'
    BY <1>2, <2>2 DEF Uploads
  <2>5. Uploads'
    BY <1>1, <1>2, <2>1, <2>3, <2>4 DEF Uploads
  <2>6. ReportedStored'
    BY <1>2, <2>1, <2>2, UploadingKeepsStored DEF ReportedStored
  <2>7. QED
    BY <2>5, <2>6
<1>10. CASE GhostUpload
  <2>1. PICK g \in ghosts :
          \/ /\ CanEvict(g[1], g[2])
             /\ DeleteOldest(g[1])
             /\ ghosts' = (ghosts \ {g}) \cup {<<g[1], g[2] + 1>>}
          \/ Put(g[1]) /\ ghosts' = ghosts \ {g}
          \/ ghosts' = ghosts \ {g} /\ UNCHANGED remote
    BY <1>10 DEF GhostUpload
  <2>2. g[1] \in Kinds /\ g[1] \in stalled
    BY <1>1, <1>2 DEF Uploads
  <2>3. Uploading(g[1]) /\ UNCHANGED <<run, reported, stalled, listed, pc>>
    BY <1>10, <2>1 DEF GhostUpload, Uploading, legs
  <2>4. \A h \in ghosts' : h[1] \in stalled'
    BY <1>2, <2>1, <2>2, <2>3 DEF Uploads
  <2>5. Uploads'
    BY <1>2, <2>3, <2>4 DEF Uploads
  <2>6. ReportedStored'
    BY <1>2, <2>2, <2>3, UploadingKeepsStored DEF ReportedStored
  <2>7. QED
    BY <2>5, <2>6
<1>11. CASE Join
  BY <1>2, <1>11 DEF Join, legs, upload, Uploads, ReportedStored, Object
<1>12. CASE CleanupOldBackups
  BY <1>2, <1>12 DEF CleanupOldBackups, legs, upload, Uploads, ReportedStored, Object
<1>13. CASE CleanupOldS3Backups
  <2>1. Uploads'
    BY <1>2, <1>13 DEF CleanupOldS3Backups, legs, Uploads
  <2>2. PICK old \in SUBSET {o \in DOMAIN remote : o.run + S3Days <= run} : DeleteObjects(old)
    BY <1>13 DEF CleanupOldS3Backups
  <2>3. \A k \in Kinds : Object(k) \notin old
    BY <1>1, <2>2 DEF Object
  <2>4. DOMAIN remote' = DOMAIN remote \ old
    BY <2>2, DeleteKeepsRest
  <2>5. ReportedStored'
    BY <1>1, <1>2, <1>13, <2>3, <2>4 DEF CleanupOldS3Backups, ReportedStored, Object
  <2>6. QED
    BY <2>1, <2>5
<1>14. CASE Cancel
  BY <1>2, <1>14 DEF Cancel, legs, upload, Uploads, ReportedStored, Object
<1>15. CASE UNCHANGED vars
  BY <1>2, <1>15 DEF vars, legs, upload, Uploads, ReportedStored, Object
<1>16. QED
  BY <1>3, <1>4, <1>5, <1>6, <1>7, <1>8, <1>9, <1>10, <1>11, <1>12, <1>13, <1>14,
     <1>15 DEF Next, Workflow, Leg

--------------------------------------------------------------------------------
\* The theorems.

\* A run that closed found its legs ended; their artifacts are those of Dumped.
LEMMA CompleteOfInv ==
  ASSUME TypeInv, LegInv PROVE BackupComplete
<1> SUFFICES ASSUME phase = "idle", run > Earlier
             PROVE  /\ outcome = "ok" => \A k \in Kinds : Whole(k)
                    /\ \A k \in Kinds \ failed :
                         Whole(k) \/ (k \in Databases /\ failed \cap {Globals, "list"} # {})
  BY DEF BackupComplete
<1>1. LegsEnded /\ (outcome = "ok" => failed = {})
  BY DEF LegInv, Closing
<1>2. \A k \in Kinds \ failed : pc[k] = "ended" => Whole(k)
  BY DEF LegInv, Dumped
<1>3. \A k \in Kinds : pc[k] = "ended" \/ (k \in Databases /\ failed \cap {Globals, "list"} # {})
  BY <1>1 DEF LegsEnded, Kinds
<1>4. outcome = "ok" => \A k \in Kinds : Whole(k)
  BY <1>1, <1>2, AllEnded
<1>5. QED
  BY <1>2, <1>3, <1>4

\* Retention runs after runs in which nothing failed, and those have made an
\* artifact of each kind that is not old.
LEMMA RetentionKeepsLast ==
  ASSUME TypeInv, LegInv, [Next]_vars
  PROVE  \A k \in Kinds :
           (\E a \in local : a.kind = k /\ a.whole) => \E a \in local' : a.kind = k /\ a.whole
<1>1. CASE CleanupOldBackups
  <2>1. PICK old \in SUBSET {a \in local : a.run + LocalDays <= run} : local' = local \ old
    BY <1>1 DEF CleanupOldBackups
  <2>2. phase = "local" /\ run > Earlier /\ failed = {} /\ LegsEnded
    BY <1>1 DEF CleanupOldBackups, LegInv, Closing, Stages
  <2>3. \A k \in Kinds : Artifact(k, TRUE) \in local
    BY <2>2, AllEnded DEF LegInv, Dumped, Whole
  <2>4. \A k \in Kinds : Artifact(k, TRUE) \notin old
    BY <2>1 DEF Artifact, TypeInv, TypeOK
  <2>5. \A k \in Kinds : Artifact(k, TRUE).kind = k /\ Artifact(k, TRUE).whole
    BY DEF Artifact
  <2>6. QED
    BY <2>1, <2>3, <2>4, <2>5
<1>2. CASE ~CleanupOldBackups
  <2>1. local \subseteq local'
    <3>1. CASE Backup \/ ListPostgresDatabases \/ Join \/ CleanupOldS3Backups \/ GhostUpload \/ Cancel
      BY <3>1 DEF Backup, ListPostgresDatabases, Join, CleanupOldS3Backups, GhostUpload, Cancel
    <3>2. CASE (\E d \in Databases : Acquire(d)) \/ \E k \in Kinds : Leg(k)
      BY <3>2, LegSteps DEF LegStep
    <3>3. CASE UNCHANGED vars
      BY <3>3 DEF vars
    <3>4. QED
      BY <1>2, <3>1, <3>2, <3>3 DEF Next, Workflow
  <2>2. QED
    BY <2>1
<1>3. QED
  BY <1>1, <1>2

Inv == TypeInv /\ LegInv /\ UploadInv

LEMMA Invariance == Spec => []Inv
<1>1. Init => Inv
  BY TypeInit, LegInit, UploadInit DEF Inv
<1>2. Inv /\ [Next]_vars => Inv'
  BY TypeStep, LegInvStep, UploadInvStep DEF Inv
<1>3. QED
  BY <1>1, <1>2, PTL DEF Spec

\* Every variable of a run, and of the bucket, keeps its type: attempts and
\* evictions stay within their limits.
THEOREM TypeCorrect == Spec => []TypeOK
<1>1. Inv => TypeOK
  BY DEF Inv, TypeInv
<1>2. QED
  BY <1>1, Invariance, PTL

\* A run that closes has the whole artifacts that its outcome promises.
THEOREM RunsAreComplete == Spec => []BackupComplete
<1>1. Inv => BackupComplete
  BY CompleteOfInv DEF Inv
<1>2. QED
  BY <1>1, Invariance, PTL

\* The keys that a run reports are in the bucket.
THEOREM ReportsStoredKeys == Spec => []ReportedStored
<1>1. Inv => ReportedStored
  BY DEF Inv, UploadInv
<1>2. QED
  BY <1>1, Invariance, PTL

\* No step takes the last whole artifact of a kind from the disk.
THEOREM KeepsLastBackup == Spec => LocalKept
<1>1. Inv /\ [Next]_vars =>
        [\A k \in Kinds :
           (\E a \in local : a.kind = k /\ a.whole) => \E a \in local' : a.kind = k /\ a.whole]_vars
  BY RetentionKeepsLast DEF Inv
<1>2. QED
  BY <1>1, Invariance, PTL DEF Spec, LocalKept

================================================================================
