------------------------------ MODULE NodeCleanup ------------------------------
(***************************************************************************)
(* The Cleanup workflow: on every ready node, with bounded concurrency, an *)
(* activity sweeps what nothing uses any more: the data directories of     *)
(* jobs, and on request the images of an orphaned containerd store and     *)
(* rootfs entries.                                                         *)
(*                                                                         *)
(* A sweep looks at what is in use and at what is there, in an order that  *)
(* depends on its kind, and then removes one candidate after another,      *)
(* while jobs and containers start and stop.  An attempt that was given up *)
(* goes on beside its retry.                                               *)
(***************************************************************************)
EXTENDS Integers, Sequences, FiniteSets

CONSTANTS
  Nodes,            \* the client nodes
  Items,            \* what a sweep may remove
  Kind,             \* by item: "dir", "image" or "rootfs"
  Home,             \* by item: the node it is on
  Names,            \* the jobs and containers there may be
  Users,            \* by item: the jobs or containers that use it
  StripIndex,       \* by directory: its name without a task-group index
  Excluded,         \* the directories of orphanExcludes
  LiveStore,        \* the nodes whose Docker does not run on overlay2
  Prunes,           \* the optional sweeps that the configuration asks for
  Concurrency,      \* nodes cleaned at once
  MaximumAttempts,  \* StandardRetry's MaximumAttempts: 3 in the code
  MaxFaults         \* bounds the faults in a behaviour

Dirs == {i \in Items : Kind[i] = "dir"}

\* A directory belongs to the jobs that its name may stand for, with the index of
\* a task group or without.
ASSUME ItemsAssumption ==
  /\ Kind \in [Items -> {"dir", "image", "rootfs"}]
  /\ Home \in [Items -> Nodes]
  /\ Users \in [Items -> SUBSET Names]
  /\ \A d \in Dirs : Users[d] = {d, StripIndex[d]} \cap Names
  /\ Excluded \subseteq Dirs /\ LiveStore \subseteq Nodes
ASSUME ConfigAssumption ==
  /\ Prunes \subseteq {"image", "rootfs"}
  /\ {Concurrency, MaximumAttempts} \subseteq Nat \ {0} /\ MaxFaults \in Nat

VARIABLES
  dryRun,   \* the run only reports
  phase,    \* "nodes", "clean", then how the run ended: "ok" or "error"
  ready,    \* the nodes that GetAllNomadClientNodes returned
  pc,       \* by node: "waiting", "cleaning", "done"
  tries,    \* attempts of its activity that are over or given up
  errors,   \* the nodes whose result holds an error
  at,       \* by attempt: the sweep it is in and the step of that sweep
  seen,     \* the items it saw in use
  left,     \* the candidates it has still to remove
  dirty,    \* the attempts that could not delete a directory
  live,     \* the jobs and containers that run
  present,  \* the items there are
  young,    \* the directories changed within the grace period
  faults,
  guard,    \* auxiliary: what has had to be kept since the attempt looked
  stale     \* auxiliary: the directories that nothing has used in this run

workflow == <<dryRun, phase, ready>>
results == <<pc, tries, errors>>
sweep == <<at, seen, left, dirty, guard>>
disk == <<live, present, young, stale>>
vars == <<workflow, results, sweep, disk, faults>>

Attempts == Nodes \X (1..MaximumAttempts)
Current(n) == <<n, tries[n] + 1>>
Awaited(a) == pc[a[1]] = "cleaning" /\ a = Current(a[1])

InUse(i) == Users[i] \cap live # {}

--------------------------------------------------------------------------------
\* The order in which a sweep looks, and which sweeps there are.

\* Slip: the mount table is read before the entries are listed.
LooksMountsFirst == [dir |-> <<"use", "list">>, image |-> <<"use", "list">>,
                     rootfs |-> <<"use", "list">>]

Looks == [dir |-> <<"use", "list">>, image |-> <<"use", "list">>,
          rootfs |-> <<"list", "use">>]

Asked(k) == IF k \in Prunes THEN <<k>> ELSE <<>>
Sweeps == <<"dir">> \o Asked("image") \o Asked("rootfs")

Over == <<0, 0>>
KindOf(a) == Sweeps[at[a][1]]
Running(a) == at[a] # Over
Looking(a) == Running(a) /\ at[a][2] <= Len(Looks[KindOf(a)])
Removing(a) == Running(a) /\ at[a][2] > Len(Looks[KindOf(a)])
LooksAt(a, what) == Looking(a) /\ Looks[KindOf(a)][at[a][2]] = what
Mine(a) == {i \in Items : Home[i] = a[1] /\ Kind[i] = KindOf(a)}

Init ==
  /\ dryRun \in BOOLEAN
  /\ phase = "nodes"
  /\ ready = {}
  /\ pc = [n \in Nodes |-> "waiting"]
  /\ tries = [n \in Nodes |-> 0]
  /\ errors = {}
  /\ at = [a \in Attempts |-> Over]
  /\ seen = [a \in Attempts |-> {}]
  /\ left = [a \in Attempts |-> {}]
  /\ guard = [a \in Attempts |-> {}]
  /\ dirty = {}
  /\ live \in SUBSET Names
  /\ present = Items
  /\ young \in SUBSET Dirs
  /\ stale = {d \in Dirs \ (young \cup Excluded) : ~InUse(d)}
  /\ faults = 0

--------------------------------------------------------------------------------
\* What decides about an item.

\* Slip: a directory with an index belongs to no job.
isJobRunningByName(d, running) == d \in running

\* isJobRunning: the name, or the name without its index, is a running job.
isJobRunning(d, running) == d \in running \/ StripIndex[d] \in running

\* RunningJobIDs for directories; what a container or a mount references for
\* the other kinds.
UsedNow(a) ==
  {i \in Mine(a) : IF Kind[i] = "dir" THEN isJobRunning(i, live) ELSE InUse(i)}

\* listDataDirs and classifyEntry, with the age at the listing; ContainerdPrune
\* lists nothing where containerd is the live store.
ListedNow(a) ==
  IF KindOf(a) = "image" /\ a[1] \in LiveStore
  THEN {}
  ELSE {i \in Mine(a) \cap present : i \notin Excluded \cup young}

\* What has to stay, as far as the sweep could see: for directories and images
\* what was in use at the first look or young at the second, for the others
\* what was in use at the last.
Kept(i) == i \in Excluded \cup young \/ (Kind[i] = "image" /\ Home[i] \in LiveStore)
Guarded(a) ==
  IF KindOf(a) \in {"dir", "image"} /\ at[a][2] > 1
  THEN guard[a] \cup {i \in Mine(a) : Kept(i)}
  ELSE {i \in Mine(a) : Kept(i) \/ InUse(i)}

--------------------------------------------------------------------------------
\* The activity CleanupNodeViaSSH.

Step(a) == at' = [at EXCEPT ![a] = <<@[1], @[2] + 1>>]

ReadUse(a) ==
  /\ LooksAt(a, "use")
  /\ seen' = [seen EXCEPT ![a] = UsedNow(a)]
  /\ left' = [left EXCEPT ![a] = @ \ UsedNow(a)]
  /\ guard' = [guard EXCEPT ![a] = Guarded(a)]
  /\ Step(a)
  /\ UNCHANGED <<workflow, results, dirty, disk, faults>>

ReadDir(a) ==
  /\ LooksAt(a, "list")
  /\ left' = [left EXCEPT ![a] = ListedNow(a) \ seen[a]]
  /\ seen' = [seen EXCEPT ![a] = {}]
  /\ guard' = [guard EXCEPT ![a] = Guarded(a)]
  /\ Step(a)
  /\ UNCHANGED <<workflow, results, dirty, disk, faults>>

\* Slip: a dry run removes what it counts.
RemoveAllAlways(a, i) ==
  /\ Removing(a) /\ i \in left[a]
  /\ left' = [left EXCEPT ![a] = @ \ {i}]
  /\ present' = present \ {i}
  /\ UNCHANGED <<workflow, results, at, seen, guard, dirty, live, young, stale, faults>>

\* One candidate; a dry run only counts it.
RemoveAll(a, i) ==
  /\ Removing(a) /\ i \in left[a]
  /\ left' = [left EXCEPT ![a] = @ \ {i}]
  /\ present' = IF dryRun THEN present ELSE present \ {i}
  /\ UNCHANGED <<workflow, results, at, seen, guard, dirty, live, young, stale, faults>>

Fault == faults < MaxFaults /\ faults' = faults + 1

\* Slip: a directory that cannot be deleted is only warned about.
RemoveFailsQuietly(a, i) ==
  /\ Removing(a) /\ i \in left[a] /\ ~dryRun
  /\ Fault
  /\ left' = [left EXCEPT ![a] = @ \ {i}]
  /\ UNCHANGED <<workflow, results, at, seen, guard, dirty, disk>>

\* A directory that cannot be deleted is recorded, anything else warned about.
RemoveFails(a, i) ==
  /\ Removing(a) /\ i \in left[a] /\ ~dryRun
  /\ Fault
  /\ left' = [left EXCEPT ![a] = @ \ {i}]
  /\ dirty' = IF i \in Dirs THEN dirty \cup {a} ELSE dirty
  /\ UNCHANGED <<workflow, results, at, seen, guard, disk>>

Forget(a) ==
  /\ seen' = [seen EXCEPT ![a] = {}]
  /\ left' = [left EXCEPT ![a] = {}]
  /\ guard' = [guard EXCEPT ![a] = {}]

\* Slip: one sweep too many.
AfterSweepPastEnd(a) ==
  /\ Forget(a)
  /\ IF at[a][1] <= Len(Sweeps)
     THEN at' = [at EXCEPT ![a] = <<@[1] + 1, 1>>] /\ UNCHANGED <<results, dirty>>
     ELSE /\ at' = [at EXCEPT ![a] = Over]
          /\ dirty' = dirty \ {a}
          /\ IF Awaited(a)
             THEN /\ pc' = [pc EXCEPT ![a[1]] = "done"]
                  /\ errors' = IF a \in dirty THEN errors \cup {a[1]} ELSE errors
                  /\ UNCHANGED tries
             ELSE UNCHANGED results
  /\ UNCHANGED <<workflow, disk>>

\* What follows a sweep: the next one, or the activity's result, if anybody
\* still waits for it.
AfterSweep(a) ==
  /\ Forget(a)
  /\ IF at[a][1] < Len(Sweeps)
     THEN at' = [at EXCEPT ![a] = <<@[1] + 1, 1>>] /\ UNCHANGED <<results, dirty>>
     ELSE /\ at' = [at EXCEPT ![a] = Over]
          /\ dirty' = dirty \ {a}
          /\ IF Awaited(a)
             THEN /\ pc' = [pc EXCEPT ![a[1]] = "done"]
                  /\ errors' = IF a \in dirty THEN errors \cup {a[1]} ELSE errors
                  /\ UNCHANGED tries
             ELSE UNCHANGED results
  /\ UNCHANGED <<workflow, disk>>

EndSweep(a) == Removing(a) /\ left[a] = {} /\ AfterSweep(a) /\ UNCHANGED faults

\* An optional sweep that fails leaves a note in the output, and no error.
SweepFails(a) == Looking(a) /\ KindOf(a) # "dir" /\ Fault /\ AfterSweep(a)

\* An attempt that fails, because Nomad, the SSH dial or the listing does or
\* its worker dies, is over; one that misses a heartbeat or its StartToClose
\* timeout is given up and goes on.
AttemptFails(n) ==
  LET a == Current(n)
      retried == tries[n] + 1 < MaximumAttempts
  IN  /\ pc[n] = "cleaning"
      /\ Fault
      /\ tries' = [tries EXCEPT ![n] = @ + 1]
      /\ pc' = [pc EXCEPT ![n] = IF retried THEN @ ELSE "done"]
      /\ errors' = IF retried THEN errors ELSE errors \cup {n}
      /\ \E stopped \in BOOLEAN :
           /\ at' = [b \in Attempts |->
                       IF b = a /\ stopped THEN Over
                       ELSE IF retried /\ b = <<n, tries[n] + 2>> THEN <<1, 1>>
                       ELSE at[b]]
           /\ IF stopped THEN Forget(a) /\ dirty' = dirty \ {a}
              ELSE UNCHANGED <<seen, left, guard, dirty>>
      /\ UNCHANGED <<workflow, disk>>

--------------------------------------------------------------------------------
\* The workflow.

\* Nodes that are not ready, or whose details cannot be read, are left out.
GetAllNomadClientNodes ==
  /\ phase = "nodes"
  /\ phase' = "clean"
  /\ ready' \in SUBSET Nodes
  /\ UNCHANGED <<dryRun, results, sweep, disk, faults>>

NodesFail ==
  /\ phase = "nodes"
  /\ Fault
  /\ phase' = "error"
  /\ UNCHANGED <<dryRun, ready, results, sweep, disk>>

\* Slip: an activity that failed keeps its slot.
SlotsLeaked ==
  Concurrency - Cardinality({n \in Nodes : pc[n] = "cleaning" \/ n \in errors})

Slots == Concurrency - Cardinality({n \in Nodes : pc[n] = "cleaning"})

Acquire(n) ==
  /\ phase = "clean" /\ n \in ready
  /\ pc[n] = "waiting" /\ Slots > 0
  /\ pc' = [pc EXCEPT ![n] = "cleaning"]
  /\ at' = [at EXCEPT ![Current(n)] = <<1, 1>>]
  /\ UNCHANGED <<workflow, tries, errors, seen, left, guard, dirty, disk, faults>>

Outcome == IF errors = {} THEN "ok" ELSE "error"

Close ==
  /\ phase = "clean"
  /\ \A n \in ready : pc[n] = "done"
  /\ phase' = Outcome
  /\ UNCHANGED <<dryRun, ready, results, sweep, disk, faults>>

--------------------------------------------------------------------------------
\* Nomad and the containers.

Uses(u) == {i \in Items : u \in Users[i]}

\* Jobs start and stop at any time; it matters while something sweeps.
Sweeping == \E a \in Attempts : Running(a)

\* Starting creates what is not there; a directory may be changed by it.
Start(u) ==
  /\ Sweeping /\ u \notin live
  /\ live' = live \cup {u}
  /\ present' = present \cup Uses(u)
  /\ \E touched \in SUBSET (Uses(u) \cap Dirs) :
       young' = young \cup touched \cup ((Uses(u) \cap Dirs) \ present)
  /\ stale' = stale \ Uses(u)
  /\ UNCHANGED <<workflow, results, sweep, faults>>

Stop(u) ==
  /\ Sweeping /\ u \in live
  /\ live' = live \ {u}
  /\ guard' = [a \in Attempts |->
                 {i \in guard[a] : Kept(i) \/ Users[i] \cap live' # {}}]
  /\ UNCHANGED <<workflow, results, at, seen, left, dirty, present, young, stale, faults>>

--------------------------------------------------------------------------------
Sweep(a) ==
  \/ ReadUse(a) \/ ReadDir(a)
  \/ EndSweep(a)
  \/ \E i \in Items : RemoveAll(a, i)

Workflow ==
  \/ GetAllNomadClientNodes \/ Close
  \/ \E n \in Nodes : Acquire(n)

Next ==
  \/ Workflow \/ NodesFail
  \/ \E a \in Attempts : Sweep(a) \/ SweepFails(a) \/ \E i \in Items : RemoveFails(a, i)
  \/ \E n \in Nodes : AttemptFails(n)
  \/ \E u \in Names : Start(u) \/ Stop(u)

\* The server dispatches what the workflow awaits, and the attempt it awaits goes
\* on until it has made its way through the sweeps.
Fairness == WF_vars(Workflow) /\ \A n \in Nodes : WF_vars(pc[n] = "cleaning" /\ Sweep(Current(n)))

Spec == Init /\ [][Next]_vars /\ Fairness

--------------------------------------------------------------------------------
\* Properties.

TypeOK ==
  /\ dryRun \in BOOLEAN
  /\ phase \in {"nodes", "clean", "ok", "error"}
  /\ ready \subseteq Nodes /\ errors \subseteq Nodes
  /\ pc \in [Nodes -> {"waiting", "cleaning", "done"}]
  /\ tries \in [Nodes -> 0..MaximumAttempts]
  /\ at \in [Attempts -> {Over} \cup ((1..Len(Sweeps)) \X (1..3))]
  /\ {seen, left, guard} \subseteq [Attempts -> SUBSET Items]
  /\ dirty \subseteq Attempts
  /\ live \subseteq Names
  /\ present \subseteq Items
  /\ young \subseteq Dirs /\ stale \subseteq Dirs
  /\ faults \in 0..MaxFaults

\* What a sweep removes was neither in use when the sweep could last see it nor
\* ever since, it is no excluded or young directory and no image of a store that
\* Docker runs on, and nothing is removed in a dry run: whatever starts and stops
\* between the looks, and also when an attempt that was given up goes on beside
\* its retry.
DeletesOnlyOrphans ==
  [][\A i \in present \ present' :
       /\ ~dryRun
       /\ \E a \in Attempts : i \in left[a] \ (left'[a] \cup guard[a])]_vars

\* A run that ends well has removed, on every node it was given, each directory
\* that was old when it began and that nothing has used since; a directory that
\* stayed, or a node that could not be swept, makes the run fail.
SweptOrReported ==
  phase = "ok" /\ ~dryRun => \A d \in stale \cap present : Home[d] \notin ready

\* The run closes: a node that fails holds up no other.
RunCloses == <>(phase \in {"ok", "error"})

================================================================================
