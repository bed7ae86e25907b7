---------------------------- MODULE NodeCleanupProofs ----------------------------
(***************************************************************************)
(* What NodeCleanup guarantees for every set of nodes, items and users,    *)
(* any configuration, any number of attempts and faults.                   *)
(***************************************************************************)
EXTENDS NodeCleanup, TLAPS

\* Between the looks, what must stay is what was seen in use or is kept anyway; after
\* them no candidate must stay.
Protects(a) ==
  Running(a) =>
    /\ at[a][2] = 2 /\ KindOf(a) \in {"dir", "image"} => \A i \in guard[a] : i \in seen[a] \/ Kept(i)
    /\ at[a][2] = 2 /\ KindOf(a) = "rootfs" => left[a] \subseteq Mine(a)
    /\ at[a][2] = 3 => left[a] \cap guard[a] = {}

GuardInv == \A a \in Attempts : Protects(a)

\* Nothing stale is excluded, young or in use.
StaleInv == stale \cap (Excluded \cup young) = {} /\ \A d \in stale : ~InUse(d)

\* No stale directory is left on a node.
Swept(n) == \A d \in stale \cap present : Home[d] # n

\* The sweep of the directories, which comes first, sees no stale directory in use,
\* finds every one, and leaves none behind unless it could not delete it.
Covers(a) ==
  ~dryRun /\ Running(a) =>
    /\ at[a] = <<1, 2>> => seen[a] \cap stale = {}
    /\ at[a] = <<1, 3>> /\ a \notin dirty => \A d \in stale \cap present : Home[d] = a[1] => d \in left[a]
    /\ at[a][1] > 1 /\ a \notin dirty => Swept(a[1])

SweepInv == \A a \in Attempts : Covers(a)

\* A node's activity that is done has left no stale directory or an error.
DoneInv == ~dryRun => \A n \in Nodes : pc[n] = "done" => n \in errors \/ Swept(n)

\* Nodes are cleaned after they are listed, and all of them before a good end.
FlowInv ==
  /\ phase = "nodes" => \A n \in Nodes : pc[n] = "waiting"
  /\ \A n \in Nodes : /\ pc[n] # "waiting" => n \in ready
                      /\ pc[n] = "waiting" => tries[n] = 0
                      /\ pc[n] = "cleaning" => tries[n] < MaximumAttempts
  /\ phase = "ok" => errors = {} /\ \A n \in ready : pc[n] = "done"

TypeInv == TypeOK /\ FlowInv
Inv == TypeInv /\ GuardInv /\ StaleInv /\ SweepInv /\ DoneInv

--------------------------------------------------------------------------------
\* The sweeps.

\* The directories are swept first, and only once.
LEMMA SweepsInOrder ==
  /\ Len(Sweeps) \in Nat /\ Len(Sweeps) >= 1
  /\ Sweeps[1] = "dir"
  /\ \A s \in 1..Len(Sweeps) : s # 1 => Sweeps[s] \in {"image", "rootfs"}
<1> DEFINE kinds == {"image", "rootfs"}
<1>1. \A k \in kinds : Asked(k) \in Seq(kinds)
  <2>1. \A k \in kinds : <<k>> \in Seq(kinds) /\ <<>> \in Seq(kinds)
    OBVIOUS
  <2>2. QED
    BY <2>1, Zenon DEF Asked
<1>2. \A q, r \in Seq(kinds) :
        /\ Len(<<"dir">> \o q \o r) \in Nat /\ Len(<<"dir">> \o q \o r) >= 1
        /\ (<<"dir">> \o q \o r)[1] = "dir"
        /\ \A s \in 1..Len(<<"dir">> \o q \o r) : s # 1 => (<<"dir">> \o q \o r)[s] \in kinds
  <2> SUFFICES ASSUME NEW q \in Seq(kinds), NEW r \in Seq(kinds)
               PROVE  /\ Len(<<"dir">> \o q \o r) \in Nat /\ Len(<<"dir">> \o q \o r) >= 1
                      /\ (<<"dir">> \o q \o r)[1] = "dir"
                      /\ \A s \in 1..Len(<<"dir">> \o q \o r) : s # 1 => (<<"dir">> \o q \o r)[s] \in kinds
    OBVIOUS
  <2> HIDE DEF kinds
  <2> DEFINE asked == q \o r
  <2>1. asked \in Seq(kinds)
    OBVIOUS
  <2>2. <<"dir">> \o q \o r = <<"dir">> \o asked
    OBVIOUS
  <2>3. \A s \in 1..Len(asked) : asked[s] \in kinds
    <3> HIDE DEF asked
    <3>1. QED
      BY <2>1
  <2>4. Len(<<"dir">> \o asked) = 1 + Len(asked) /\ Len(asked) \in Nat
    <3> HIDE DEF asked
    <3>1. QED
      BY <2>1
  <2>5. (<<"dir">> \o asked)[1] = "dir" /\ \A s \in 2..Len(asked) + 1 : (<<"dir">> \o asked)[s] = asked[s - 1]
    <3> HIDE DEF asked
    <3>1. QED
      BY <2>1
  <2>6. QED
    <3> HIDE DEF asked
    <3>1. \A s \in 2..Len(asked) + 1 : (<<"dir">> \o asked)[s] \in kinds
      BY <2>3, <2>4, <2>5
    <3>2. QED
      BY <2>2, <2>4, <2>5, <3>1
<1>3. QED
  BY <1>1, <1>2 DEF Sweeps

\* Where an attempt is: two looks, in the order of its kind, and then removals.
LEMMA WhereAttemptIs ==
  ASSUME TypeOK, NEW a \in Attempts
  PROVE  /\ at[a] = Over \/ (at[a][1] \in 1..Len(Sweeps) /\ at[a][2] \in 1..3 /\ at[a] = <<at[a][1], at[a][2]>>)
         /\ Running(a) => KindOf(a) \in {"dir", "image", "rootfs"}
         /\ Running(a) => (KindOf(a) = "dir" <=> at[a][1] = 1)
         /\ Looking(a) <=> Running(a) /\ at[a][2] \in {1, 2}
         /\ Removing(a) <=> Running(a) /\ at[a][2] = 3
<1>1. at[a] = Over \/ (at[a][1] \in 1..Len(Sweeps) /\ at[a][2] \in 1..3 /\ at[a] = <<at[a][1], at[a][2]>>)
  BY DEF TypeOK
<1>2. Running(a) => KindOf(a) \in {"dir", "image", "rootfs"} /\ (KindOf(a) = "dir" <=> at[a][1] = 1)
  BY <1>1, SweepsInOrder DEF Running, KindOf
<1>3. Running(a) => Len(Looks[KindOf(a)]) = 2
  BY <1>2 DEF Looks
<1>4. Running(a) => at[a][2] \in 1..3
  BY <1>1 DEF Running
<1>5. Looking(a) <=> Running(a) /\ at[a][2] \in {1, 2}
  BY <1>3, <1>4 DEF Looking
<1>6. Removing(a) <=> Running(a) /\ at[a][2] = 3
  <2>1. CASE ~Running(a)
    BY <2>1 DEF Removing
  <2>2. CASE Running(a)
    <3>1. at[a][2] > 2 <=> at[a][2] = 3
      BY <1>4, <2>2
    <3>2. QED
      BY <1>3, <2>2, <3>1 DEF Removing
  <2>3. QED
    BY <2>1, <2>2
<1>7. QED
  BY <1>1, <1>2, <1>5, <1>6

LEMMA WhatAttemptLooksAt ==
  ASSUME TypeOK, NEW a \in Attempts
  PROVE  /\ LooksAt(a, "use") <=> /\ Running(a)
                                  /\ \/ KindOf(a) \in {"dir", "image"} /\ at[a][2] = 1
                                     \/ KindOf(a) = "rootfs" /\ at[a][2] = 2
         /\ LooksAt(a, "list") <=> /\ Running(a)
                                   /\ \/ KindOf(a) \in {"dir", "image"} /\ at[a][2] = 2
                                      \/ KindOf(a) = "rootfs" /\ at[a][2] = 1
<1>1. Running(a) => KindOf(a) \in {"dir", "image", "rootfs"} /\ at[a][2] \in 1..3
  BY WhereAttemptIs DEF Running
<1>2. Looking(a) <=> Running(a) /\ at[a][2] \in {1, 2}
  BY WhereAttemptIs
<1>3. CASE ~Running(a)
  BY <1>2, <1>3 DEF LooksAt
<1>4. CASE Running(a)
  <2>1. Looks["dir"] = <<"use", "list">> /\ Looks["image"] = <<"use", "list">> /\ Looks["rootfs"] = <<"list", "use">>
    BY DEF Looks
  <2>2. QED
    BY <1>1, <1>2, <1>4, <2>1 DEF LooksAt
<1>5. QED
  BY <1>3, <1>4

\* Only the sweep an attempt is in decides which items are its own.
LEMMA KindOfKept ==
  ASSUME NEW a, at'[a][1] = at[a][1]
  PROVE  KindOf(a)' = KindOf(a) /\ Mine(a)' = Mine(a)
BY DEF KindOf, Mine

--------------------------------------------------------------------------------
\* Types and the flow of the workflow.

LEMMA Parameters ==
  /\ Kind \in [Items -> {"dir", "image", "rootfs"}] /\ Home \in [Items -> Nodes]
  /\ Users \in [Items -> SUBSET Names] /\ Excluded \subseteq Dirs /\ Dirs \subseteq Items
  /\ MaximumAttempts \in Nat \ {0} /\ MaxFaults \in Nat
BY ItemsAssumption, ConfigAssumption DEF Dirs

USE Parameters

LEMMA TypeInit == Init => TypeInv
<1> SUFFICES ASSUME Init PROVE TypeInv
  OBVIOUS
<1>1. FlowInv
  BY DEF Init, FlowInv
<1>2. dryRun \in BOOLEAN
  BY DEF Init
<1>3. at \in [Attempts -> {Over} \cup ((1..Len(Sweeps)) \X (1..3))]
  BY DEF Init
<1>4. {seen, left, guard} \subseteq [Attempts -> SUBSET Items]
  BY DEF Init
<1>5. stale \subseteq Dirs /\ young \subseteq Dirs /\ live \subseteq Names /\ present \subseteq Items
  BY DEF Init
<1>6. /\ phase \in {"nodes", "clean", "ok", "error"} /\ ready \subseteq Nodes /\ errors \subseteq Nodes
      /\ pc \in [Nodes -> {"waiting", "cleaning", "done"}] /\ tries \in [Nodes -> 0..MaximumAttempts]
      /\ dirty \subseteq Attempts /\ faults \in 0..MaxFaults
  BY DEF Init
<1>7. QED
  BY <1>1, <1>2, <1>3, <1>4, <1>5, <1>6, Zenon DEF TypeInv, TypeOK

\* The types of what one attempt works with.
SweepType ==
  /\ at \in [Attempts -> {Over} \cup ((1..Len(Sweeps)) \X (1..3))]
  /\ {seen, left, guard} \subseteq [Attempts -> SUBSET Items]
  /\ dirty \subseteq Attempts

LEMMA StepForward ==
  ASSUME TypeOK, NEW a \in Attempts, Looking(a), Step(a)
  PROVE  /\ at' \in [Attempts -> {Over} \cup ((1..Len(Sweeps)) \X (1..3))]
         /\ at'[a] = <<at[a][1], at[a][2] + 1>>
         /\ \A b \in Attempts \ {a} : at'[b] = at[b]
<1>1. at[a][1] \in 1..Len(Sweeps) /\ at[a][2] \in {1, 2}
  BY WhereAttemptIs DEF Running
<1>2. <<at[a][1], at[a][2] + 1>> \in (1..Len(Sweeps)) \X (1..3)
  BY <1>1
<1>3. QED
  BY <1>2 DEF TypeOK, Step

LEMMA CurrentAttempt ==
  ASSUME TypeInv, NEW n \in Nodes, pc[n] \in {"waiting", "cleaning"}
  PROVE  Current(n) \in Attempts /\ Current(n)[1] = n /\ Current(n) = <<n, tries[n] + 1>>
BY DEF TypeInv, TypeOK, FlowInv, Current, Attempts

LEMMA AfterSweepOf ==
  ASSUME TypeInv, NEW a \in Attempts, Running(a), AfterSweep(a)
  PROVE  /\ SweepType'
         /\ \A b \in Attempts \ {a} : at'[b] = at[b] /\ seen'[b] = seen[b] /\ left'[b] = left[b] /\ guard'[b] = guard[b]
         /\ dirty' \subseteq dirty /\ \A b \in Attempts \ {a} : b \in dirty => b \in dirty'
         /\ \/ /\ at'[a] = <<at[a][1] + 1, 1>>
               /\ UNCHANGED <<results, dirty>>
            \/ /\ at'[a] = Over
               /\ UNCHANGED tries
               /\ \/ UNCHANGED results
                  \/ /\ pc[a[1]] = "cleaning" /\ pc' = [pc EXCEPT ![a[1]] = "done"]
                     /\ errors' = IF a \in dirty THEN errors \cup {a[1]} ELSE errors
<1>1. SweepType
  BY DEF TypeInv, TypeOK, SweepType
<1>2. /\ \A b \in Attempts \ {a} : seen'[b] = seen[b] /\ left'[b] = left[b] /\ guard'[b] = guard[b]
      /\ {seen', left', guard'} \subseteq [Attempts -> SUBSET Items]
  BY <1>1 DEF AfterSweep, Forget, SweepType
<1>3. at[a][1] \in 1..Len(Sweeps) /\ Len(Sweeps) \in Nat
  BY WhereAttemptIs, SweepsInOrder DEF Running, TypeInv
<1>4. CASE at[a][1] < Len(Sweeps)
  <2>1. at' = [at EXCEPT ![a] = <<at[a][1] + 1, 1>>] /\ UNCHANGED <<results, dirty>>
    BY <1>4 DEF AfterSweep
  <2>2. <<at[a][1] + 1, 1>> \in (1..Len(Sweeps)) \X (1..3)
    BY <1>3, <1>4
  <2>3. QED
    BY <1>1, <1>2, <2>1, <2>2 DEF SweepType
<1>5. CASE ~(at[a][1] < Len(Sweeps))
  <2>1. /\ at' = [at EXCEPT ![a] = Over] /\ dirty' = dirty \ {a}
        /\ IF Awaited(a)
           THEN /\ pc' = [pc EXCEPT ![a[1]] = "done"]
                /\ errors' = IF a \in dirty THEN errors \cup {a[1]} ELSE errors
                /\ UNCHANGED tries
           ELSE UNCHANGED results
    BY <1>5 DEF AfterSweep
  <2>2. UNCHANGED tries /\ (Awaited(a) => pc[a[1]] = "cleaning")
    BY <2>1 DEF results, Awaited
  <2>3. QED
    BY <1>1, <1>2, <2>1, <2>2 DEF SweepType
<1>6. QED
  BY <1>4, <1>5

LEMMA Reads ==
  ASSUME TypeOK, NEW a \in Attempts
  PROVE  /\ Mine(a) \subseteq Items /\ UsedNow(a) \subseteq Mine(a) /\ ListedNow(a) \subseteq Mine(a)
         /\ Guarded(a) \subseteq Items
BY DEF Mine, UsedNow, ListedNow, Guarded, TypeOK

LEMMA TypeStep == TypeInv /\ [Next]_vars => TypeInv'
<1> SUFFICES ASSUME TypeInv, [Next]_vars PROVE TypeInv'
  OBVIOUS
<1>1. TypeOK /\ FlowInv /\ SweepType
  BY DEF TypeInv, TypeOK, SweepType
<1>2. ASSUME NEW a \in Attempts, ReadUse(a) PROVE TypeInv'
  <2>1. Looking(a) /\ Step(a)
    BY <1>2 DEF ReadUse, LooksAt
  <2>2. {seen', left', guard'} \subseteq [Attempts -> SUBSET Items]
    BY <1>1, <1>2, Reads DEF ReadUse, SweepType
  <2>3. at' \in [Attempts -> {Over} \cup ((1..Len(Sweeps)) \X (1..3))]
    BY <1>1, <2>1, StepForward
  <2>4. FlowInv'
    BY <1>1, <1>2 DEF ReadUse, workflow, results, FlowInv
  <2>5. TypeOK'
    BY <1>1, <1>2, <2>2, <2>3 DEF ReadUse, workflow, results, disk, TypeOK
  <2>6. QED
    BY <2>4, <2>5 DEF TypeInv
<1>3. ASSUME NEW a \in Attempts, ReadDir(a) PROVE TypeInv'
  <2>1. Looking(a) /\ Step(a)
    BY <1>3 DEF ReadDir, LooksAt
  <2>2. {seen', left', guard'} \subseteq [Attempts -> SUBSET Items]
    BY <1>1, <1>3, Reads DEF ReadDir, SweepType
  <2>3. at' \in [Attempts -> {Over} \cup ((1..Len(Sweeps)) \X (1..3))]
    BY <1>1, <2>1, StepForward
  <2>4. FlowInv'
    BY <1>1, <1>3 DEF ReadDir, workflow, results, FlowInv
  <2>5. TypeOK'
    BY <1>1, <1>3, <2>2, <2>3 DEF ReadDir, workflow, results, disk, TypeOK
  <2>6. QED
    BY <2>4, <2>5 DEF TypeInv
<1>4. ASSUME NEW a \in Attempts, NEW i \in Items, RemoveAll(a, i) \/ RemoveFails(a, i) PROVE TypeInv'
  <2>1. left' \in [Attempts -> SUBSET Items] /\ present' \subseteq Items /\ dirty' \subseteq Attempts
    <3>1. left' = [left EXCEPT ![a] = @ \ {i}]
      BY <1>4 DEF RemoveAll, RemoveFails
    <3>2. left' \in [Attempts -> SUBSET Items]
      BY <1>1, <3>1 DEF SweepType
    <3>3. present' \subseteq Items /\ dirty' \subseteq Attempts
      BY <1>1, <1>4 DEF RemoveAll, RemoveFails, SweepType, TypeOK, disk
    <3>4. QED
      BY <3>2, <3>3
  <2>2. faults' \in 0..MaxFaults
    BY <1>1, <1>4 DEF RemoveAll, RemoveFails, Fault, TypeOK
  <2>3. UNCHANGED <<workflow, results, at, seen, guard, live, young, stale>>
    BY <1>4 DEF RemoveAll, RemoveFails, disk
  <2>4. FlowInv'
    BY <1>1, <2>3 DEF workflow, results, FlowInv
  <2>5. TypeOK'
    BY <1>1, <2>1, <2>2, <2>3 DEF workflow, results, TypeOK
  <2>6. QED
    BY <2>4, <2>5 DEF TypeInv
<1>5. ASSUME NEW a \in Attempts, EndSweep(a) \/ SweepFails(a) PROVE TypeInv'
  <2>1. Running(a) /\ AfterSweep(a) /\ faults' \in 0..MaxFaults
    BY <1>1, <1>5 DEF EndSweep, SweepFails, Removing, Looking, Fault, TypeOK
  <2>2. UNCHANGED <<workflow, disk>>
    BY <2>1 DEF AfterSweep
  <2>3. a[1] \in Nodes
    BY DEF Attempts
  <2>4. /\ UNCHANGED tries
        /\ \/ UNCHANGED results
           \/ /\ pc[a[1]] = "cleaning" /\ pc' = [pc EXCEPT ![a[1]] = "done"]
              /\ errors' = IF a \in dirty THEN errors \cup {a[1]} ELSE errors
    <3>1. UNCHANGED results => UNCHANGED tries
      BY DEF results
    <3>2. QED
      BY <2>1, <3>1, AfterSweepOf
  <2>5. pc' \in [Nodes -> {"waiting", "cleaning", "done"}] /\ errors' \subseteq Nodes
    BY <1>1, <2>3, <2>4 DEF TypeOK, results
  <2>6. SweepType'
    BY <2>1, AfterSweepOf
  <2>7. TypeOK'
    BY <1>1, <2>1, <2>2, <2>4, <2>5, <2>6 DEF workflow, disk, TypeOK, SweepType
  <2>8. FlowInv'
    BY <1>1, <2>2, <2>3, <2>4 DEF workflow, results, FlowInv, TypeOK
  <2>9. QED
    BY <2>7, <2>8 DEF TypeInv
<1>6. ASSUME NEW n \in Nodes, AttemptFails(n) PROVE TypeInv'
  <2> DEFINE a == Current(n)
             retried == tries[n] + 1 < MaximumAttempts
  <2>1. /\ pc[n] = "cleaning" /\ Fault
        /\ tries' = [tries EXCEPT ![n] = @ + 1]
        /\ pc' = [pc EXCEPT ![n] = IF retried THEN @ ELSE "done"]
        /\ errors' = IF retried THEN errors ELSE errors \cup {n}
        /\ UNCHANGED <<workflow, disk>>
    BY <1>6 DEF AttemptFails
  <2>2. PICK stopped \in BOOLEAN :
          /\ at' = [b \in Attempts |->
                      IF b = a /\ stopped THEN Over
                      ELSE IF retried /\ b = <<n, tries[n] + 2>> THEN <<1, 1>>
                      ELSE at[b]]
          /\ IF stopped THEN Forget(a) /\ dirty' = dirty \ {a}
             ELSE UNCHANGED <<seen, left, guard, dirty>>
    BY <1>6 DEF AttemptFails
  <2>3. tries[n] + 1 <= MaximumAttempts /\ tries[n] \in Nat
    BY <1>1, <2>1 DEF FlowInv, TypeOK
  <2>4. <<1, 1>> \in (1..Len(Sweeps)) \X (1..3)
    BY SweepsInOrder
  <2>5. at' \in [Attempts -> {Over} \cup ((1..Len(Sweeps)) \X (1..3))]
    BY <1>1, <2>2, <2>4 DEF SweepType
  <2>6. {seen', left', guard'} \subseteq [Attempts -> SUBSET Items] /\ dirty' \subseteq Attempts
    BY <1>1, <2>2 DEF SweepType, Forget
  <2>7. /\ tries' \in [Nodes -> 0..MaximumAttempts]
        /\ pc' \in [Nodes -> {"waiting", "cleaning", "done"}]
        /\ errors' \subseteq Nodes /\ faults' \in 0..MaxFaults
    BY <1>1, <2>1, <2>3 DEF TypeOK, Fault
  <2>8. TypeOK'
    BY <1>1, <2>1, <2>5, <2>6, <2>7 DEF workflow, disk, TypeOK
  <2>9. FlowInv'
    BY <1>1, <2>1, <2>3 DEF workflow, FlowInv, TypeOK
  <2>10. QED
    BY <2>8, <2>9 DEF TypeInv
<1>7. CASE GetAllNomadClientNodes
  <2>1. UNCHANGED <<dryRun, results, sweep, disk, faults>> /\ phase' = "clean" /\ ready' \subseteq Nodes
    BY <1>7 DEF GetAllNomadClientNodes
  <2>2. TypeOK'
    BY <1>1, <2>1 DEF results, sweep, disk, TypeOK
  <2>3. FlowInv'
    BY <1>1, <1>7, <2>1 DEF GetAllNomadClientNodes, results, FlowInv
  <2>4. QED
    BY <2>2, <2>3 DEF TypeInv
<1>8. CASE NodesFail
  <2>1. TypeOK'
    BY <1>1, <1>8 DEF NodesFail, Fault, results, sweep, disk, TypeOK
  <2>2. FlowInv'
    BY <1>1, <1>8 DEF NodesFail, results, FlowInv
  <2>3. QED
    BY <2>1, <2>2 DEF TypeInv
<1>9. ASSUME NEW n \in Nodes, Acquire(n) PROVE TypeInv'
  <2>1. <<1, 1>> \in (1..Len(Sweeps)) \X (1..3)
    BY SweepsInOrder
  <2>2. at' \in [Attempts -> {Over} \cup ((1..Len(Sweeps)) \X (1..3))]
    BY <1>1, <1>9, <2>1 DEF Acquire, SweepType
  <2>3. pc' \in [Nodes -> {"waiting", "cleaning", "done"}]
    BY <1>1, <1>9 DEF Acquire, TypeOK
  <2>4. TypeOK'
    BY <1>1, <1>9, <2>2, <2>3 DEF Acquire, workflow, disk, TypeOK
  <2>5. FlowInv'
    BY <1>1, <1>9 DEF Acquire, workflow, FlowInv, TypeOK
  <2>6. QED
    BY <2>4, <2>5 DEF TypeInv
<1>10. CASE Close
  <2>1. TypeOK'
    BY <1>1, <1>10 DEF Close, Outcome, results, sweep, disk, TypeOK
  <2>2. FlowInv'
    BY <1>1, <1>10 DEF Close, Outcome, results, FlowInv
  <2>3. QED
    BY <2>1, <2>2 DEF TypeInv
<1>11. ASSUME NEW u \in Names, Start(u) PROVE TypeInv'
  <2>1. live' \subseteq Names /\ present' \subseteq Items /\ stale' \subseteq Dirs
    BY <1>1, <1>11 DEF Start, Uses, TypeOK
  <2>2. young' \subseteq Dirs
    BY <1>1, <1>11 DEF Start, Uses, TypeOK
  <2>3. TypeOK'
    BY <1>1, <1>11, <2>1, <2>2 DEF Start, workflow, results, sweep, TypeOK
  <2>4. FlowInv'
    BY <1>1, <1>11 DEF Start, workflow, results, FlowInv
  <2>5. QED
    BY <2>3, <2>4 DEF TypeInv
<1>12. ASSUME NEW u \in Names, Stop(u) PROVE TypeInv'
  <2>1. guard' \in [Attempts -> SUBSET Items] /\ live' \subseteq Names
    BY <1>1, <1>12 DEF Stop, SweepType, TypeOK
  <2>2. TypeOK'
    BY <1>1, <1>12, <2>1 DEF Stop, workflow, results, TypeOK
  <2>3. FlowInv'
    BY <1>1, <1>12 DEF Stop, workflow, results, FlowInv
  <2>4. QED
    BY <2>2, <2>3 DEF TypeInv
<1>13. CASE UNCHANGED vars
  BY <1>1, <1>13 DEF vars, workflow, results, sweep, disk, TypeInv, TypeOK, FlowInv
<1>14. QED
  BY <1>2, <1>3, <1>4, <1>5, <1>6, <1>7, <1>8, <1>9, <1>10, <1>11, <1>12, <1>13
     DEF Next, Workflow, Sweep

--------------------------------------------------------------------------------
\* What protects the items in use.

LEMMA ProtectionKept ==
  ASSUME NEW b, Protects(b), at'[b] = at[b], guard'[b] \subseteq guard[b],
         seen[b] \subseteq seen'[b], left'[b] \subseteq left[b], young \subseteq young'
  PROVE  Protects(b)'
<1>1. KindOf(b)' = KindOf(b) /\ Mine(b)' = Mine(b)
  BY KindOfKept
<1>2. Running(b)' = Running(b)
  BY DEF Running
<1>3. \A i : Kept(i) => Kept(i)'
  BY DEF Kept
<1>4. QED
  BY <1>1, <1>2, <1>3 DEF Protects

LEMMA FreshProtects ==
  ASSUME NEW b, at'[b] = Over \/ at'[b][2] = 1
  PROVE  Protects(b)'
BY DEF Protects, Running


\* Directories and images are listed after the use is read, and rootfs entries
\* before: either way the candidates are what nothing uses since.
LEMMA ReadUseProtects ==
  ASSUME TypeInv, GuardInv, NEW a \in Attempts, ReadUse(a)
  PROVE  Protects(a)'
<1>1. LooksAt(a, "use") /\ Looking(a) /\ Running(a) /\ Step(a)
  BY DEF ReadUse, LooksAt, Looking
<1>2. at'[a] = <<at[a][1], at[a][2] + 1>>
  BY <1>1, StepForward DEF TypeInv
<1>3. /\ seen'[a] = UsedNow(a) /\ left'[a] = left[a] \ UsedNow(a) /\ guard'[a] = Guarded(a)
      /\ UNCHANGED <<live, young>>
  BY DEF ReadUse, TypeInv, TypeOK, disk
<1>4. KindOf(a)' = KindOf(a) /\ Mine(a)' = Mine(a)
  BY <1>2, KindOfKept
<1>5. UsedNow(a) = {i \in Mine(a) : InUse(i)}
  <2>1. \A i \in Mine(a) : Kind[i] = "dir" => (isJobRunning(i, live) <=> InUse(i))
    <3> SUFFICES ASSUME NEW i \in Mine(a), Kind[i] = "dir"
                 PROVE  isJobRunning(i, live) <=> InUse(i)
      OBVIOUS
    <3>1. Users[i] = {i, StripIndex[i]} \cap Names /\ live \subseteq Names
      BY ItemsAssumption DEF Dirs, Mine, TypeInv, TypeOK
    <3>2. QED
      BY <3>1 DEF isJobRunning, InUse
  <2>2. QED
    BY <2>1 DEF UsedNow
<1>6. CASE KindOf(a) \in {"dir", "image"} /\ at[a][2] = 1
  <2>1. guard'[a] = {i \in Mine(a) : Kept(i) \/ InUse(i)}
    BY <1>3, <1>6 DEF Guarded
  <2>2. \A i \in guard'[a] : i \in seen'[a] \/ Kept(i)'
    BY <1>3, <1>5, <2>1 DEF Kept
  <2>3. QED
    BY <1>2, <1>4, <1>6, <2>2 DEF Protects
<1>7. CASE KindOf(a) = "rootfs" /\ at[a][2] = 2
  <2>1. left[a] \subseteq Mine(a)
    BY <1>1, <1>7 DEF GuardInv, Protects
  <2>2. guard'[a] = {i \in Mine(a) : Kept(i) \/ InUse(i)}
    BY <1>3, <1>7 DEF Guarded
  <2>3. \A i \in Mine(a) : ~Kept(i)
    BY <1>7 DEF Kept, Mine, Dirs, TypeInv, TypeOK
  <2>4. left'[a] \cap guard'[a] = {}
    BY <1>3, <1>5, <2>1, <2>2, <2>3
  <2>5. QED
    BY <1>2, <1>4, <1>7, <2>4 DEF Protects
<1>8. QED
  BY <1>1, <1>6, <1>7, WhatAttemptLooksAt DEF TypeInv

LEMMA ReadDirProtects ==
  ASSUME TypeInv, GuardInv, NEW a \in Attempts, ReadDir(a)
  PROVE  Protects(a)'
<1>1. LooksAt(a, "list") /\ Looking(a) /\ Running(a) /\ Step(a)
  BY DEF ReadDir, LooksAt, Looking
<1>2. at'[a] = <<at[a][1], at[a][2] + 1>>
  BY <1>1, StepForward DEF TypeInv
<1>3. left'[a] = ListedNow(a) \ seen[a] /\ guard'[a] = Guarded(a)
  BY DEF ReadDir, TypeInv, TypeOK
<1>4. KindOf(a)' = KindOf(a) /\ Mine(a)' = Mine(a)
  BY <1>2, KindOfKept
<1>5. CASE KindOf(a) \in {"dir", "image"} /\ at[a][2] = 2
  <2>1. guard'[a] = guard[a] \cup {i \in Mine(a) : Kept(i)}
    BY <1>3, <1>5 DEF Guarded
  <2>2. \A i \in guard[a] : i \in seen[a] \/ Kept(i)
    BY <1>1, <1>5 DEF GuardInv, Protects
  <2>3. \A i \in ListedNow(a) : ~Kept(i)
    BY DEF ListedNow, Kept, Mine
  <2>4. left'[a] \cap guard'[a] = {}
    BY <1>3, <2>1, <2>2, <2>3
  <2>5. QED
    BY <1>2, <1>4, <1>5, <2>4 DEF Protects
<1>6. CASE KindOf(a) = "rootfs" /\ at[a][2] = 1
  <2>1. left'[a] \subseteq Mine(a)
    BY <1>3, Reads DEF TypeInv
  <2>2. QED
    BY <1>2, <1>4, <1>6, <2>1 DEF Protects
<1>7. QED
  BY <1>1, <1>5, <1>6, WhatAttemptLooksAt DEF TypeInv

LEMMA GuardStep == TypeInv /\ GuardInv /\ [Next]_vars => GuardInv'
<1> SUFFICES ASSUME TypeInv, GuardInv, [Next]_vars PROVE GuardInv'
  OBVIOUS
<1>1. SweepType
  BY DEF TypeInv, TypeOK, SweepType
<1> SUFFICES ASSUME NEW b \in Attempts PROVE Protects(b)'
  BY DEF GuardInv, Attempts
<1>2. Protects(b)
  BY DEF GuardInv
<1>3. ASSUME NEW a \in Attempts, ReadUse(a) PROVE Protects(b)'
  <2>1. CASE b = a
    BY <1>3, <2>1, ReadUseProtects
  <2>2. CASE b # a
    <3>1. at'[b] = at[b] /\ seen'[b] = seen[b] /\ left'[b] = left[b] /\ guard'[b] = guard[b] /\ young' = young
      BY <1>1, <1>3, <2>2 DEF ReadUse, Step, SweepType, disk
    <3>2. QED
      BY <1>2, <3>1, ProtectionKept
  <2>3. QED
    BY <2>1, <2>2
<1>4. ASSUME NEW a \in Attempts, ReadDir(a) PROVE Protects(b)'
  <2>1. CASE b = a
    BY <1>4, <2>1, ReadDirProtects
  <2>2. CASE b # a
    <3>1. at'[b] = at[b] /\ seen'[b] = seen[b] /\ left'[b] = left[b] /\ guard'[b] = guard[b] /\ young' = young
      BY <1>1, <1>4, <2>2 DEF ReadDir, Step, SweepType, disk
    <3>2. QED
      BY <1>2, <3>1, ProtectionKept
  <2>3. QED
    BY <2>1, <2>2
<1>5. ASSUME NEW a \in Attempts, NEW i \in Items, RemoveAll(a, i) \/ RemoveFails(a, i) PROVE Protects(b)'
  <2>1. UNCHANGED <<at, seen, guard, young>> /\ left' = [left EXCEPT ![a] = @ \ {i}]
    BY <1>5 DEF RemoveAll, RemoveFails, disk
  <2>2. left'[b] \subseteq left[b]
    BY <1>1, <2>1 DEF SweepType
  <2>3. QED
    BY <1>2, <2>1, <2>2, ProtectionKept
<1>6. ASSUME NEW a \in Attempts, EndSweep(a) \/ SweepFails(a) PROVE Protects(b)'
  <2>1. Running(a) /\ AfterSweep(a) /\ young' = young
    BY <1>6 DEF EndSweep, SweepFails, Removing, Looking, AfterSweep, disk
  <2>2. CASE b = a
    BY <2>1, <2>2, AfterSweepOf, FreshProtects
  <2>3. CASE b # a
    <3>1. at'[b] = at[b] /\ seen'[b] = seen[b] /\ left'[b] = left[b] /\ guard'[b] = guard[b]
      BY <2>1, <2>3, AfterSweepOf
    <3>2. QED
      BY <1>2, <2>1, <3>1, ProtectionKept
  <2>4. QED
    BY <2>2, <2>3
<1>7. ASSUME NEW n \in Nodes, AttemptFails(n) PROVE Protects(b)'
  <2> DEFINE a == Current(n)
  <2>1. PICK stopped \in BOOLEAN :
          /\ at' = [c \in Attempts |->
                      IF c = a /\ stopped THEN Over
                      ELSE IF tries[n] + 1 < MaximumAttempts /\ c = <<n, tries[n] + 2>> THEN <<1, 1>>
                      ELSE at[c]]
          /\ IF stopped THEN Forget(a) /\ dirty' = dirty \ {a}
             ELSE UNCHANGED <<seen, left, guard, dirty>>
    BY <1>7 DEF AttemptFails
  <2>2. young' = young
    BY <1>7 DEF AttemptFails, disk
  <2>3. CASE at'[b] = Over \/ at'[b] = <<1, 1>>
    BY <2>3, FreshProtects
  <2>4. CASE at'[b] = at[b] /\ ~(b = a /\ stopped)
    <3>1. seen'[b] = seen[b] /\ left'[b] = left[b] /\ guard'[b] = guard[b]
      BY <1>1, <2>1, <2>4 DEF Forget, SweepType
    <3>2. QED
      BY <1>2, <2>2, <2>4, <3>1, ProtectionKept
  <2>5. QED
    BY <2>1, <2>3, <2>4
<1>8. ASSUME NEW n \in Nodes, Acquire(n) PROVE Protects(b)'
  <2>1. UNCHANGED <<seen, left, guard, young>> /\ at' = [at EXCEPT ![Current(n)] = <<1, 1>>]
    BY <1>8 DEF Acquire, disk
  <2>2. at'[b] = at[b] \/ at'[b] = <<1, 1>>
    BY <1>1, <2>1 DEF SweepType
  <2>3. QED
    BY <1>2, <2>1, <2>2, ProtectionKept, FreshProtects
<1>9. ASSUME NEW u \in Names, Start(u) PROVE Protects(b)'
  <2>1. UNCHANGED <<at, seen, left, guard>> /\ young \subseteq young'
    BY <1>9 DEF Start, sweep
  <2>2. QED
    BY <1>2, <2>1, ProtectionKept
<1>10. ASSUME NEW u \in Names, Stop(u) PROVE Protects(b)'
  <2>1. UNCHANGED <<at, seen, left, young>> /\ guard'[b] \subseteq guard[b]
    BY <1>10 DEF Stop
  <2>2. QED
    BY <1>2, <2>1, ProtectionKept
<1>11. CASE GetAllNomadClientNodes \/ NodesFail \/ Close \/ UNCHANGED vars
  <2>1. UNCHANGED <<at, seen, left, guard, young>>
    BY <1>11 DEF GetAllNomadClientNodes, NodesFail, Close, vars, sweep, disk
  <2>2. QED
    BY <1>2, <2>1, ProtectionKept
<1>12. QED
  BY <1>3, <1>4, <1>5, <1>6, <1>7, <1>8, <1>9, <1>10, <1>11 DEF Next, Workflow, Sweep

--------------------------------------------------------------------------------
\* What is swept.

LEMMA StaleStep == TypeInv /\ StaleInv /\ [Next]_vars => StaleInv'
<1> SUFFICES ASSUME TypeInv, StaleInv, [Next]_vars PROVE StaleInv'
  OBVIOUS
<1>1. stale \subseteq Dirs
  BY DEF TypeInv, TypeOK
<1>2. ASSUME NEW u \in Names, Start(u) PROVE StaleInv'
  <2>1. live' = live \cup {u} /\ stale' = stale \ Uses(u) /\ young' \subseteq young \cup Uses(u)
    BY <1>2 DEF Start
  <2>2. \A d \in stale' : Users[d] \cap live' = Users[d] \cap live
    BY <1>1, <2>1 DEF Uses
  <2>3. \A d \in stale' : ~InUse(d)'
    BY <2>1, <2>2 DEF StaleInv, InUse
  <2>4. stale' \cap (Excluded \cup young') = {}
    BY <2>1 DEF StaleInv
  <2>5. QED
    BY <2>3, <2>4 DEF StaleInv
<1>3. ASSUME NEW u \in Names, Stop(u) PROVE StaleInv'
  <2>1. live' \subseteq live /\ UNCHANGED <<young, stale>>
    BY <1>3 DEF Stop
  <2>2. \A d \in stale' : ~InUse(d)'
    BY <2>1 DEF StaleInv, InUse
  <2>3. QED
    BY <2>1, <2>2 DEF StaleInv
<1>4. CASE UNCHANGED <<live, young, stale>>
  BY <1>4 DEF StaleInv, InUse
<1>5. ASSUME NEW a \in Attempts,
             \/ Sweep(a) \/ SweepFails(a)
             \/ \E i \in Items : RemoveFails(a, i)
      PROVE  UNCHANGED <<live, young, stale>>
  BY <1>5 DEF Sweep, ReadUse, ReadDir, EndSweep, SweepFails, AfterSweep, RemoveAll, RemoveFails, disk
<1>6. CASE Workflow \/ NodesFail \/ (\E n \in Nodes : AttemptFails(n)) \/ UNCHANGED vars
  BY <1>4, <1>6 DEF Workflow, GetAllNomadClientNodes, Close, Acquire, NodesFail, AttemptFails, vars, disk
<1>7. QED
  BY <1>2, <1>3, <1>4, <1>5, <1>6 DEF Next

\* A stale directory that is gone stays gone: what creates it again uses it.
LEMMA StaleShrinks ==
  ASSUME TypeInv, [Next]_vars
  PROVE  /\ dryRun' = dryRun /\ stale' \subseteq stale
         /\ stale' \cap present' \subseteq stale \cap present
<1>1. ASSUME NEW u \in Names, Start(u)
      PROVE  dryRun' = dryRun /\ stale' \subseteq stale /\ stale' \cap present' \subseteq stale \cap present
  BY <1>1 DEF Start, workflow
<1>2. ASSUME NEW a \in Attempts,
             \/ Sweep(a) \/ SweepFails(a)
             \/ \E i \in Items : RemoveFails(a, i)
      PROVE  dryRun' = dryRun /\ stale' = stale /\ present' \subseteq present
  BY <1>2 DEF Sweep, ReadUse, ReadDir, EndSweep, SweepFails, AfterSweep, RemoveAll, RemoveFails, workflow, disk
<1>3. ASSUME Workflow \/ NodesFail \/ (\E n \in Nodes : AttemptFails(n)) \/ (\E u \in Names : Stop(u)) \/ UNCHANGED vars
      PROVE  dryRun' = dryRun /\ stale' = stale /\ present' = present
  BY <1>3 DEF Workflow, GetAllNomadClientNodes, Close, Acquire, NodesFail, AttemptFails, Stop, vars, workflow, disk
<1>4. QED
  BY <1>1, <1>2, <1>3 DEF Next

LEMMA SweptStays ==
  ASSUME NEW n, Swept(n), stale' \cap present' \subseteq stale \cap present
  PROVE  Swept(n)'
BY DEF Swept

\* An attempt that stays where it is goes on to cover its node.
LEMMA CoverKept ==
  ASSUME NEW b \in Attempts, Covers(b), at'[b] = at[b], dryRun' = dryRun, seen'[b] = seen[b],
         left'[b] = left[b], b \in dirty => b \in dirty',
         stale' \subseteq stale, stale' \cap present' \subseteq stale \cap present
  PROVE  Covers(b)'
<1> SUFFICES ASSUME ~dryRun, Running(b)
             PROVE  /\ at[b] = <<1, 2>> => seen[b] \cap stale' = {}
                    /\ at[b] = <<1, 3>> /\ b \notin dirty => \A d \in stale' \cap present' : Home[d] = b[1] => d \in left[b]
                    /\ at[b][1] > 1 /\ b \notin dirty => Swept(b[1])'
  BY DEF Covers, Running
<1>1. at[b][1] > 1 /\ b \notin dirty => Swept(b[1])'
  BY SweptStays DEF Covers
<1>2. QED
  BY <1>1 DEF Covers

LEMMA FreshCovers ==
  ASSUME NEW b, at'[b] = Over \/ at'[b] = <<1, 1>>
  PROVE  Covers(b)'
BY DEF Covers, Running


LEMMA ReadUseCovers ==
  ASSUME Inv, NEW a \in Attempts, ReadUse(a)
  PROVE  Covers(a)'
<1>1. LooksAt(a, "use") /\ Looking(a) /\ Running(a) /\ Step(a)
  BY DEF ReadUse, LooksAt, Looking
<1>2. at'[a] = <<at[a][1], at[a][2] + 1>> /\ TypeOK
  BY <1>1, StepForward DEF Inv, TypeInv
<1>3. seen'[a] = UsedNow(a) /\ UNCHANGED <<dryRun, dirty, live, stale, present>>
  BY <1>2 DEF ReadUse, TypeOK, disk, workflow
<1>4. CASE KindOf(a) = "dir"
  <2>1. at[a][2] = 1 /\ at[a][1] = 1
    BY <1>1, <1>2, <1>4, WhatAttemptLooksAt, WhereAttemptIs
  <2>2. UsedNow(a) \cap stale = {}
    <3>1. ASSUME NEW i \in Mine(a), i \in stale PROVE ~isJobRunning(i, live)
      <4>1. Users[i] = {i, StripIndex[i]} \cap Names /\ live \subseteq Names
        BY <1>2, <3>1, ItemsAssumption DEF TypeOK
      <4>2. QED
        BY <3>1, <4>1 DEF Inv, StaleInv, InUse, isJobRunning
    <3>2. QED
      BY <1>4, <3>1 DEF UsedNow, Mine
  <2>3. at'[a] = <<1, 2>>
    BY <1>2, <2>1
  <2>4. QED
    BY <1>3, <2>2, <2>3 DEF Covers
<1>5. CASE KindOf(a) # "dir"
  <2>1. at[a][1] # 1 /\ at[a][1] \in Nat
    BY <1>1, <1>2, <1>5, WhereAttemptIs DEF Running
  <2>2. at'[a][1] = at[a][1] /\ at'[a] # <<1, 2>> /\ at'[a] # <<1, 3>>
    BY <1>2, <2>1
  <2>3. ~dryRun /\ at[a][1] > 1 /\ a \notin dirty => Swept(a[1])
    BY <1>1 DEF Inv, SweepInv, Covers
  <2>4. Swept(a[1])' = Swept(a[1])
    BY <1>3 DEF Swept
  <2>5. QED
    BY <1>3, <2>2, <2>3, <2>4 DEF Covers
<1>6. QED
  BY <1>4, <1>5

LEMMA ReadDirCovers ==
  ASSUME Inv, NEW a \in Attempts, ReadDir(a)
  PROVE  Covers(a)'
<1>1. LooksAt(a, "list") /\ Looking(a) /\ Running(a) /\ Step(a)
  BY DEF ReadDir, LooksAt, Looking
<1>2. at'[a] = <<at[a][1], at[a][2] + 1>> /\ TypeOK
  BY <1>1, StepForward DEF Inv, TypeInv
<1>3. left'[a] = ListedNow(a) \ seen[a] /\ UNCHANGED <<dryRun, dirty, stale, present>>
  BY <1>2 DEF ReadDir, TypeOK, disk, workflow
<1>4. CASE KindOf(a) = "dir"
  <2>1. at[a][2] = 2 /\ at[a][1] = 1 /\ at[a] = <<at[a][1], at[a][2]>>
    BY <1>1, <1>2, <1>4, WhatAttemptLooksAt, WhereAttemptIs DEF Running
  <2>2. at'[a] = <<1, 3>>
    BY <1>2, <2>1
  <2>3. ~dryRun => seen[a] \cap stale = {}
    BY <1>1, <2>1 DEF Inv, SweepInv, Covers
  <2>4. \A d \in stale \cap present : Home[d] = a[1] => d \in ListedNow(a)
    BY <1>2, <1>4 DEF ListedNow, Mine, Inv, StaleInv, TypeOK, Dirs
  <2>5. ~dryRun => \A d \in stale \cap present : Home[d] = a[1] => d \in left'[a]
    BY <1>3, <2>3, <2>4
  <2>6. QED
    BY <1>3, <2>2, <2>5 DEF Covers
<1>5. CASE KindOf(a) # "dir"
  <2>1. at[a][1] # 1 /\ at[a][1] \in Nat
    BY <1>1, <1>2, <1>5, WhereAttemptIs DEF Running
  <2>2. at'[a][1] = at[a][1] /\ at'[a] # <<1, 2>> /\ at'[a] # <<1, 3>>
    BY <1>2, <2>1
  <2>3. ~dryRun /\ at[a][1] > 1 /\ a \notin dirty => Swept(a[1])
    BY <1>1 DEF Inv, SweepInv, Covers
  <2>4. Swept(a[1])' = Swept(a[1])
    BY <1>3 DEF Swept
  <2>5. QED
    BY <1>3, <2>2, <2>3, <2>4 DEF Covers
<1>6. QED
  BY <1>4, <1>5

\* A candidate goes when it is removed; a directory that stays makes the attempt dirty.
LEMMA RemovalCovers ==
  ASSUME Inv, NEW a \in Attempts, NEW i \in Items, RemoveAll(a, i) \/ RemoveFails(a, i),
         NEW b \in Attempts
  PROVE  Covers(b)'
<1>1. /\ UNCHANGED <<dryRun, at, seen, stale>> /\ left' = [left EXCEPT ![a] = @ \ {i}]
      /\ dirty \subseteq dirty' /\ present' \subseteq present
  BY DEF RemoveAll, RemoveFails, disk, workflow
<1>2. left \in [Attempts -> SUBSET Items] /\ stale \subseteq Dirs
  BY DEF Inv, TypeInv, TypeOK
<1>3. ~dryRun /\ i \in Dirs => i \notin present' \/ a \in dirty'
  BY DEF RemoveAll, RemoveFails
<1>4. Covers(b)
  BY DEF Inv, SweepInv
<1> SUFFICES ASSUME ~dryRun, Running(b)
             PROVE  /\ at[b] = <<1, 2>> => seen[b] \cap stale = {}
                    /\ at[b] = <<1, 3>> /\ b \notin dirty' =>
                         \A d \in stale \cap present' : Home[d] = b[1] => d \in left'[b]
                    /\ at[b][1] > 1 /\ b \notin dirty' => Swept(b[1])'
  BY <1>1 DEF Covers, Running
<1>5. at[b][1] > 1 /\ b \notin dirty' => Swept(b[1])'
  BY <1>1, <1>4, SweptStays DEF Covers
<1>6. at[b] = <<1, 3>> /\ b \notin dirty' => \A d \in stale \cap present' : Home[d] = b[1] => d \in left'[b]
  BY <1>1, <1>2, <1>3, <1>4 DEF Covers
<1>7. QED
  BY <1>4, <1>5, <1>6 DEF Covers

\* A sweep ends with no candidate left; only the optional ones may fail.
LEMMA SweptAtEnd ==
  ASSUME Inv, NEW a \in Attempts, EndSweep(a) \/ SweepFails(a), ~dryRun, a \notin dirty
  PROVE  Swept(a[1])
<1>1. TypeOK /\ Covers(a)
  BY DEF Inv, TypeInv, SweepInv
<1>2. Running(a)
  BY DEF EndSweep, SweepFails, Removing, Looking
<1>3. at[a][1] \in 1..Len(Sweeps) /\ at[a] = <<at[a][1], at[a][2]>>
  BY <1>1, <1>2, WhereAttemptIs DEF Running
<1>4. CASE at[a][1] = 1
  <2>1. KindOf(a) = "dir"
    BY <1>1, <1>2, <1>4, WhereAttemptIs
  <2>2. Removing(a) /\ left[a] = {}
    BY <2>1 DEF EndSweep, SweepFails
  <2>3. at[a] = <<1, 3>>
    BY <1>1, <1>3, <1>4, <2>2, WhereAttemptIs
  <2>4. QED
    BY <1>1, <1>2, <2>2, <2>3 DEF Covers, Swept
<1>5. CASE at[a][1] # 1
  <2>1. at[a][1] > 1
    BY <1>3, <1>5, SweepsInOrder
  <2>2. QED
    BY <1>1, <1>2, <2>1 DEF Covers
<1>6. QED
  BY <1>4, <1>5

LEMMA SweepStep == Inv /\ [Next]_vars => SweepInv'
<1> SUFFICES ASSUME Inv, [Next]_vars PROVE SweepInv'
  OBVIOUS
<1>1. SweepType /\ TypeInv
  BY DEF Inv, TypeInv, TypeOK, SweepType
<1> SUFFICES ASSUME NEW b \in Attempts PROVE Covers(b)'
  BY DEF SweepInv, Attempts
<1>2. Covers(b)
  BY DEF Inv, SweepInv
<1>3. /\ dryRun' = dryRun /\ stale' \subseteq stale
      /\ stale' \cap present' \subseteq stale \cap present
  BY <1>1, StaleShrinks
<1>4. ASSUME NEW a \in Attempts, ReadUse(a) PROVE Covers(b)'
  <2>1. CASE b = a
    BY <1>4, <2>1, ReadUseCovers
  <2>2. CASE b # a
    <3>1. at'[b] = at[b] /\ seen'[b] = seen[b] /\ left'[b] = left[b] /\ dirty' = dirty
      BY <1>1, <1>4, <2>2 DEF ReadUse, Step, SweepType
    <3>2. QED
      BY <1>2, <1>3, <3>1, CoverKept
  <2>3. QED
    BY <2>1, <2>2
<1>5. ASSUME NEW a \in Attempts, ReadDir(a) PROVE Covers(b)'
  <2>1. CASE b = a
    BY <1>5, <2>1, ReadDirCovers
  <2>2. CASE b # a
    <3>1. at'[b] = at[b] /\ seen'[b] = seen[b] /\ left'[b] = left[b] /\ dirty' = dirty
      BY <1>1, <1>5, <2>2 DEF ReadDir, Step, SweepType
    <3>2. QED
      BY <1>2, <1>3, <3>1, CoverKept
  <2>3. QED
    BY <2>1, <2>2
<1>6. ASSUME NEW a \in Attempts, EndSweep(a) \/ SweepFails(a) PROVE Covers(b)'
  <2>1. Running(a) /\ AfterSweep(a)
    BY <1>6 DEF EndSweep, SweepFails, Removing, Looking
  <2>2. CASE b # a
    <3>1. at'[b] = at[b] /\ seen'[b] = seen[b] /\ left'[b] = left[b] /\ (b \in dirty => b \in dirty')
      BY <1>1, <2>1, <2>2, AfterSweepOf
    <3>2. QED
      BY <1>2, <1>3, <3>1, CoverKept
  <2>3. CASE b = a /\ at'[a] = Over
    BY <2>3, FreshCovers
  <2>4. CASE b = a /\ at'[a] = <<at[a][1] + 1, 1>> /\ dirty' = dirty
    <3>1. at'[a][1] > 1 /\ at'[a] # <<1, 2>> /\ at'[a] # <<1, 3>>
      <4>1. at[a][1] \in 1..Len(Sweeps)
        BY <1>1, <2>1, WhereAttemptIs DEF Running, TypeInv
      <4>2. QED
        BY <2>4, <4>1, SweepsInOrder
    <3>2. ~dryRun /\ a \notin dirty => Swept(a[1])'
      BY <1>3, <1>6, SweptAtEnd, SweptStays
    <3>3. QED
      BY <1>3, <2>4, <3>1, <3>2 DEF Covers
  <2>5. QED
    BY <1>1, <2>1, <2>2, <2>3, <2>4, AfterSweepOf
<1>7. ASSUME NEW n \in Nodes, AttemptFails(n) PROVE Covers(b)'
  <2> DEFINE a == Current(n)
  <2>1. PICK stopped \in BOOLEAN :
          /\ at' = [c \in Attempts |->
                      IF c = a /\ stopped THEN Over
                      ELSE IF tries[n] + 1 < MaximumAttempts /\ c = <<n, tries[n] + 2>> THEN <<1, 1>>
                      ELSE at[c]]
          /\ IF stopped THEN Forget(a) /\ dirty' = dirty \ {a}
             ELSE UNCHANGED <<seen, left, guard, dirty>>
    BY <1>7 DEF AttemptFails
  <2>2. CASE at'[b] = Over \/ at'[b] = <<1, 1>>
    BY <2>2, FreshCovers
  <2>3. CASE at'[b] = at[b] /\ ~(b = a /\ stopped)
    <3>1. seen'[b] = seen[b] /\ left'[b] = left[b] /\ (b \in dirty => b \in dirty')
      BY <1>1, <2>1, <2>3 DEF Forget, SweepType
    <3>2. QED
      BY <1>2, <1>3, <2>3, <3>1, CoverKept
  <2>4. QED
    BY <2>1, <2>2, <2>3
<1>8. ASSUME NEW n \in Nodes, Acquire(n) PROVE Covers(b)'
  <2>1. UNCHANGED <<seen, left, dirty>> /\ at' = [at EXCEPT ![Current(n)] = <<1, 1>>]
    BY <1>8 DEF Acquire
  <2>2. at'[b] = at[b] \/ at'[b] = <<1, 1>>
    BY <1>1, <2>1 DEF SweepType
  <2>3. QED
    BY <1>2, <1>3, <2>1, <2>2, CoverKept, FreshCovers
<1>9. CASE GetAllNomadClientNodes \/ NodesFail \/ Close \/ (\E u \in Names : Start(u) \/ Stop(u)) \/ UNCHANGED vars
  <2>1. UNCHANGED <<at, seen, left, dirty>>
    BY <1>9 DEF GetAllNomadClientNodes, NodesFail, Close, Start, Stop, vars, sweep
  <2>2. QED
    BY <1>2, <1>3, <2>1, CoverKept
<1>10. QED
  BY <1>4, <1>5, <1>6, <1>7, <1>8, <1>9, RemovalCovers DEF Next, Workflow, Sweep

LEMMA DoneStep == Inv /\ [Next]_vars => DoneInv'
<1> SUFFICES ASSUME Inv, [Next]_vars PROVE DoneInv'
  OBVIOUS
<1> SUFFICES ASSUME ~dryRun, NEW n \in Nodes, pc'[n] = "done"
             PROVE  n \in errors' \/ Swept(n)'
  <2>1. dryRun' = dryRun
    BY StaleShrinks DEF Inv
  <2>2. QED
    BY <2>1 DEF DoneInv
<1>1. TypeInv /\ TypeOK
  BY DEF Inv, TypeInv
<1>2. Swept(n) => Swept(n)'
  BY <1>1, StaleShrinks, SweptStays
<1>3. CASE pc[n] = "done" /\ errors \subseteq errors'
  BY <1>2, <1>3 DEF Inv, DoneInv
<1>4. ASSUME NEW a \in Attempts, EndSweep(a) \/ SweepFails(a) PROVE n \in errors' \/ Swept(n)'
  <2>1. Running(a) /\ AfterSweep(a)
    BY <1>4 DEF EndSweep, SweepFails, Removing, Looking
  <2>2. CASE UNCHANGED results
    BY <1>3, <2>2 DEF results
  <2>3. CASE /\ pc' = [pc EXCEPT ![a[1]] = "done"]
             /\ errors' = IF a \in dirty THEN errors \cup {a[1]} ELSE errors
    <3>1. CASE n = a[1]
      <4>1. a \in dirty => n \in errors'
        BY <2>3, <3>1
      <4>2. a \notin dirty => Swept(n)
        BY <1>4, <3>1, SweptAtEnd
      <4>3. QED
        BY <1>2, <4>1, <4>2
    <3>2. CASE n # a[1]
      BY <1>1, <1>3, <2>3, <3>2 DEF TypeOK
    <3>3. QED
      BY <3>1, <3>2
  <2>4. QED
    BY <1>1, <2>1, <2>2, <2>3, AfterSweepOf
<1>5. ASSUME NEW m \in Nodes, AttemptFails(m) PROVE n \in errors' \/ Swept(n)'
  <2>1. /\ pc[m] = "cleaning"
        /\ pc' = [pc EXCEPT ![m] = IF tries[m] + 1 < MaximumAttempts THEN @ ELSE "done"]
        /\ errors' = IF tries[m] + 1 < MaximumAttempts THEN errors ELSE errors \cup {m}
    BY <1>5 DEF AttemptFails
  <2>2. QED
    BY <1>1, <1>3, <2>1 DEF TypeOK
<1>6. ASSUME NEW m \in Nodes, Acquire(m) PROVE n \in errors' \/ Swept(n)'
  BY <1>1, <1>3, <1>6 DEF Acquire, TypeOK
<1>7. ASSUME NEW a \in Attempts,
             \/ ReadUse(a) \/ ReadDir(a)
             \/ \E i \in Items : RemoveAll(a, i) \/ RemoveFails(a, i)
      PROVE  n \in errors' \/ Swept(n)'
  BY <1>3, <1>7 DEF ReadUse, ReadDir, RemoveAll, RemoveFails, results
<1>8. CASE GetAllNomadClientNodes \/ NodesFail \/ Close \/ (\E u \in Names : Start(u) \/ Stop(u)) \/ UNCHANGED vars
  BY <1>3, <1>8 DEF GetAllNomadClientNodes, NodesFail, Close, Start, Stop, vars, results
<1>9. QED
  BY <1>4, <1>5, <1>6, <1>7, <1>8 DEF Next, Workflow, Sweep

--------------------------------------------------------------------------------
\* The theorems.

LEMMA Invariance == Spec => []Inv
<1>1. Init => Inv
  <2> SUFFICES ASSUME Init PROVE Inv
    OBVIOUS
  <2>1. TypeInv
    BY TypeInit
  <2>2. \A a \in Attempts : ~Running(a)
    BY DEF Init, Running
  <2>3. GuardInv /\ SweepInv
    BY <2>2 DEF GuardInv, SweepInv, Protects, Covers
  <2>4. StaleInv
    BY DEF Init, StaleInv
  <2>5. DoneInv
    BY DEF Init, DoneInv
  <2>6. QED
    BY <2>1, <2>3, <2>4, <2>5 DEF Inv
<1>2. Inv /\ [Next]_vars => Inv'
  BY TypeStep, GuardStep, StaleStep, SweepStep, DoneStep DEF Inv
<1>3. QED
  BY <1>1, <1>2, PTL DEF Spec

\* Every node's activity, and every attempt at it, keeps within its sweeps and tries.
THEOREM TypeCorrect == Spec => []TypeOK
<1>1. Inv => TypeOK
  BY DEF Inv, TypeInv
<1>2. QED
  BY <1>1, Invariance, PTL

\* A run that ends well has left no stale directory on a node it was given.
THEOREM SweepsOrReports == Spec => []SweptOrReported
<1>1. Inv => SweptOrReported
  BY DEF Inv, TypeInv, TypeOK, FlowInv, DoneInv, Swept, SweptOrReported
<1>2. QED
  BY <1>1, Invariance, PTL

\* No step removes what had to stay.
THEOREM RemovesOnlyOrphans == Spec => DeletesOnlyOrphans
<1>1. ASSUME Inv, [Next]_vars, NEW i \in present \ present'
      PROVE  ~dryRun /\ \E a \in Attempts : i \in left[a] \ (left'[a] \cup guard[a])
  <2>1. \E a \in Attempts : RemoveAll(a, i)
    <3>1. ASSUME NEW a \in Attempts, NEW j \in Items, RemoveAll(a, j) PROVE i = j
      BY <1>1, <3>1 DEF RemoveAll
    <3>2. i \in Items
      BY <1>1 DEF Inv, TypeInv, TypeOK
    <3>3. \A a \in Attempts : ReadUse(a) \/ ReadDir(a) \/ EndSweep(a) \/ SweepFails(a) => present' = present
      BY DEF ReadUse, ReadDir, EndSweep, SweepFails, AfterSweep, disk
    <3>4. \A a \in Attempts, j \in Items : RemoveFails(a, j) => present' = present
      BY DEF RemoveFails, disk
    <3>5. /\ Workflow \/ NodesFail \/ UNCHANGED vars => present' = present
          /\ \A n \in Nodes : AttemptFails(n) => present' = present
          /\ \A u \in Names : Start(u) \/ Stop(u) => present \subseteq present'
      BY DEF Workflow, GetAllNomadClientNodes, Close, Acquire, NodesFail, AttemptFails, Start, Stop, vars, disk
    <3>6. QED
      BY <1>1, <3>1, <3>2, <3>3, <3>4, <3>5 DEF Next, Sweep
  <2>2. PICK a \in Attempts : RemoveAll(a, i)
    BY <2>1
  <2>3. ~dryRun /\ Removing(a) /\ i \in left[a] /\ left' = [left EXCEPT ![a] = @ \ {i}]
    BY <1>1, <2>2 DEF RemoveAll
  <2>4. i \notin left'[a]
    <3>1. left \in [Attempts -> SUBSET Items]
      BY <1>1 DEF Inv, TypeInv, TypeOK
    <3>2. QED
      BY <2>3, <3>1
  <2>5. i \notin guard[a]
    BY <1>1, <2>3, WhereAttemptIs DEF Inv, TypeInv, GuardInv, Protects
  <2>6. QED
    BY <2>3, <2>4, <2>5
<1>2. Inv /\ [Next]_vars =>
        [\A i \in present \ present' :
           /\ ~dryRun
           /\ \E a \in Attempts : i \in left[a] \ (left'[a] \cup guard[a])]_vars
  BY <1>1
<1>3. QED
  BY <1>2, Invariance, PTL DEF Spec, DeletesOnlyOrphans

================================================================================
