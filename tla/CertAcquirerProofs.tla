--------------------------- MODULE CertAcquirerProofs ---------------------------
(***************************************************************************)
(* What CertAcquirer guarantees for every number of attempts, runs and     *)
(* faults.                                                                 *)
(***************************************************************************)
EXTENDS CertAcquirer, FiniteSets, FiniteSetTheorems, TLAPS

\* The requests of an activity are made while the workflow awaits it.
PcOfPhase ==
  /\ phase = "issue" => pc \in {"load", "register", "save", "obtain", "stage"}
  /\ phase = "publish" => pc \in {"read", "publish"}
  /\ phase \in {"ok", "error"} => pc = "load"

\* How many requests of one kind are among those of a set.
Count(request, requests) == Cardinality({l \in requests : l[1] = request})

TypeInv == TypeOK /\ PcOfPhase /\ IsFiniteSet(late)

\* Every account that is made, or may yet be, is that of an attempt that failed,
\* but for the one of an attempt that knows it saved; as long as none does, the
\* account is not in Vault and every attempt has to make one.
AccountsCounted ==
  /\ pc = "save" => hand # None
  /\ \A l \in late : l[1] = "save" => l[2] # None
  /\ registered + Count("register", late) <= lostAccounts + 1
  /\ pc = "register" \/ (account = None /\ pc # "save") =>
       registered + Count("register", late) <= lostAccounts

\* Likewise for certificates: the one of this run is not taken before an attempt
\* has obtained it.
CertsCounted ==
  /\ issued + Count("obtain", late) <= runs + lostCerts
  /\ phase = "issue" /\ pc # "stage" =>
       issued + Count("obtain", late) < runs + lostCerts

\* The certificates of this run.
Fresh == (before.issued + 1)..issued

\* Whatever this run stages or publishes, now or late, is its own; and what is
\* staged when it publishes.
FreshInHand ==
  /\ before.issued <= issued
  /\ pc \in {"stage", "publish"} => hand \in Fresh
  /\ \A l \in late : l[1] \in {"stage", "publish"} => l[2] \in Fresh
  /\ phase = "publish" => staging \in Fresh

--------------------------------------------------------------------------------
\* Counting.

LEMMA CountNat ==
  ASSUME NEW S, IsFiniteSet(S), NEW request
  PROVE  Count(request, S) \in Nat
<1>1. IsFiniteSet({l \in S : l[1] = request})
  BY FS_Subset
<1>2. QED
  BY <1>1, FS_CardinalityType DEF Count

LEMMA CountAdd ==
  ASSUME NEW S, IsFiniteSet(S), NEW request, NEW new
  PROVE  /\ Count(request, S \cup {new}) <= Count(request, S) + 1
         /\ new[1] # request => Count(request, S \cup {new}) = Count(request, S)
<1> DEFINE old == {l \in S : l[1] = request}
           all == {l \in S \cup {new} : l[1] = request}
<1>1. IsFiniteSet(old)
  BY FS_Subset
<1>2. CASE new[1] = request
  <2>1. all = old \cup {new}
    BY <1>2
  <2>2. /\ Cardinality(old) \in Nat
        /\ Cardinality(all) \in {Cardinality(old), Cardinality(old) + 1}
    BY <1>1, <2>1, FS_AddElement, FS_CardinalityType
  <2>3. Cardinality(all) <= Cardinality(old) + 1
    BY <2>2
  <2>4. QED
    BY <1>2, <2>3 DEF Count
<1>3. CASE new[1] # request
  <2>1. all = old
    BY <1>3
  <2>2. Cardinality(old) \in Nat
    BY <1>1, FS_CardinalityType
  <2>3. Cardinality(all) = Cardinality(old) /\ Cardinality(all) <= Cardinality(old) + 1
    BY <2>1, <2>2
  <2>4. QED
    BY <2>3 DEF Count
<1>4. QED
  BY <1>2, <1>3

LEMMA CountRemove ==
  ASSUME NEW S, IsFiniteSet(S), NEW request, NEW done \in S
  PROVE  /\ done[1] = request => Count(request, S \ {done}) = Count(request, S) - 1
         /\ done[1] # request => Count(request, S \ {done}) = Count(request, S)
<1> DEFINE old == {l \in S : l[1] = request}
           rest == {l \in S \ {done} : l[1] = request}
<1>1. IsFiniteSet(old)
  BY FS_Subset
<1>2. CASE done[1] = request
  <2>1. done \in old /\ rest = old \ {done}
    BY <1>2
  <2>2. Cardinality(rest) = Cardinality(old) - 1
    BY <1>1, <2>1, FS_RemoveElement
  <2>3. QED
    BY <1>2, <2>2 DEF Count
<1>3. CASE done[1] # request
  <2>1. rest = old
    BY <1>3
  <2>2. QED
    BY <1>3, <2>1 DEF Count
<1>4. QED
  BY <1>2, <1>3

--------------------------------------------------------------------------------
\* Types.

LEMMA TypeInit == Init => TypeInv
<1> SUFFICES ASSUME Init PROVE TypeInv
  OBVIOUS
<1>1. TypeOK
  BY ConstantsAssumption DEF Init, TypeOK, Maximum, None, Requests
<1>2. PcOfPhase
  BY DEF Init, PcOfPhase
<1>3. IsFiniteSet(late)
  BY FS_EmptySet DEF Init
<1>4. QED
  BY <1>1, <1>2, <1>3 DEF TypeInv

\* Where the next attempt, the next activity or the end of the run begins.
LEMMA BeginsTyped ==
  ASSUME TypeInv, ~Closed,
         (Retriable /\ Retry) \/ GiveUp \/ Enter("publish") \/ Close("ok")
  PROVE  /\ phase' \in {"issue", "publish", "ok", "error"}
         /\ tries' \in 0..(Maximum' - 1)
         /\ pc' \in {"load", "read"}
         /\ hand' = None
         /\ PcOfPhase'
<1> USE ConstantsAssumption DEF TypeInv, TypeOK, PcOfPhase, Maximum, First, None
<1>1. CASE Retriable /\ Retry
  BY <1>1 DEF Retriable, Retry, Closed
<1>2. CASE GiveUp \/ Close("ok")
  BY <1>2 DEF GiveUp, Close
<1>3. CASE Enter("publish")
  BY <1>3 DEF Enter
<1>4. QED
  BY <1>1, <1>2, <1>3

LEMMA EffectTyped ==
  ASSUME TypeInv, NEW request \in Requests, NEW value \in Nat, Effect(request, value)
  PROVE  {account', staging', published', registered', issued'} \subseteq Nat
BY DEF TypeInv, TypeOK, Effect, None

LEMMA TypeStep == TypeInv /\ [Next]_vars => TypeInv'
<1> SUFFICES ASSUME TypeInv, [Next]_vars PROVE TypeInv'
  OBVIOUS
<1> USE ConstantsAssumption
<1>1. CASE StartRun
  <2>1. TypeOK' /\ PcOfPhase'
    BY <1>1 DEF TypeInv, TypeOK, PcOfPhase, StartRun, Enter, First, Maximum, None, vault, authority,
                lost, Closed
  <2>2. QED
    BY <1>1, <2>1 DEF TypeInv, StartRun
<1>2. CASE LoadAccount
  <2>1. TypeOK' /\ PcOfPhase'
    BY <1>2 DEF TypeInv, TypeOK, PcOfPhase, LoadAccount, Goes, Requests, Maximum, None, vault, authority, lost
  <2>2. QED
    BY <1>2, <2>1 DEF TypeInv, LoadAccount
<1>3. CASE ReadStaged
  <2>1. TypeOK' /\ PcOfPhase'
    BY <1>3 DEF TypeInv, TypeOK, PcOfPhase, ReadStaged, Goes, Close, Requests, Maximum, None, vault,
                authority, lost
  <2>2. QED
    BY <1>3, <2>1 DEF TypeInv, ReadStaged
<1>4. CASE Request
  <2>1. {account', staging', published', registered', issued'} \subseteq Nat
    BY <1>4, EffectTyped DEF Request, TypeInv, TypeOK
  <2>2. /\ phase' \in {"issue", "publish", "ok", "error"}
        /\ tries' \in 0..(Maximum' - 1)
        /\ pc' \in Requests \cup {"load", "read"}
        /\ hand' \in Nat
        /\ PcOfPhase'
    <3>1. CASE pc \in {"register", "save", "obtain"}
      BY <1>4, <2>1, <3>1 DEF Request, Answered, Goes, TypeInv, TypeOK, PcOfPhase, Requests, Maximum,
                              Closed
    <3>2. CASE pc = "stage"
      BY <1>4, <3>2, BeginsTyped DEF Request, Answered, None
    <3>3. CASE pc = "publish"
      BY <1>4, <3>3, BeginsTyped DEF Request, Answered, None
    <3>4. QED
      BY <1>4, <3>1, <3>2, <3>3 DEF Request, Requests
  <2>3. TypeOK'
    BY <1>4, <2>1, <2>2 DEF TypeInv, TypeOK, Request, lost
  <2>4. QED
    BY <1>4, <2>2, <2>3 DEF TypeInv, Request
<1>5. CASE AttemptFails
  <2>1. /\ {account', staging', published', registered', issued'} \subseteq Nat
        /\ late' \subseteq Requests \X Nat \X Nat
        /\ IsFiniteSet(late')
    <3>1. {account, staging, published, registered, issued, hand, tries} \subseteq Nat
      BY DEF TypeInv, TypeOK, Maximum
    <3>2. CASE UNCHANGED <<vault, authority, late>>
      BY <3>1, <3>2 DEF TypeInv, TypeOK, vault, authority
    <3>3. CASE pc \in Requests /\ Effect(pc, hand) /\ UNCHANGED late
      BY <3>1, <3>3, EffectTyped DEF TypeInv, TypeOK
    <3>4. CASE /\ pc \in Requests /\ late' = late \cup {<<pc, hand, tries>>}
               /\ UNCHANGED <<vault, authority>>
      <4>1. <<pc, hand, tries>> \in Requests \X Nat \X Nat
        BY <3>1, <3>4
      <4>2. late' \subseteq Requests \X Nat \X Nat
        BY <3>4, <4>1 DEF TypeInv, TypeOK
      <4>3. IsFiniteSet(late')
        BY <3>4, FS_AddElement DEF TypeInv
      <4>4. QED
        BY <3>1, <3>4, <4>2, <4>3 DEF vault, authority
    <3>5. QED
      BY <1>5, <3>2, <3>3, <3>4 DEF AttemptFails
  <2>2. /\ phase' \in {"issue", "publish", "ok", "error"}
        /\ tries' \in 0..(Maximum' - 1)
        /\ pc' \in {"load", "read"} /\ hand' = None
        /\ PcOfPhase'
    BY <1>5, BeginsTyped DEF AttemptFails
  <2>3. {lostAccounts', lostCerts'} \subseteq Nat /\ faults' \in 0..MaxFaults
    BY <1>5 DEF TypeInv, TypeOK, AttemptFails, Fault
  <2>4. TypeOK'
    BY <1>5, <2>1, <2>2, <2>3 DEF TypeInv, TypeOK, AttemptFails, None
  <2>5. QED
    BY <2>1, <2>2, <2>4 DEF TypeInv
<1>6. CASE RateLimited
  <2>1. TypeOK' /\ PcOfPhase'
    BY <1>6 DEF TypeInv, TypeOK, PcOfPhase, RateLimited, GiveUp, Close, Fault, Maximum, None, vault,
                authority, lost
  <2>2. QED
    BY <1>6, <2>1 DEF TypeInv, RateLimited
<1>7. ASSUME NEW r \in late, Late(r) PROVE TypeInv'
  <2>1. r[1] \in Requests /\ r[2] \in Nat
    BY DEF TypeInv, TypeOK
  <2>2. {account', staging', published', registered', issued'} \subseteq Nat
    <3>1. CASE Effect(r[1], r[2])
      BY <2>1, <3>1, EffectTyped
    <3>2. CASE UNCHANGED <<vault, authority>>
      BY <3>2 DEF TypeInv, TypeOK, vault, authority
    <3>3. QED
      BY <1>7, <3>1, <3>2 DEF Late
  <2>3. TypeOK' /\ PcOfPhase'
    BY <1>7, <2>2 DEF TypeInv, TypeOK, PcOfPhase, Late, Maximum, attempt, lost
  <2>4. IsFiniteSet(late')
    BY <1>7, FS_RemoveElement DEF TypeInv, Late
  <2>5. QED
    BY <2>3, <2>4 DEF TypeInv
<1>8. CASE UNCHANGED vars
  BY <1>8 DEF TypeInv, TypeOK, PcOfPhase, Maximum, vars, attempt, vault, authority, lost
<1>9. QED
  BY <1>1, <1>2, <1>3, <1>4, <1>5, <1>6, <1>7, <1>8 DEF Next, Run

\* The state keeps its types for every number of attempts, runs and faults; an
\* attempt never makes a request of another activity than the one awaited.
THEOREM TypeCorrect == Spec => []TypeOK
<1>1. TypeInv => TypeOK
  BY DEF TypeInv
<1>2. QED
  BY <1>1, TypeInit, TypeStep, PTL DEF Spec

--------------------------------------------------------------------------------
\* Accounts.

\* What an attempt that fails adds to the requests still to be carried out.
LEMMA LateGrows ==
  ASSUME TypeInv, AttemptFails, NEW request
  PROVE  /\ {Count(request, late), Count(request, late)'} \subseteq Nat
         /\ Count(request, late)' <= Count(request, late) + 1
         /\ pc # request => Count(request, late)' = Count(request, late)
         /\ late' # late => UNCHANGED <<vault, authority>>
<1>1. Count(request, late) \in Nat
  BY CountNat DEF TypeInv
<1>2. CASE late' = late
  <2>1. Count(request, late)' = Count(request, late)
    BY <1>2 DEF Count
  <2>2. QED
    BY <1>1, <1>2, <2>1
<1>3. CASE late' = late \cup {<<pc, hand, tries>>} /\ UNCHANGED <<vault, authority>>
  <2>1. IsFiniteSet(late')
    BY <1>3, FS_AddElement DEF TypeInv
  <2>2. Count(request, late') \in Nat
    BY <2>1, CountNat
  <2>3. /\ Count(request, late') <= Count(request, late) + 1
        /\ pc # request => Count(request, late') = Count(request, late)
    BY <1>3, CountAdd DEF TypeInv
  <2>4. Count(request, late)' = Count(request, late')
    BY DEF Count
  <2>5. QED
    BY <1>1, <1>3, <2>2, <2>3, <2>4
<1>4. QED
  BY <1>2, <1>3 DEF AttemptFails

\* A late request leaves them, carried out or not.
LEMMA LateShrinks ==
  ASSUME TypeInv, NEW r \in late, Late(r), NEW request
  PROVE  /\ {Count(request, late), Count(request, late)'} \subseteq Nat
         /\ r[1] = request => Count(request, late)' = Count(request, late) - 1
         /\ r[1] # request => Count(request, late)' = Count(request, late)
<1>1. late' = late \ {r} /\ IsFiniteSet(late')
  BY FS_RemoveElement DEF TypeInv, Late
<1>2. Count(request, late) \in Nat /\ Count(request, late') \in Nat
  BY <1>1, CountNat DEF TypeInv
<1>3. /\ r[1] = request => Count(request, late') = Count(request, late) - 1
      /\ r[1] # request => Count(request, late') = Count(request, late)
  BY <1>1, CountRemove DEF TypeInv
<1>4. Count(request, late)' = Count(request, late')
  BY DEF Count
<1>5. QED
  BY <1>2, <1>3, <1>4

LEMMA CountEmpty == ASSUME NEW request PROVE Count(request, {}) = 0
<1>1. {l \in {} : l[1] = request} = {}
  OBVIOUS
<1>2. QED
  BY <1>1, FS_EmptySet DEF Count

LEMMA AccountsInit == Init => AccountsCounted
<1> SUFFICES ASSUME Init PROVE AccountsCounted
  OBVIOUS
<1>1. Count("register", late) = 0
  BY CountEmpty DEF Init
<1>2. QED
  BY <1>1 DEF Init, AccountsCounted

LEMMA AccountsStep == TypeInv /\ AccountsCounted /\ [Next]_vars => AccountsCounted'
<1> SUFFICES ASSUME TypeInv, AccountsCounted, [Next]_vars PROVE AccountsCounted'
  OBVIOUS
<1> DEFINE due == Count("register", late)
<1>1. /\ due \in Nat /\ registered \in Nat /\ lostAccounts \in Nat
      /\ account \in Nat /\ hand \in Nat
  BY CountNat DEF TypeInv, TypeOK
<1>2. ASSUME UNCHANGED late PROVE due' = due
  BY <1>2 DEF Count
<1>3. CASE StartRun
  <2>1. pc = "load"
    BY <1>3 DEF StartRun, Closed, TypeInv, PcOfPhase
  <2>2. QED
    BY <1>1, <1>2, <1>3, <2>1 DEF AccountsCounted, StartRun, Enter, First, vault, authority, lost
<1>4. CASE LoadAccount
  BY <1>1, <1>2, <1>4 DEF AccountsCounted, LoadAccount, Goes, vault, authority, lost
<1>5. CASE ReadStaged
  BY <1>1, <1>2, <1>5 DEF AccountsCounted, ReadStaged, Goes, Close, vault, authority, lost
<1>6. CASE Request
  <2>1. due' = due /\ late' = late /\ lostAccounts' = lostAccounts
    BY <1>2, <1>6 DEF Request, lost
  <2>2. CASE pc = "register"
    BY <1>1, <1>6, <2>1, <2>2 DEF AccountsCounted, Request, Effect, Answered, Goes, None
  <2>3. CASE pc = "save"
    BY <1>1, <1>6, <2>1, <2>3 DEF AccountsCounted, Request, Effect, Answered, Goes, None
  <2>4. CASE pc \in {"obtain", "stage", "publish"}
    <3>1. registered' = registered /\ account' = account
      BY <1>6, <2>4 DEF Request, Effect
    <3>2. pc' \in {"stage", "read", "load"}
      BY <1>6, <2>4 DEF Request, Answered, Goes, Enter, Close, First
    <3>3. QED
      BY <1>1, <2>1, <2>4, <3>1, <3>2 DEF AccountsCounted
  <2>5. QED
    BY <1>6, <2>2, <2>3, <2>4 DEF Request, Requests
<1>7. CASE AttemptFails
  <2>1. /\ due' \in Nat /\ due' <= due + 1
        /\ pc # "register" => due' = due
        /\ late' # late => UNCHANGED <<vault, authority>>
    BY <1>7, LateGrows
  <2>2. pc' \in {"load", "read"}
    BY <1>7, BeginsTyped DEF AttemptFails
  <2>3. \A l \in late' : l[1] = "save" => l[2] # None
    BY <1>7 DEF AccountsCounted, AttemptFails
  <2>4. CASE pc = "register"
    <3>1. registered' + due' <= registered + due + 1
      <4>1. CASE late' = late
        BY <1>1, <1>2, <1>7, <2>4, <4>1 DEF AttemptFails, Effect, authority
      <4>2. CASE late' # late
        BY <1>1, <2>1, <4>2 DEF authority
      <4>3. QED
        BY <4>1, <4>2
    <3>2. lostAccounts' = lostAccounts + 1
      BY <1>7, <2>4 DEF AttemptFails
    <3>3. registered' \in Nat
      BY <1>1, <1>7, <2>4 DEF AttemptFails, Effect, authority
    <3>4. QED
      BY <1>1, <2>1, <2>2, <2>3, <2>4, <3>1, <3>2, <3>3 DEF AccountsCounted
  <2>5. CASE pc = "save"
    <3>1. registered' = registered /\ lostAccounts' = lostAccounts + 1
      BY <1>7, <2>5 DEF AttemptFails, Effect, authority
    <3>2. QED
      BY <1>1, <2>1, <2>2, <2>3, <2>5, <3>1 DEF AccountsCounted
  <2>6. CASE pc \notin {"register", "save"}
    <3>1. registered' = registered /\ account' = account /\ lostAccounts' = lostAccounts
      BY <1>7, <2>6 DEF AttemptFails, Effect, vault, authority
    <3>2. QED
      BY <1>1, <2>1, <2>2, <2>3, <2>6, <3>1 DEF AccountsCounted
  <2>7. QED
    BY <2>4, <2>5, <2>6
<1>8. CASE RateLimited
  BY <1>1, <1>2, <1>8 DEF AccountsCounted, RateLimited, GiveUp, Close, vault, authority, lost
<1>9. ASSUME NEW r \in late, Late(r) PROVE AccountsCounted'
  <2>1. /\ due' \in Nat
        /\ r[1] = "register" => due' = due - 1
        /\ r[1] # "register" => due' = due
    BY <1>9, LateShrinks
  <2>2. /\ late' \subseteq late /\ pc' = pc /\ hand' = hand /\ lostAccounts' = lostAccounts
    BY <1>9 DEF Late, attempt, lost
  <2>3. registered' + due' <= registered + due
    BY <1>1, <1>9, <2>1 DEF Late, Effect, authority
  <2>4. account' = None => account = None
    BY <1>9 DEF AccountsCounted, Late, Effect, vault
  <2>5. registered' \in Nat
    BY <1>1, <1>9 DEF Late, Effect, authority
  <2>6. QED
    BY <1>1, <2>1, <2>2, <2>3, <2>4, <2>5 DEF AccountsCounted
<1>10. CASE UNCHANGED vars
  BY <1>1, <1>2, <1>10 DEF AccountsCounted, vars, attempt, vault, authority, lost
<1>11. QED
  BY <1>3, <1>4, <1>5, <1>6, <1>7, <1>8, <1>9, <1>10 DEF Next, Run

\* However many attempts fail, wherever they fail and however late their
\* requests are carried out, each failure costs at most one account, and nothing
\* else does.
THEOREM OneAccountServes == Spec => []OneAccount
<1>1. TypeInv /\ AccountsCounted => OneAccount
  <2> SUFFICES ASSUME TypeInv, AccountsCounted PROVE OneAccount
    OBVIOUS
  <2>1. Count("register", late) \in Nat
    BY CountNat DEF TypeInv
  <2>2. QED
    BY <2>1 DEF AccountsCounted, OneAccount, TypeInv, TypeOK
<1>2. QED
  BY <1>1, TypeInit, TypeStep, AccountsInit, AccountsStep, PTL DEF Spec

--------------------------------------------------------------------------------
\* Certificates.

LEMMA CertsInit == Init => CertsCounted
<1> SUFFICES ASSUME Init PROVE CertsCounted
  OBVIOUS
<1>1. Count("obtain", late) = 0
  BY CountEmpty DEF Init
<1>2. QED
  BY <1>1 DEF Init, CertsCounted

LEMMA CertsStep == TypeInv /\ CertsCounted /\ [Next]_vars => CertsCounted'
<1> SUFFICES ASSUME TypeInv, CertsCounted, [Next]_vars PROVE CertsCounted'
  OBVIOUS
<1> DEFINE due == Count("obtain", late)
<1>1. due \in Nat /\ issued \in Nat /\ lostCerts \in Nat /\ runs \in Nat
  BY CountNat, ConstantsAssumption DEF TypeInv, TypeOK
<1>2. ASSUME UNCHANGED late PROVE due' = due
  BY <1>2 DEF Count
<1>3. CASE StartRun
  BY <1>1, <1>2, <1>3 DEF CertsCounted, StartRun, authority, lost
<1>4. CASE LoadAccount
  BY <1>1, <1>2, <1>4 DEF CertsCounted, LoadAccount, Goes, authority, lost
<1>5. CASE ReadStaged
  BY <1>1, <1>2, <1>5 DEF CertsCounted, ReadStaged, Goes, Close, authority, lost
<1>6. CASE Request
  <2>1. due' = due /\ runs' = runs /\ lostCerts' = lostCerts
    BY <1>2, <1>6 DEF Request, lost
  <2>2. CASE pc = "obtain"
    <3>1. phase = "issue"
      BY <1>6, <2>2 DEF Request, TypeInv, TypeOK, PcOfPhase, Closed
    <3>2. issued' = issued + 1 /\ pc' = "stage"
      BY <1>6, <2>2 DEF Request, Effect, Answered, Goes
    <3>3. QED
      BY <1>1, <2>1, <2>2, <3>1, <3>2 DEF CertsCounted
  <2>3. CASE pc \in {"register", "save"}
    BY <1>1, <1>6, <2>1, <2>3 DEF CertsCounted, Request, Effect, Answered, Goes
  <2>4. CASE pc \in {"stage", "publish"}
    <3>1. issued' = issued /\ phase' # "issue"
      BY <1>6, <2>4 DEF Request, Effect, Answered, Enter, Close
    <3>2. QED
      BY <1>1, <2>1, <3>1 DEF CertsCounted
  <2>5. QED
    BY <1>6, <2>2, <2>3, <2>4 DEF Request, Requests
<1>7. CASE AttemptFails
  <2>1. /\ due' \in Nat /\ due' <= due + 1
        /\ pc # "obtain" => due' = due
        /\ late' # late => UNCHANGED <<vault, authority>>
    BY <1>7, LateGrows
  <2>2. phase' = phase \/ phase' = "error"
    BY <1>7 DEF AttemptFails, Retry, GiveUp, Close
  <2>3. runs' = runs
    BY <1>7 DEF AttemptFails
  <2>4. CASE pc = "obtain"
    <3>1. phase = "issue" /\ lostCerts' = lostCerts + 1
      BY <1>7, <2>4 DEF AttemptFails, TypeInv, TypeOK, PcOfPhase, Closed
    <3>2. issued' \in Nat /\ issued' + due' <= issued + due + 1
      <4>1. CASE late' = late
        BY <1>1, <1>2, <1>7, <2>4, <4>1 DEF AttemptFails, Effect, authority
      <4>2. CASE late' # late
        BY <1>1, <2>1, <4>2 DEF authority
      <4>3. QED
        BY <4>1, <4>2
    <3>3. QED
      BY <1>1, <2>1, <2>3, <2>4, <3>1, <3>2 DEF CertsCounted
  <2>5. CASE pc = "stage"
    <3>1. issued' = issued /\ lostCerts' = lostCerts + 1
      BY <1>7, <2>5 DEF AttemptFails, Effect, authority
    <3>2. QED
      BY <1>1, <2>1, <2>3, <2>5, <3>1 DEF CertsCounted
  <2>6. CASE pc \notin {"obtain", "stage"}
    <3>1. issued' = issued /\ lostCerts' = lostCerts
      BY <1>7, <2>6 DEF AttemptFails, Effect, authority
    <3>2. QED
      BY <1>1, <2>1, <2>2, <2>3, <2>6, <3>1 DEF CertsCounted
  <2>7. QED
    BY <2>4, <2>5, <2>6
<1>8. CASE RateLimited
  BY <1>1, <1>2, <1>8 DEF CertsCounted, RateLimited, GiveUp, Close, authority, lost
<1>9. ASSUME NEW r \in late, Late(r) PROVE CertsCounted'
  <2>1. /\ due' \in Nat
        /\ r[1] = "obtain" => due' = due - 1
        /\ r[1] # "obtain" => due' = due
    BY <1>9, LateShrinks
  <2>2. /\ phase' = phase /\ pc' = pc /\ runs' = runs /\ lostCerts' = lostCerts
    BY <1>9 DEF Late, attempt, lost
  <2>3. issued' \in Nat /\ issued' + due' <= issued + due
    BY <1>1, <1>9, <2>1 DEF Late, Effect, authority
  <2>4. QED
    BY <1>1, <2>1, <2>2, <2>3 DEF CertsCounted
<1>10. CASE UNCHANGED vars
  BY <1>1, <1>2, <1>10 DEF CertsCounted, vars, attempt, authority, lost
<1>11. QED
  BY <1>3, <1>4, <1>5, <1>6, <1>7, <1>8, <1>9, <1>10 DEF Next, Run

\* However often a run fails to publish, and whenever its requests are carried
\* out, it takes one certificate and at most one more for each attempt that
\* failed before its certificate was known to be staged.
THEOREM PublishingCostsNoIssuance == Spec => []NoIssuanceForPublish
<1>1. TypeInv /\ CertsCounted => NoIssuanceForPublish
  <2> SUFFICES ASSUME TypeInv, CertsCounted PROVE NoIssuanceForPublish
    OBVIOUS
  <2>1. Count("obtain", late) \in Nat
    BY CountNat DEF TypeInv
  <2>2. QED
    BY <2>1, ConstantsAssumption DEF CertsCounted, NoIssuanceForPublish, TypeInv, TypeOK
<1>2. QED
  BY <1>1, TypeInit, TypeStep, CertsInit, CertsStep, PTL DEF Spec

--------------------------------------------------------------------------------
\* What Traefik reads.

FreshInv == FreshInHand /\ PublishedFresh

LEMMA FreshInit == Init => FreshInv
BY DEF Init, FreshInv, FreshInHand, PublishedFresh

\* A request whose value is of this run leaves what is staged and published so.
LEMMA EffectFresh ==
  ASSUME TypeInv, FreshInv, UNCHANGED before,
         NEW request \in Requests, NEW value \in Nat, Effect(request, value),
         request \in {"stage", "publish"} => value \in Fresh
  PROVE  /\ before'.issued <= issued'
         /\ Fresh \subseteq Fresh'
         /\ staging \in Fresh => staging' \in Fresh'
         /\ request = "stage" => staging' \in Fresh'
         /\ published' = before'.published \/ published' \in Fresh'
         /\ published > before.issued => published' > before'.issued
         /\ request = "publish" => published' > before'.issued
<1>1. issued \in Nat /\ before.issued \in Nat /\ before' = before
  BY DEF TypeInv, TypeOK
<1>2. issued' \in Nat /\ issued <= issued'
  BY <1>1 DEF Effect
<1>3. Fresh \subseteq Fresh' /\ \A f \in Fresh' : f > before'.issued
  BY <1>1, <1>2 DEF Fresh
<1>4. before'.issued <= issued'
  BY <1>1, <1>2 DEF FreshInv, FreshInHand
<1>5. /\ staging \in Fresh => staging' \in Fresh'
      /\ request = "stage" => staging' \in Fresh'
  BY <1>3 DEF Effect
<1>6. CASE request = "publish"
  <2>1. published' \in Fresh'
    BY <1>3, <1>6 DEF Effect
  <2>2. QED
    BY <1>3, <1>4, <1>5, <2>1
<1>7. CASE request # "publish"
  <2>1. published' = published
    BY <1>7 DEF Effect
  <2>2. published = before.published \/ published \in Fresh
    BY DEF FreshInv, PublishedFresh, Fresh
  <2>3. QED
    BY <1>1, <1>3, <1>4, <1>5, <1>7, <2>1, <2>2
<1>8. QED
  BY <1>6, <1>7

\* A step that leaves the authority, Vault and the run alone.
LEMMA QuietFresh ==
  ASSUME FreshInv, UNCHANGED <<vault, authority, before, runs>>,
         pc' \in {"stage", "publish"} => hand' \in Fresh,
         \A l \in late' : l[1] \in {"stage", "publish"} => l[2] \in Fresh,
         phase' = "publish" => phase = "publish",
         phase' = "ok" => phase = "ok"
  PROVE  FreshInv'
<1>1. Fresh' = Fresh
  BY DEF Fresh, authority
<1>2. FreshInHand'
  BY <1>1 DEF FreshInv, FreshInHand, vault, authority
<1>3. PublishedFresh'
  BY DEF FreshInv, PublishedFresh, vault, authority
<1>4. QED
  BY <1>2, <1>3 DEF FreshInv

LEMMA FreshStep == TypeInv /\ FreshInv /\ [Next]_vars => FreshInv'
<1> SUFFICES ASSUME TypeInv, FreshInv, [Next]_vars PROVE FreshInv'
  OBVIOUS
<1>1. /\ issued \in Nat /\ before.issued \in Nat /\ hand \in Nat
      /\ \A l \in late : l[1] \in Requests /\ l[2] \in Nat
  BY DEF TypeInv, TypeOK
<1>2. /\ pc \in {"stage", "publish"} => hand \in Fresh
      /\ \A l \in late : l[1] \in {"stage", "publish"} => l[2] \in Fresh
      /\ phase = "publish" => staging \in Fresh
  BY DEF FreshInv, FreshInHand
<1>3. CASE StartRun
  <2>1. /\ before'.issued = issued' /\ before'.published = published' /\ issued' \in Nat
        /\ late' = {} /\ phase' = "issue" /\ pc' = "load"
    BY <1>1, <1>3 DEF StartRun, Enter, First, vault, authority
  <2>2. FreshInHand'
    BY <2>1 DEF FreshInHand
  <2>3. PublishedFresh'
    BY <2>1 DEF PublishedFresh
  <2>4. QED
    BY <2>2, <2>3 DEF FreshInv
<1>4. CASE LoadAccount
  BY <1>2, <1>4, QuietFresh DEF LoadAccount, Goes
<1>5. CASE ReadStaged
  BY <1>2, <1>5, QuietFresh DEF ReadStaged, Goes, Close
<1>6. CASE Request
  <2>1. /\ before'.issued <= issued'
        /\ Fresh \subseteq Fresh'
        /\ staging \in Fresh => staging' \in Fresh'
        /\ pc = "stage" => staging' \in Fresh'
        /\ published' = before'.published \/ published' \in Fresh'
        /\ pc = "publish" => published' > before'.issued
    BY <1>1, <1>2, <1>6, EffectFresh DEF Request
  <2>2. late' = late
    BY <1>6 DEF Request
  <2>3. /\ pc' \in {"stage", "publish"} => hand' \in Fresh'
        /\ phase' = "publish" => staging' \in Fresh'
        /\ phase' = "ok" => pc = "publish"
    <3>1. CASE pc \in {"register", "save"}
      BY <1>2, <1>6, <2>1, <3>1 DEF Request, Answered, Goes, Closed
    <3>2. CASE pc = "obtain"
      <4>1. hand' = issued' /\ issued' = issued + 1 /\ before' = before /\ phase' = phase
        BY <1>6, <3>2 DEF Request, Answered, Effect, Goes
      <4>2. issued' \in Fresh'
        BY <1>1, <2>1, <4>1 DEF Fresh, FreshInv, FreshInHand
      <4>3. QED
        BY <1>2, <1>6, <2>1, <4>1, <4>2 DEF Request, Closed
    <3>3. CASE pc = "stage"
      BY <1>6, <2>1, <3>3 DEF Request, Answered, Enter, First
    <3>4. CASE pc = "publish"
      BY <1>6, <3>4 DEF Request, Answered, Close
    <3>5. QED
      BY <1>6, <3>1, <3>2, <3>3, <3>4 DEF Request, Requests
  <2>4. FreshInHand'
    BY <1>2, <2>1, <2>2, <2>3 DEF FreshInHand
  <2>5. PublishedFresh'
    BY <2>1, <2>3 DEF PublishedFresh, Fresh
  <2>6. QED
    BY <2>4, <2>5 DEF FreshInv
<1>7. CASE AttemptFails
  <2>1. /\ pc' \in {"load", "read"} /\ before' = before /\ runs' = runs
        /\ phase' = phase \/ phase' = "error"
    BY <1>7, BeginsTyped DEF AttemptFails, Retry, GiveUp, Close
  <2>2. CASE UNCHANGED <<vault, authority, late>>
    BY <1>2, <2>1, <2>2, QuietFresh
  <2>3. CASE pc \in Requests /\ Effect(pc, hand) /\ UNCHANGED late
    <3>1. /\ before'.issued <= issued'
          /\ Fresh \subseteq Fresh'
          /\ staging \in Fresh => staging' \in Fresh'
          /\ published' = before'.published \/ published' \in Fresh'
      BY <1>1, <1>2, <2>1, <2>3, EffectFresh
    <3>2. FreshInHand'
      BY <1>2, <2>1, <2>3, <3>1 DEF FreshInHand
    <3>3. phase' # "ok"
      BY <1>7, <2>1 DEF AttemptFails, Closed
    <3>4. PublishedFresh'
      BY <3>1, <3>3 DEF PublishedFresh, Fresh
    <3>5. QED
      BY <3>2, <3>4 DEF FreshInv
  <2>4. CASE /\ pc \in Requests /\ late' = late \cup {<<pc, hand, tries>>}
             /\ UNCHANGED <<vault, authority>>
    <3>1. \A l \in late' : l[1] \in {"stage", "publish"} => l[2] \in Fresh
      BY <1>2, <2>4
    <3>2. QED
      BY <2>1, <2>4, <3>1, QuietFresh
  <2>5. QED
    BY <1>7, <2>2, <2>3, <2>4 DEF AttemptFails
<1>8. CASE RateLimited
  BY <1>2, <1>8, QuietFresh DEF RateLimited, GiveUp, Close
<1>9. ASSUME NEW r \in late, Late(r) PROVE FreshInv'
  <2>1. /\ pc' = pc /\ hand' = hand /\ phase' = phase /\ runs' = runs /\ before' = before
        /\ late' \subseteq late
    BY <1>9 DEF Late, attempt
  <2>2. CASE Effect(r[1], r[2])
    <3>1. /\ before'.issued <= issued'
          /\ Fresh \subseteq Fresh'
          /\ staging \in Fresh => staging' \in Fresh'
          /\ published' = before'.published \/ published' \in Fresh'
          /\ published > before.issued => published' > before'.issued
      BY <1>1, <1>2, <2>1, <2>2, EffectFresh
    <3>2. FreshInHand'
      BY <1>2, <2>1, <3>1 DEF FreshInHand
    <3>3. PublishedFresh'
      BY <2>1, <3>1 DEF FreshInv, PublishedFresh, Fresh
    <3>4. QED
      BY <3>2, <3>3 DEF FreshInv
  <2>3. CASE UNCHANGED <<vault, authority>>
    BY <1>2, <2>1, <2>3, QuietFresh
  <2>4. QED
    BY <1>9, <2>2, <2>3 DEF Late
<1>10. CASE UNCHANGED vars
  BY <1>2, <1>10, QuietFresh DEF vars, attempt
<1>11. QED
  BY <1>3, <1>4, <1>5, <1>6, <1>7, <1>8, <1>9, <1>10 DEF Next, Run

\* Whatever is lost, late or repeated, the certificate that Traefik reads changes
\* only to one of the run in progress, and a run that ends well has changed it.
THEOREM TraefikReadsFresh == Spec => []PublishedFresh
<1>1. FreshInv => PublishedFresh
  BY DEF FreshInv
<1>2. QED
  BY <1>1, TypeInit, TypeStep, FreshInit, FreshStep, PTL DEF Spec

================================================================================
