---------------------------- MODULE OutageContract ----------------------------
(***************************************************************************)
(* What a maintenance saga promises about the Nomad job it works on, and   *)
(* nothing about how: while its runs are open the job may be down; once    *)
(* every run is closed and none reported an error the job is up, and it    *)
(* stays up.  A run that leaves the job down must say so.  "void" is the   *)
(* one escape: a scale request that Nomad applies after the client had     *)
(* already given up on it (README, "Assumptions").                         *)
(***************************************************************************)

VARIABLES
  job,      \* "up" or "down": the count the job is scaled to
  outcome   \* what the closed runs have reported together

vars == <<job, outcome>>

Init ==
  /\ job = "up"
  /\ outcome = "open"

\* A scale request of some run takes effect, unless all runs closed cleanly.
Rescale ==
  /\ outcome # "ok"
  /\ job' \in {"up", "down"}
  /\ UNCHANGED outcome

\* The last open run closes.  It may report success only over a job that is up.
Close ==
  /\ outcome = "open"
  /\ \/ outcome' = "ok" /\ job = "up"
     \/ outcome' = "error"
  /\ UNCHANGED job

\* Some request has outlived the attempt that sent it: nothing is promised.
Void ==
  /\ outcome' = "void"
  /\ UNCHANGED job

Next == Rescale \/ Close \/ Void

\* Safety alone: what the proofs show the saga implements.
SafeSpec == Init /\ [][Next]_vars

\* With it, the runs do close.
Spec == SafeSpec /\ <>(outcome # "open")
=============================================================================
