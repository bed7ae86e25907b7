----------------------------- MODULE MCNodeCleanup -----------------------------
(* An instance of NodeCleanup: a node with a directory of the job "web" that   *)
(* carries a task-group index, and an image and a rootfs entry that its        *)
(* container uses; a second node has nothing to sweep.                         *)
EXTENDS NodeCleanup

MCItems == {"web-1", "image", "rootfs"}
MCKind == [i \in MCItems |-> IF i = "web-1" THEN "dir" ELSE i]
MCHome == [i \in MCItems |-> "n1"]
MCUsers == [i \in MCItems |-> {"web"}]
MCStripIndex == [i \in {"web-1"} |-> "web"]

================================================================================
