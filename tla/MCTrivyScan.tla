------------------------------ MODULE MCTrivyScan ------------------------------
(* An instance of TrivyScan: an image whose reports list a vulnerability twice *)
(* or differ between two scans, and one without any.                           *)
EXTENDS TrivyScan

MCImages == {"app", "base"}
Finding(id, severity) == [id |-> id, severity |-> severity]
MCReports == [i \in MCImages |->
  IF i = "base" THEN {<<>>}
  ELSE {<<Finding("CVE-1", "HIGH"), Finding("CVE-2", "UNKNOWN"), Finding("CVE-1", "HIGH")>>,
        <<Finding("CVE-1", "LOW"), Finding("CVE-3", "CRITICAL")>>}]

================================================================================
