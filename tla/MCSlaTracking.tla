---------------------------- MODULE MCSlaTracking ----------------------------
(* An instance of SlaTracking for TLC: a stage that pauses its clock, one that  *)
(* does not, and one without an SLA.                                           *)
EXTENDS SlaTracking

AllStages == {"REVIEW", "KYC", "ESCALATED"}
Windows == [s \in AllStages |-> IF s = "KYC" THEN 2 ELSE 3]
Warnings == [s \in AllStages |-> IF s = "KYC" THEN 1 ELSE 2]

=============================================================================
