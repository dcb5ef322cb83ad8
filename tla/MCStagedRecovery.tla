--------------------------- MODULE MCStagedRecovery ---------------------------
(* Instances of StagedRecovery for TLC. *)
EXTENDS StagedRecovery
=============================================================================
