---------------------------- MODULE MCReleaseLane ----------------------------
(* Instances of ReleaseLane for TLC. *)
EXTENDS ReleaseLane
=============================================================================
