-------------------------- MODULE MCDetectionCycle --------------------------
(* DetectionCycle without failing calls. *)
EXTENDS DetectionCycle

MCNoCall == {}
=============================================================================
