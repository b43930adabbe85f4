-------------------------- MODULE MCFingerTracking --------------------------
(* Small instances of FingerTracking: see the README for the bounds.       *)
EXTENDS FingerTracking
=============================================================================
