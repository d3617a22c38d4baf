------------------------------ MODULE MCIntake ------------------------------
(***************************************************************************)
(* Intake with two fingerprints and an alert without one.                  *)
(***************************************************************************)
EXTENDS Intake, TLC

CONSTANTS f1, f2, none

FingerprintSymmetry == Permutations({f1, f2})
=============================================================================
