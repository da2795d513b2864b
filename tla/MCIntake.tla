------------------------------ MODULE MCIntake ------------------------------
(***************************************************************************)
(* Small instances of Intake.  Requests are interchangeable; the symmetry  *)
(* is only sound in the run without a liveness property.                   *)
(***************************************************************************)
EXTENDS Intake, TLC

HandlerSymmetry == Permutations(Handler)
=============================================================================
