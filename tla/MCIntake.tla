------------------------------ MODULE MCIntake ------------------------------
(* A small instance of Intake: two requests in flight when the API dies.   *)
EXTENDS Intake, TLC

MCSymmetry == Permutations(Requests)
=============================================================================
