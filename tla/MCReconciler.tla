---------------------------- MODULE MCReconciler ----------------------------
(* The instance of the reconciler that TLC checks: the service names are   *)
(* interchangeable, good and bad are the two outcomes of a health check.   *)
EXTENDS Reconciler, TLC

CONSTANTS a, b, good, bad, d1

NameSymmetry == Permutations(Services)
=============================================================================
