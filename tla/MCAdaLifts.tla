----------------------------- MODULE MCAdaLifts ------------------------------
(* Passengers are alike: symmetry for the runs of AdaLifts without liveness.  *)
EXTENDS AdaLifts, TLC

CONSTANTS p1, p2

AnyPassenger == Permutations(Passengers)
==============================================================================
