---------------------------- MODULE MCReconciler ----------------------------
(* Instances of Reconciler for TLC.                                        *)
EXTENDS Reconciler, TLC

CONSTANTS a, b, x   \* two managed names and a foreign one

Managed1 == {a}
Managed2 == {a, b}
Three == {a, b, x}
Symmetry == Permutations(Managed2)
=============================================================================
