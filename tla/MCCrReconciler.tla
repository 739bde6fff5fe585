---------------------------- MODULE MCCrReconciler ----------------------------
(* Instances of CrReconciler for TLC. *)
EXTENDS CrReconciler

CONSTANTS o1, o2

=============================================================================
