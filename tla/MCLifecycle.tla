----------------------------- MODULE MCLifecycle -----------------------------
(* Names for the model values of Lifecycle's configuration; tasks are alike. *)
EXTENDS Lifecycle, TLC

CONSTANTS io1, t1, t2

TaskSymmetry == Permutations(Tasks)
==============================================================================
