-------------------------- MODULE MCReconcileSweep --------------------------
(* Instances of ReconcileSweep for TLC. *)
EXTENDS ReconcileSweep
=============================================================================
