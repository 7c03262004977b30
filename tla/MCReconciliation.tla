-------------------------- MODULE MCReconciliation --------------------------
(* Model checking of Reconciliation: interchangeable workers. *)
EXTENDS Reconciliation, TLC

WorkerSymmetry == Permutations(Workers)

=============================================================================
