---------------------- MODULE MCSubscriptionLifecycle ----------------------
(* Model checking of SubscriptionLifecycle: interchangeable workers. *)
EXTENDS SubscriptionLifecycle, TLC

WorkerSymmetry == Permutations(Workers)

=============================================================================
