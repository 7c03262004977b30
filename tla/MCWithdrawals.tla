--------------------------- MODULE MCWithdrawals ---------------------------
(* Model checking of Withdrawals: the constants are in the configuration.  Its
   liveness property rules symmetry out. *)
EXTENDS Withdrawals, TLC

=============================================================================
