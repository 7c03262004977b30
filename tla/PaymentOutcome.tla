--------------------------- MODULE PaymentOutcome ---------------------------
(***************************************************************************)
(* What the billing service promises about the payment of one enrollment,  *)
(* whatever requests, callbacks and workers race for it: the payment is    *)
(* open until it is withdrawn or settled, a withdrawn payment is never     *)
(* opened again, money that arrives settles it once and is credited in the *)
(* same step, and a settled payment can only be refunded.                  *)
(***************************************************************************)
EXTENDS Naturals

VARIABLES outcome, \* what became of the payment
          credits  \* ledger credits posted for it

outcomeVars == <<outcome, credits>>

Init ==
    /\ outcome = "open"
    /\ credits = 0

\* The parent withdraws a payment that has not been made.
Withdraw ==
    /\ outcome = "open"
    /\ outcome' = "withdrawn"
    /\ UNCHANGED credits

\* Money arrives; a withdrawn payment that was made all the same is honoured.
Settle ==
    /\ outcome \in {"open", "withdrawn"}
    /\ outcome' = "settled"
    /\ credits' = credits + 1

\* An operator returns the money.
Refund ==
    /\ outcome = "settled"
    /\ outcome' = "refunded"
    /\ UNCHANGED credits

Next == Withdraw \/ Settle \/ Refund

Spec == Init /\ [][Next]_outcomeVars

=============================================================================
