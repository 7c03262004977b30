----------------------------- MODULE UsageQuota -----------------------------
(***************************************************************************)
(* What the usage counter of a voucher promises: enrollments take and give *)
(* back its uses, no more at a time than the cap in force when one is taken *)
(* or the cap is changed, except for the uses that payments of released    *)
(* enrollments take back.  A cap of zero stands for no cap.                *)
(***************************************************************************)
EXTENDS Naturals, FiniteSets

CONSTANTS VoucherIds, Enrollments

VARIABLES
    taken, \* the enrollments that hold a use of each voucher
    over,  \* those a payment gave the use back to, whatever the cap
    cap    \* the cap of each voucher

vars == <<taken, over, cap>>

Init ==
    /\ taken = [v \in VoucherIds |-> {}]
    /\ over = [v \in VoucherIds |-> {}]
    /\ cap \in [VoucherIds -> Nat]

Allows(n, uses) == n = 0 \/ uses <= n

Take(v, e) ==
    /\ \A w \in VoucherIds : e \notin taken[w]
    /\ Allows(cap[v], Cardinality(taken[v]) + 1)
    /\ taken' = [taken EXCEPT ![v] = @ \cup {e}]
    /\ UNCHANGED <<over, cap>>

TakeOver(v, e) ==
    /\ \A w \in VoucherIds : e \notin taken[w]
    /\ taken' = [taken EXCEPT ![v] = @ \cup {e}]
    /\ over' = [over EXCEPT ![v] = @ \cup {e}]
    /\ UNCHANGED cap

Release(v, e) ==
    /\ e \in taken[v]
    /\ taken' = [taken EXCEPT ![v] = @ \ {e}]
    /\ over' = [over EXCEPT ![v] = @ \ {e}]
    /\ UNCHANGED cap

Recap(v) ==
    /\ cap'[v] \in Nat
    /\ cap' = [cap EXCEPT ![v] = cap'[v]]
    /\ Allows(cap'[v], Cardinality(taken[v]))
    /\ UNCHANGED <<taken, over>>

Next ==
    \E v \in VoucherIds :
        \/ \E e \in Enrollments : Take(v, e) \/ TakeOver(v, e) \/ Release(v, e)
        \/ Recap(v)

Spec == Init /\ [][Next]_vars

=============================================================================
