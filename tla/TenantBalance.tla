--------------------------- MODULE TenantBalance ---------------------------
(***************************************************************************)
(* What the wallet promises a tenant, one operation at a time: each payment *)
(* adds its net amount once, one withdrawal at a time sets an amount aside, *)
(* and a decision, taken once, pays that amount out or gives it back.      *)
(***************************************************************************)
EXTENDS Integers

CONSTANTS Payments, Net, Keys, Amounts

VARIABLES
    received,  \* the payments that have been added
    available, \* what the tenant may withdraw
    held,      \* what is set aside
    claims     \* the status and amount of each withdrawal

vars == <<received, available, held, claims>>

Init ==
    /\ received = {}
    /\ available = 0
    /\ held = 0
    /\ claims = [k \in Keys |-> [status |-> "none", amount |-> 0]]

Receive(p) ==
    /\ p \notin received
    /\ received' = received \cup {p}
    /\ available' = available + Net
    /\ UNCHANGED <<held, claims>>

Hold(k, n) ==
    /\ claims[k].status = "none"
    /\ \A j \in Keys : claims[j].status # "requested"
    /\ n <= available
    /\ available' = available - n
    /\ held' = held + n
    /\ claims' = [claims EXCEPT ![k] = [status |-> "requested", amount |-> n]]
    /\ UNCHANGED received

GiveBack(k, d) ==
    /\ claims[k].status = "requested"
    /\ available' = available + claims[k].amount
    /\ held' = held - claims[k].amount
    /\ claims' = [claims EXCEPT ![k].status = d]
    /\ UNCHANGED received

PayOut(k) ==
    /\ claims[k].status = "requested"
    /\ held' = held - claims[k].amount
    /\ claims' = [claims EXCEPT ![k].status = "paid"]
    /\ UNCHANGED <<received, available>>

Next ==
    \/ \E p \in Payments : Receive(p)
    \/ \E k \in Keys :
        \/ \E n \in Amounts : Hold(k, n)
        \/ \E d \in {"cancelled", "rejected"} : GiveBack(k, d)
        \/ PayOut(k)

Spec == Init /\ [][Next]_vars

=============================================================================
