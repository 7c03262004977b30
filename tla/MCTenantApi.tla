---------------------------- MODULE MCTenantApi ----------------------------
EXTENDS TenantApi, TLC

CONSTANTS m1, p1, p2, a1, t1, t2, creator, teacher, payout, foreign, purse, bank, code

\* The only member works for the first tenant; the creator's role alone may do
\* anything.
OneTenant == m1 :> t1

CreatorOnly == creator :> Permissions @@ teacher :> {}

\* Two payments of one tenant, by two parents, and one of the other tenant.
Owners ==
    1 :> t1 @@ 2 :> t1 @@ 3 :> t2
    @@ payout :> t1 @@ foreign :> t2 @@ purse :> t1 @@ bank :> t1 @@ code :> t1

Payers == 1 :> p1 @@ 2 :> p2 @@ 3 :> p1

Kinds ==
    payout :> "withdrawal" @@ foreign :> "withdrawal" @@ purse :> "wallet"
    @@ bank :> "account" @@ code :> "voucher"

\* The default export of two days, and one by creation date of the last.
Ranges ==
    {[status |-> "paid", by |-> "paid", from |-> 0, to |-> 1],
     [status |-> "pending", by |-> "created", from |-> 0, to |-> 1]}

\* A permission timeout almost as long as the write timeout, which the counted
\* requests keep to and a payment request does not; and provider timeouts whose sum
\* is too large for a duration.
Starts ==
    {[duitku |-> 2, resend |-> 2, permission |-> 19, write |-> 0],
     [duitku |-> 48, resend |-> 48, permission |-> 0, write |-> 20]}

\* A payment request reads and writes no row here, so nothing is lost when it is in
\* flight only while no caller's request is.
PaymentsApart ==
    (\E w \in ServiceCalls : request[w].route = "payment")
        => \A q \in Requests : request[q].step = "idle"

=============================================================================
