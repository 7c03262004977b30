--------------------------- MODULE InvoiceIssuing ---------------------------
(***************************************************************************)
(* The payment of one enrollment: its row in transactions, the subscription *)
(* it opens, the wallet credit it posts and the reconciliation row it owes *)
(* Academic, driven by concurrent GenerateSubscriptionPayment requests     *)
(* (one step per database statement or provider call), provider callbacks, *)
(* cancellation, the expiry worker and refunds.                            *)
(*                                                                         *)
(* Times are ticks of one clock that starts at 1, so that 0 stands for     *)
(* NULL; invoices are numbered in the order the provider creates them, and *)
(* 0 stands for no invoice.                                                *)
(***************************************************************************)
EXTENDS Naturals, ReconciliationRow

CONSTANTS
    Requesters,       \* concurrent GenerateSubscriptionPayment calls
    Private,          \* the enrollment is a private schedule request
    ClaimTimeout,     \* ticks after which a creating claim may be taken over
    Validity,         \* ticks an invoice stays payable
    Timely,           \* every call answers before its claim times out
    FailureCallbacks, \* the provider sends failure callbacks (01, 02)
    MaxTime,          \* bound on the clock
    MaxInvoices       \* bound on the invoices the provider creates

ASSUME ConstantsAssumption ==
    /\ Private \in BOOLEAN
    /\ Timely \in BOOLEAN
    /\ FailureCallbacks \in BOOLEAN
    /\ ClaimTimeout \in Nat \ {0}
    /\ Validity \in Nat \ {0}
    /\ MaxTime \in Nat
    /\ MaxInvoices \in Nat

VARIABLES
    \* the transactions row
    status,    \* transactions.status, "none" before the row exists
    link,      \* checkout_session_url, as the invoice it opens
    intent,    \* payment_intent_id, as the invoice it references
    expiresAt, \* invoice_expires_at
    claimedAt, \* invoice_claimed_at
    hasSub,    \* whether subscription_id is set
    \* the rows written along with it
    sub,       \* subscriptions.status, "none" before the row exists
    credits,   \* payment_received ledger entries of the transaction
    job,       \* its payment_reconciliations row
    \* the GenerateSubscriptionPayment calls in flight
    pc,        \* the next step of each call
    now,       \* the time each call read when it began
    invoice,   \* the provider invoice each call is about to store
    \* the payment provider and time
    created,   \* number of invoices created at the provider
    served,    \* invoices whose link has been stored for the parent to pay
    paid,      \* invoices the provider has been paid for
    clock

rowVars == <<status, link, intent, expiresAt, claimedAt, hasSub>>
callVars == <<pc, now, invoice>>
providerVars == <<created, served, paid>>
vars == <<rowVars, sub, credits, job, callVars, providerVars, clock>>

Null == 0
NoInvoice == 0

TransactionStatuses ==
    {"pending", "creating", "paid", "failed", "expired", "cancelled", "refunded"}

\* The statuses CancelUnpaid still accepts.
UnpaidStatuses == {"pending", "creating", "failed", "expired"}

\* Steps of a call that holds, or believes it holds, the invoice claim.
ClaimHolding == {"provider", "mark", "restore"}

Steps == {"idle", "lookup", "reread", "reinvoice", "create", "claim", "withdraw"}
             \cup ClaimHolding

RowsTypeOK ==
    /\ status \in TransactionStatuses \cup {"none"}
    /\ link \in 0..MaxInvoices
    /\ intent \in 0..MaxInvoices
    /\ expiresAt \in Nat
    /\ claimedAt \in Nat
    /\ hasSub \in BOOLEAN
    /\ sub \in {"none", "pending", "active", "cancelled"}
    /\ credits \in Nat
    /\ job \in Jobs

\* A call that is about to store an invoice has one.
CallsTypeOK ==
    /\ pc \in [Requesters -> Steps]
    /\ now \in [Requesters -> Nat]
    /\ invoice \in [Requesters -> 0..MaxInvoices]
    /\ \A r \in Requesters : pc[r] = "mark" => invoice[r] # NoInvoice

ProviderTypeOK ==
    /\ created \in 0..MaxInvoices
    /\ served \subseteq 1..MaxInvoices
    /\ paid \subseteq 1..MaxInvoices
    /\ clock \in Nat

\* Type correctness of every row, every call in flight and the provider's record.
TypeOK == RowsTypeOK /\ CallsTypeOK /\ ProviderTypeOK

Init ==
    /\ status = "none"
    /\ link = NoInvoice
    /\ intent = NoInvoice
    /\ expiresAt = Null
    /\ claimedAt = Null
    /\ hasSub = FALSE
    /\ sub = "none"
    /\ credits = 0
    /\ job = NoJob
    /\ pc = [r \in Requesters |-> "idle"]
    /\ now = [r \in Requesters |-> Null]
    /\ invoice = [r \in Requesters |-> NoInvoice]
    /\ created = 0
    /\ served = {}
    /\ paid = {}
    /\ clock = 1

-----------------------------------------------------------------------------
(* The steps of GenerateSubscriptionPayment *)

GoTo(r, step) == pc' = [pc EXCEPT ![r] = step]

\* The call returns or dies; it leaves no local state behind.
Finish(r) ==
    /\ GoTo(r, "idle")
    /\ now' = [now EXCEPT ![r] = Null]
    /\ invoice' = [invoice EXCEPT ![r] = NoInvoice]

\* reusableInvoiceResponse: the row holds a link the parent can still pay.
Reusable(t) ==
    /\ link # NoInvoice
    /\ status \in {"pending", "creating"}
    /\ expiresAt = Null \/ expiresAt > t

\* Mutant: the claim timeout is ignored.
StaleClaimAtOnce(t) == claimedAt = Null \/ claimedAt <= t

\* A creating claim no live call is expected to hold any more.
StaleClaim(t) == claimedAt = Null \/ claimedAt + ClaimTimeout <= t

\* Rows ClaimInvoice matches: they never had a link.
Claimable(t) ==
    /\ link = NoInvoice
    /\ \/ status \in {"pending", "failed"}
       \/ status = "creating" /\ StaleClaim(t)

\* Mutant: any stored expiry counts as passed.
ReinvoicableUnexpired(t) ==
    \/ status = "expired"
    \/ status \in {"pending", "failed"} /\ (link = NoInvoice \/ expiresAt # Null)
    \/ status = "creating" /\ link = NoInvoice /\ StaleClaim(t)

\* Mutant: an abandoned claim is never taken over.
ReinvoicableUnclaimed(t) ==
    \/ status = "expired"
    \/ /\ status \in {"pending", "failed"}
       /\ link = NoInvoice \/ (expiresAt # Null /\ expiresAt <= t)

\* Rows ClaimReinvoice matches: nothing is left on them that can be paid.
Reinvoicable(t) ==
    \/ status = "expired"
    \/ /\ status \in {"pending", "failed"}
       /\ link = NoInvoice \/ (expiresAt # Null /\ expiresAt <= t)
    \/ status = "creating" /\ link = NoInvoice /\ StaleClaim(t)

\* Mutant: a link is also stored on a row the parent has withdrawn.
IssuableWithdrawn == status \in {"creating", "pending", "cancelled"}

\* Rows MarkInvoiceIssued still stores a link on.
Issuable == status \in {"creating", "pending"}

\* Mutant: the validity is lost.
InvoiceExpiresAtOnce(t) == t

InvoiceExpiresAt(t) == t + Validity

\* prepareVoucherCheckout inserts the row of an ordinary enrollment, without a
\* subscription, before the call reads the time and looks the row up.
Begin(r) ==
    /\ pc[r] = "idle"
    /\ GoTo(r, "lookup")
    /\ now' = [now EXCEPT ![r] = clock]
    /\ status' = IF status = "none" /\ ~Private THEN "pending" ELSE status
    /\ UNCHANGED <<link, intent, expiresAt, claimedAt, hasSub, sub, credits, job,
                   invoice, providerVars, clock>>

\* Answer with the link already issued, or fetch or create the subscription.
Lookup(r) ==
    /\ pc[r] = "lookup"
    /\ \/ Reusable(now[r]) /\ Finish(r) /\ UNCHANGED sub
       \/ /\ ~Reusable(now[r])
          /\ GoTo(r, "reread")
          /\ sub' = IF sub = "none" THEN "pending" ELSE sub
          /\ UNCHANGED <<now, invoice>>
    /\ UNCHANGED <<rowVars, credits, job, providerVars, clock>>

\* The second read decides between a replacement and a first invoice.
Reread(r) ==
    /\ pc[r] = "reread"
    /\ \/ status \in {"paid", "cancelled", "refunded"} /\ Finish(r)
       \/ status \in UnpaidStatuses /\ GoTo(r, "reinvoice") /\ UNCHANGED <<now, invoice>>
       \/ status = "none" /\ GoTo(r, "create") /\ UNCHANGED <<now, invoice>>
    /\ UNCHANGED <<rowVars, sub, credits, job, providerVars, clock>>

\* ClaimReinvoice: one conditional update; a loser answers from what it read.
Reinvoice(r) ==
    /\ pc[r] = "reinvoice"
    /\ \/ /\ Reinvoicable(now[r])
          /\ status' = "creating"
          /\ link' = NoInvoice
          /\ intent' = NoInvoice
          /\ claimedAt' = now[r]
          /\ GoTo(r, "provider")
          /\ UNCHANGED <<now, invoice>>
       \/ /\ ~Reinvoicable(now[r])
          /\ Finish(r)
          /\ UNCHANGED <<status, link, intent, claimedAt>>
    /\ UNCHANGED <<expiresAt, hasSub, sub, credits, job, providerVars, clock>>

\* Insert the row; a unique violation means another call inserted it first.
Create(r) ==
    /\ pc[r] = "create"
    /\ GoTo(r, "claim")
    /\ \/ status = "none" /\ status' = "pending" /\ hasSub' = TRUE
       \/ status # "none" /\ UNCHANGED <<status, hasSub>>
    /\ UNCHANGED <<link, intent, expiresAt, claimedAt, sub, credits, job, now, invoice,
                   providerVars, clock>>

\* ClaimInvoice: one conditional update on a row that never had a link.
Claim(r) ==
    /\ pc[r] = "claim"
    /\ \/ /\ Claimable(now[r])
          /\ status' = "creating"
          /\ claimedAt' = now[r]
          /\ GoTo(r, "provider")
          /\ UNCHANGED <<now, invoice>>
       \/ /\ ~Claimable(now[r])
          /\ Finish(r)
          /\ UNCHANGED <<status, claimedAt>>
    /\ UNCHANGED <<link, intent, expiresAt, hasSub, sub, credits, job, providerVars, clock>>

\* CreateInvoice answers with a new invoice.
InvoiceCreated(r) ==
    /\ pc[r] = "provider"
    /\ created < MaxInvoices
    /\ created' = created + 1
    /\ invoice' = [invoice EXCEPT ![r] = created']
    /\ GoTo(r, "mark")
    /\ UNCHANGED <<rowVars, sub, credits, job, now, served, paid, clock>>

\* CreateInvoice reports an error.  An invoice the provider may have created all
\* the same stays unknown to everybody.
InvoiceRefused(r) ==
    /\ pc[r] = "provider"
    /\ GoTo(r, "restore")
    /\ UNCHANGED <<rowVars, sub, credits, job, now, invoice, providerVars, clock>>

\* RestoreFailedInvoiceClaim: matches any creating row without a link.
Restore(r) ==
    /\ pc[r] = "restore"
    /\ Finish(r)
    /\ status' = IF status = "creating" /\ link = NoInvoice THEN "failed" ELSE status
    /\ UNCHANGED <<link, intent, expiresAt, claimedAt, hasSub, sub, credits, job,
                   providerVars, clock>>

\* MarkInvoiceIssued: store the link while the row still awaits payment.  The
\* expiry counts from the time the call began.
MarkIssued(r) ==
    /\ pc[r] = "mark"
    /\ \/ /\ Issuable
          /\ status' = "pending"
          /\ link' = invoice[r]
          /\ intent' = invoice[r]
          /\ expiresAt' = InvoiceExpiresAt(now[r])
          /\ claimedAt' = Null
          /\ hasSub' = (hasSub \/ sub # "none")
          /\ served' = served \cup {invoice[r]}
       \/ ~Issuable /\ UNCHANGED <<rowVars, served>>
    /\ GoTo(r, "withdraw")
    /\ UNCHANGED <<sub, credits, job, now, invoice, created, paid, clock>>

\* cancelPendingSeatRelease runs whether or not the link was stored.
WithdrawRelease(r) ==
    /\ pc[r] = "withdraw"
    /\ Finish(r)
    /\ job' = CancelPendingRelease(job)
    /\ UNCHANGED <<rowVars, sub, credits, providerVars, clock>>

\* The process dies, or a statement fails and the call returns the error,
\* while MaxTime leaves time for a claim it abandons to go stale.
Crash(r) ==
    /\ pc[r] # "idle"
    /\ clock + ClaimTimeout <= MaxTime
    /\ Finish(r)
    /\ UNCHANGED <<rowVars, sub, credits, job, providerVars, clock>>

Call(r) ==
    \/ Begin(r) \/ Lookup(r) \/ Reread(r) \/ Reinvoice(r) \/ Create(r) \/ Claim(r)
    \/ InvoiceCreated(r) \/ InvoiceRefused(r) \/ Restore(r) \/ MarkIssued(r)
    \/ WithdrawRelease(r)

-----------------------------------------------------------------------------
(* Everything else that writes the row *)

\* Mutant: a cancelled row refuses its payment.
SettleableUnpaid == status \in UnpaidStatuses

\* Mutant: a paid row takes the success branch again.
SettleableTwice == status \in UnpaidStatuses \cup {"cancelled", "paid"}

\* Rows the success branch of a callback settles.
Settleable == status \in UnpaidStatuses \cup {"cancelled"}

\* Mutant: the reference the row expects is not compared.
ConfirmsAnything(i) == i \in paid

\* The provider confirms invoice i, and the row expects no other.
Confirms(i) == i \in paid /\ intent \in {NoInvoice, i}

SubscriptionPaid == IF hasSub /\ sub # "cancelled" THEN "active" ELSE sub

SubscriptionRefunded == IF hasSub THEN "cancelled" ELSE sub

\* A success callback for invoice i that the provider confirms: whatever the
\* row's unpaid status, the payment is recorded, the subscription activated,
\* the wallet credited and the activation owed, in one transaction.  A payload
\* that carries no reference leaves the stored one as it is.
PaidCallback(i) ==
    /\ Settleable
    /\ Confirms(i)
    /\ status' = "paid"
    /\ intent' \in {intent, i}
    /\ sub' = SubscriptionPaid
    /\ credits' = credits + 1
    /\ job' = EnsureActivation(job)
    /\ UNCHANGED <<link, expiresAt, claimedAt, hasSub, callVars, providerVars, clock>>

\* Any callback for a paid row only makes sure the activation is owed.
ReplayedCallback ==
    /\ status = "paid"
    /\ job' = EnsureActivation(job)
    /\ UNCHANGED <<rowVars, sub, credits, callVars, providerVars, clock>>

\* A failure callback, for any invoice served so far, is not compared with the
\* row's reference: it fails whatever still awaits payment.
FailedCallback ==
    /\ FailureCallbacks
    /\ served # {}
    /\ status \in {"pending", "creating"}
    /\ status' = "failed"
    /\ job' = EnqueueRelease(job)
    /\ UNCHANGED <<link, intent, expiresAt, claimedAt, hasSub, sub, credits, callVars,
                   providerVars, clock>>

\* CancelEnrollmentPayment ends in CancelUnpaid.
CancelUnpaid ==
    /\ status \in UnpaidStatuses
    /\ status' = "cancelled"
    /\ job' = EnqueueRelease(job)
    /\ UNCHANGED <<link, intent, expiresAt, claimedAt, hasSub, sub, credits, callVars,
                   providerVars, clock>>

\* The expiry worker.
ExpireDue ==
    /\ status = "pending"
    /\ expiresAt # Null /\ expiresAt <= clock
    /\ status' = "expired"
    /\ job' = EnqueueRelease(job)
    /\ UNCHANGED <<link, intent, expiresAt, claimedAt, hasSub, sub, credits, callVars,
                   providerVars, clock>>

RecordRefund ==
    /\ status = "paid"
    /\ status' = "refunded"
    /\ sub' = SubscriptionRefunded
    /\ job' = DropPendingActivation(job)
    /\ UNCHANGED <<link, intent, expiresAt, claimedAt, hasSub, credits, callVars,
                   providerVars, clock>>

\* The reconciliation workers claim the row and record outcomes in it, also
\* late ones; they never insert, delete or re-kind it.
JobStep ==
    /\ job # NoJob
    /\ \/ job.status \in {"pending", "processing"} /\ job' = [job EXCEPT !.status = "processing"]
       \/ \E s \in {"pending", "active", "terminal_failed"} : job' = [job EXCEPT !.status = s]
    /\ UNCHANGED <<rowVars, sub, credits, callVars, providerVars, clock>>

\* The parent pays, at the provider, an invoice whose link it has been given.
Pay(i) ==
    /\ i \in served \ paid
    /\ paid' = paid \cup {i}
    /\ UNCHANGED <<rowVars, sub, credits, job, callVars, created, served, clock>>

\* With Timely, time does not pass a call that is about to outlive its claim.
Tick ==
    /\ clock < MaxTime
    /\ Timely => \A r \in Requesters : pc[r] # "idle" => clock + 1 < now[r] + ClaimTimeout
    /\ clock' = clock + 1
    /\ UNCHANGED <<rowVars, sub, credits, job, callVars, providerVars>>

Next ==
    \/ \E r \in Requesters : Call(r) \/ Crash(r)
    \/ \E i \in 1..MaxInvoices : PaidCallback(i) \/ Pay(i)
    \/ ReplayedCallback \/ FailedCallback \/ CancelUnpaid \/ ExpireDue \/ RecordRefund
    \/ JobStep \/ Tick

Spec == Init /\ [][Next]_vars

\* Time passes, calls keep taking steps, and the parent keeps asking.
FairSpec ==
    /\ Spec
    /\ WF_vars(Tick)
    /\ \A r \in Requesters : WF_vars(Call(r))

-----------------------------------------------------------------------------
(* Properties that hold whatever calls, callbacks and workers race *)

\* A paid row always owes Academic an activation, or has had it acknowledged:
\* no late withdrawal, expiry, failure callback or re-issue removes that work.
PaidOwesActivation == status = "paid" => job.kind = "activation"

\* The wallet is credited exactly once for a payment that was recorded, across
\* replayed callbacks, refunds and calls that were still issuing an invoice.
CreditedOnce == credits = IF status \in {"paid", "refunded"} THEN 1 ELSE 0

\* A recorded payment never names an invoice the provider was not paid for,
\* even when the row was re-issued or its link overwritten in between.
RecordedPaymentIsReal ==
    status \in {"paid", "refunded"} => intent \in paid \cup {NoInvoice}

\* The subscription runs exactly while the payment that opened it stands.
SubscriptionFollowsPayment ==
    /\ sub = "active" => status = "paid"
    /\ sub = "cancelled" => status = "refunded"
    /\ status = "paid" /\ hasSub => sub = "active"

\* A row being re-issued no longer serves the link it is about to replace.
CreatingHasNoLink == status = "creating" => link = NoInvoice /\ intent = NoInvoice

\* The payment of the enrollment behaves as PaymentOutcome promises.
Outcome ==
    CASE status = "cancelled" -> "withdrawn"
      [] status = "paid"      -> "settled"
      [] status = "refunded"  -> "refunded"
      [] OTHER                -> "open"

Payment == INSTANCE PaymentOutcome WITH outcome <- Outcome

ImplementsOutcome == Payment!Spec

-----------------------------------------------------------------------------
(* Properties of the claim *)

\* The creating claim makes invoice creation exclusive: at most one call at a
\* time is between taking the claim and giving it back.
ExclusiveCreation ==
    \A r, s \in Requesters : pc[r] \in ClaimHolding /\ pc[s] \in ClaimHolding => r = s

\* A link the parent can still pay is never replaced by another one.
LiveLinkKept == [][link # NoInvoice /\ link' # link => expiresAt <= clock]_vars

\* MarkInvoiceIssued stores a link only on a row still waiting for one.
LinkStoredOnWaitingRow ==
    [][link' \notin {NoInvoice, link} => link = NoInvoice]_vars

\* Creating is never a dead end: a claim abandoned by a call that died is taken
\* over by a later request.
CreatingIsLeft == status = "creating" ~> status # "creating"

\* The seat of an expired payment is given back: its job is never withdrawn by
\* a call that was still in flight.
ExpiredKeepsRelease == status = "expired" => job # NoJob

\* The money received for the link the row shows is accepted when its callback
\* arrives, whatever happened to the row since the link was stored: it expired, was
\* cancelled or failed, or another call was after its claim.
CurrentLinkHonoured ==
    link \in paid /\ status \notin {"paid", "refunded"} => Settleable /\ Confirms(link)

=============================================================================
