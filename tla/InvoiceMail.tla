---------------------------- MODULE InvoiceMail ----------------------------
(***************************************************************************)
(* One transactions row whose payment link is mailed to the parent, either *)
(* the renewal of a subscription for one billing period or the invoice of a *)
(* private lesson: the renewal workers that create, invoice and announce a *)
(* renewal inside one database transaction, the requests that replace its  *)
(* invoice, the dispatchers of private payment mails, provider callbacks   *)
(* with the mails about their outcome, expiry, cancellation and refunds.   *)
(*                                                                         *)
(* A renewal worker works on an uncommitted copy of the row, its draft; the *)
(* row stays locked while the worker has one.  Every other statement on the *)
(* row commits by itself.  Invoices are numbered in the order the provider *)
(* creates them, 0 stands for none.  Time passes by steps of its own: an   *)
(* invoice lapses, at the provider and for the row at once, a claim grows  *)
(* old, the reminder interval ends.  A call answers before its invoice     *)
(* claim grows old (see InvoiceIssuing for those that do not).             *)
(***************************************************************************)
EXTENDS Naturals, FiniteSets

CONSTANTS
    Workers,     \* renewal workers, one per replica
    Parents,     \* concurrent requests for the invoice of the enrollment
    Hooks,       \* callbacks whose outcome mail is still to be sent
    Dispatchers, \* dispatchers of private payment mails
    MaxInvoices, \* bound on the invoices the provider creates
    MaxFaults,   \* bound on the faults
    None

ASSUME ConstantsAssumption ==
    /\ MaxInvoices \in Nat
    /\ MaxFaults \in Nat
    /\ None \notin Dispatchers
    /\ \A S \in {Workers, Parents, Hooks, Dispatchers} : IsFiniteSet(S)

VARIABLES
    private,   \* whether the row belongs to a private lesson
    sub,       \* subscriptions.status
    row,       \* the transactions row, as committed
    work,      \* the step of each renewal worker, its draft and what it read
    reissue,   \* the step of each request for an invoice, and its invoice
    hook,      \* the step of each outcome mail, and the status it is about
    post,      \* the step of each dispatcher, and the link it mails
    created,   \* number of invoices created at the provider
    invoices,  \* state and merchant order of each
    known,     \* invoices whose link was stored or mailed
    asks,      \* payment link mails of the renewal that were delivered
    tellings,  \* outcome mails that were delivered, by status
    delivered, \* links delivered by private payment mails
    faults     \* crashes, lost answers and callbacks about superseded invoices

providerVars == <<created, invoices>>
mailVars == <<asks, tellings, delivered>>
vars == <<private, sub, row, work, reissue, hook, post, providerVars, known, mailVars, faults>>

NoInvoice == 0
Numbers == 0..MaxInvoices

Statuses ==
    {"none", "pending", "creating", "paid", "failed", "expired", "cancelled", "refunded"}

UnpaidStatuses == {"pending", "creating", "failed", "expired"}

Outcomes == {"paid", "failed"}

\* The columns of the row: asked is payment_link_sent_at, told the outcome mails
\* recorded as sent, sent and claim those of the private payment mail; old says
\* that the invoice claim, late that the mail claim, has passed its timeout.
Rows == [status : Statuses, order : Nat, link : Numbers, old : BOOLEAN,
         asked : BOOLEAN, reminded : BOOLEAN, told : SUBSET Outcomes,
         sent : BOOLEAN, claim : Dispatchers \cup {None}, late : BOOLEAN]

NoRow == [status |-> "none", order |-> 0, link |-> NoInvoice, old |-> FALSE,
          asked |-> FALSE, reminded |-> FALSE, told |-> {},
          sent |-> FALSE, claim |-> None, late |-> FALSE]

WorkSteps == {"idle", "listed", "guarded", "provider", "store", "mail", "send", "remind", "commit"}

\* Steps of a worker that has written the row in its transaction.
DraftSteps == {"provider", "store", "send", "remind", "commit"}

AtRest == [step |-> "idle", drafted |-> FALSE, draft |-> NoRow, link |-> NoInvoice, asked |-> FALSE]

Silent == [step |-> "idle", of |-> "paid"]

\* Type correctness; a row whose invoice is being created has no link, a draft
\* exists in the steps that write it, and a worker that sends a link has one.
TypeOK ==
    /\ private \in BOOLEAN
    /\ sub \in {"active", "suspended", "cancelled"}
    /\ row \in Rows
    /\ row.status = "creating" => row.link = NoInvoice
    /\ work \in [Workers -> [step : WorkSteps, drafted : BOOLEAN, draft : Rows,
                             link : Numbers, asked : BOOLEAN]]
    /\ \A w \in Workers :
        /\ work[w].step \in DraftSteps => work[w].drafted
        /\ work[w].step \in {"send", "remind"} => work[w].link # NoInvoice
    /\ reissue \in [Parents -> [step : {"idle", "provider", "store", "restore"}, invoice : Numbers]]
    /\ hook \in [Hooks -> [step : {"idle", "claim", "send", "release"}, of : Outcomes]]
    /\ post \in [Dispatchers -> [step : {"idle", "reread", "send", "sent", "failed"}, link : Numbers]]
    /\ created \in Numbers
    /\ invoices \in [1..MaxInvoices -> [state : {"none", "open", "lapsed", "paid"}, order : Nat]]
    /\ known \subseteq 1..MaxInvoices
    /\ asks \in Nat
    /\ tellings \in [Outcomes -> Nat]
    /\ delivered \subseteq 1..MaxInvoices
    /\ faults \in Nat

\* A private lesson has its row from the approval; a renewal has none yet.
Init ==
    /\ private \in BOOLEAN
    /\ sub = "active"
    /\ row = IF private THEN [NoRow EXCEPT !.status = "pending", !.order = 1] ELSE NoRow
    /\ work = [w \in Workers |-> AtRest]
    /\ reissue = [p \in Parents |-> [step |-> "idle", invoice |-> NoInvoice]]
    /\ hook = [h \in Hooks |-> Silent]
    /\ post = [d \in Dispatchers |-> [step |-> "idle", link |-> NoInvoice]]
    /\ created = 0
    /\ invoices = [i \in 1..MaxInvoices |-> [state |-> "none", order |-> 0]]
    /\ known = {}
    /\ asks = 0
    /\ tellings = [s \in Outcomes |-> 0]
    /\ delivered = {}
    /\ faults = 0

-----------------------------------------------------------------------------
(* Locks and the statements on the row *)

\* Mutant: the subscription is read without FOR UPDATE.
SubUnlocked == TRUE

\* Nobody is inside GuardSubscription.
SubFree == \A w \in Workers : work[w].step \in {"idle", "listed"}

\* Nobody has an uncommitted write of the row.
RowFree == \A w \in Workers : ~work[w].drafted

Lapsed(i) == i # NoInvoice /\ invoices[i].state = "lapsed"

\* Mutant: the worker leaves abandoned claims alone.
ClaimableFresh(r) == r.link = NoInvoice /\ r.status \in {"pending", "failed"}

\* ClaimInvoice.
Claimable(r) ==
    /\ r.link = NoInvoice
    /\ r.status \in {"pending", "failed"} \/ (r.status = "creating" /\ r.old)

\* Mutant: a pending row is re-invoiced although its link can be paid.
ReinvoicableLinked(r) ==
    r.status \in {"pending", "failed", "expired"} \/ (r.status = "creating" /\ r.old)

\* ClaimReinvoice.
Reinvoicable(r) ==
    \/ r.status = "expired"
    \/ r.status \in {"pending", "failed"} /\ (r.link = NoInvoice \/ Lapsed(r.link))
    \/ r.status = "creating" /\ r.link = NoInvoice /\ r.old

Claimed(r) == [r EXCEPT !.status = "creating", !.link = NoInvoice, !.old = FALSE]

\* Mutant: the private mail of the previous invoice counts for the new one.
IssuedKeepingMail(r, i) == [r EXCEPT !.status = "pending", !.link = i, !.old = FALSE, !.claim = None]

\* Mutant: a renewal's announcement is forgotten too, like the private mail.
IssuedUnannounced(r, i) ==
    [r EXCEPT !.status = "pending", !.link = i, !.old = FALSE, !.asked = FALSE,
              !.sent = FALSE, !.claim = None, !.late = FALSE]

\* MarkInvoiceIssued.
Issued(r, i) ==
    [r EXCEPT !.status = "pending", !.link = i, !.old = FALSE,
              !.sent = FALSE, !.claim = None, !.late = FALSE]

\* CreateInvoice answers with a new invoice for a merchant order.
Creates(order) ==
    /\ created < MaxInvoices
    /\ created' = created + 1
    /\ invoices' = [invoices EXCEPT ![created'] = [state |-> "open", order |-> order]]

Fault == faults < MaxFaults /\ faults' = faults + 1

-----------------------------------------------------------------------------
(* The renewal worker: process, processInvoice and sendEmails *)

\* The rows a worker's step leaves alone.
OthersKept == UNCHANGED <<private, reissue, hook, post, tellings, delivered>>

Goes(w, r) == work' = [work EXCEPT ![w] = r]

\* The worker's transaction ends; its draft becomes the row, or is gone.
Ends(w, r) ==
    /\ Goes(w, AtRest)
    /\ row' = r
    /\ OthersKept

RollsBack(w) == Ends(w, row)

\* ListDueForRenewal: payment of the period moves next_billing_date on.
Lists(w) ==
    /\ work[w].step = "idle"
    /\ ~private
    /\ sub = "active"
    /\ row.status # "paid"
    /\ Goes(w, [AtRest EXCEPT !.step = "listed"])
    /\ UNCHANGED <<sub, row, providerVars, known, asks, faults>> /\ OthersKept

\* The grace period is over: SuspendOverdue.
Suspends(w) ==
    /\ work[w].step = "listed"
    /\ SubFree
    /\ sub' = IF sub = "active" /\ row.status # "paid" THEN "suspended" ELSE sub
    /\ Ends(w, row)
    /\ UNCHANGED <<providerVars, known, asks, faults>>

\* GuardSubscription: nothing is done for a cancelled subscription.
Guards(w) ==
    /\ work[w].step = "listed"
    /\ SubFree
    /\ IF sub = "cancelled" THEN Goes(w, AtRest) ELSE Goes(w, [AtRest EXCEPT !.step = "guarded"])
    /\ UNCHANGED <<sub, row, providerVars, known, asks, faults>> /\ OthersKept

\* No row yet for the period: insert it, with a merchant order of its own, and
\* claim its invoice.
Inserts(w) ==
    /\ work[w].step = "guarded"
    /\ row.status = "none"
    /\ Goes(w, [AtRest EXCEPT !.step = "provider", !.drafted = TRUE,
                              !.draft = [NoRow EXCEPT !.status = "creating", !.order = created + 1]])
    /\ UNCHANGED <<sub, row, providerVars, known, asks, faults>> /\ OthersKept

\* The row waits for an invoice, or for another one: ClaimInvoice.  A row that was
\* announced before stays announced, and will have a reminder of the new link.
ClaimsInvoice(w) ==
    /\ work[w].step = "guarded"
    /\ row.status \notin {"none", "paid"}
    /\ row.link = NoInvoice \/ row.status \in {"failed", "expired"}
    /\ IF Claimable(row)
           THEN Goes(w, [AtRest EXCEPT !.step = "provider", !.drafted = TRUE,
                                       !.draft = Claimed(row), !.asked = row.asked])
           ELSE Goes(w, AtRest)
    /\ UNCHANGED <<sub, row, providerVars, known, asks, faults>> /\ OthersKept

\* The row has a link; what the worker mails is what it reads here.
ReadsLink(w) ==
    /\ work[w].step = "guarded"
    /\ row.link # NoInvoice
    /\ row.status \notin {"failed", "expired", "paid"}
    /\ Goes(w, [AtRest EXCEPT !.step = "mail", !.link = row.link, !.asked = row.asked])
    /\ UNCHANGED <<sub, row, providerVars, known, asks, faults>> /\ OthersKept

FindsPaid(w) ==
    /\ work[w].step = "guarded"
    /\ row.status = "paid"
    /\ RollsBack(w)
    /\ UNCHANGED <<sub, providerVars, known, asks, faults>>

\* The provider call, inside the database transaction.
Invoices(w) ==
    /\ work[w].step = "provider"
    /\ Creates(work[w].draft.order)
    /\ Goes(w, [work[w] EXCEPT !.step = "store", !.link = created'])
    /\ UNCHANGED <<sub, row, known, asks, faults>> /\ OthersKept

\* The provider refuses: the claim, and the row if it is new, are rolled back.
InvoiceRefused(w) ==
    /\ work[w].step = "provider"
    /\ RollsBack(w)
    /\ UNCHANGED <<sub, providerVars, known, asks, faults>>

Stores(w) ==
    /\ work[w].step = "store"
    /\ Goes(w, [work[w] EXCEPT !.step = "mail", !.draft = Issued(@, work[w].link)])
    /\ UNCHANGED <<sub, row, providerVars, known, asks, faults>> /\ OthersKept

\* The row as the worker's own statements see it.
Seen(w) == IF work[w].drafted THEN work[w].draft ELSE row

\* ClaimPaymentLinkEmail.
Asks(w) == ~work[w].asked /\ ~Seen(w).asked /\ Seen(w).status = "pending"

\* ClaimReminderEmail.
RemindsNow(w) == work[w].asked /\ ~Seen(w).reminded /\ Seen(w).status = "pending"

\* The claim writes the row, so it waits for nobody else to have written it.
\* The subscription lock keeps other workers away.
ClaimsMail(w) ==
    /\ work[w].step = "mail"
    /\ \/ /\ Asks(w)
          /\ Goes(w, [work[w] EXCEPT !.step = "send", !.drafted = TRUE,
                                     !.draft = [Seen(w) EXCEPT !.asked = TRUE]])
       \/ /\ RemindsNow(w)
          /\ Goes(w, [work[w] EXCEPT !.step = "remind", !.drafted = TRUE,
                                     !.draft = [Seen(w) EXCEPT !.reminded = TRUE]])
    /\ UNCHANGED <<sub, row, providerVars, known, asks, faults>> /\ OthersKept

\* There is nothing to mail now: commit what was written.
SkipsMail(w) ==
    /\ work[w].step = "mail"
    /\ ~Asks(w) /\ ~RemindsNow(w)
    /\ Ends(w, Seen(w))
    /\ known' = known \cup ({Seen(w).link} \ {NoInvoice})
    /\ UNCHANGED <<sub, providerVars, asks, faults>>

\* The mail with the link reaches the parent.
Mails(w) ==
    /\ work[w].step \in {"send", "remind"}
    /\ asks' = asks + (IF work[w].step = "send" THEN 1 ELSE 0)
    /\ known' = known \cup {work[w].link}

Sends(w) ==
    /\ Mails(w)
    /\ Goes(w, [work[w] EXCEPT !.step = "commit"])
    /\ UNCHANGED <<sub, row, providerVars, faults>> /\ OthersKept

\* The mail provider's answer is an error or is lost, and everything since
\* GuardSubscription is rolled back; the mail may have been delivered.
SendFails(w) ==
    /\ work[w].step \in {"send", "remind"}
    /\ Mails(w) \/ UNCHANGED <<asks, known>>
    /\ Fault
    /\ RollsBack(w)
    /\ UNCHANGED <<sub, providerVars>>

Commits(w) ==
    /\ work[w].step = "commit"
    /\ Ends(w, work[w].draft)
    /\ known' = known \cup ({work[w].draft.link} \ {NoInvoice})
    /\ UNCHANGED <<sub, providerVars, asks, faults>>

WorkerDies(w) ==
    /\ work[w].step # "idle"
    /\ Fault
    /\ RollsBack(w)
    /\ UNCHANGED <<sub, providerVars, known, asks>>

Renew(w) ==
    \/ Lists(w) \/ Guards(w) \/ Inserts(w) \/ ClaimsInvoice(w) \/ ReadsLink(w) \/ FindsPaid(w)
    \/ Invoices(w) \/ Stores(w) \/ ClaimsMail(w) \/ SkipsMail(w) \/ Sends(w) \/ Commits(w)

WorkerNext(w) ==
    Renew(w) \/ Suspends(w) \/ InvoiceRefused(w) \/ SendFails(w) \/ WorkerDies(w)

-----------------------------------------------------------------------------
(* A request for the invoice of the enrollment *)

RequestKeeps == UNCHANGED <<private, sub, work, hook, post, mailVars>>

To(p, s, i) == reissue' = [reissue EXCEPT ![p] = [step |-> s, invoice |-> i]]

ClaimsReinvoice(p) ==
    /\ reissue[p].step = "idle"
    /\ RowFree
    /\ Reinvoicable(row)
    /\ row' = Claimed(row)
    /\ To(p, "provider", NoInvoice)
    /\ UNCHANGED <<providerVars, known, faults>> /\ RequestKeeps

GetsInvoice(p) ==
    /\ reissue[p].step = "provider"
    /\ \/ Creates(row.order) /\ To(p, "store", created')
       \/ UNCHANGED providerVars /\ To(p, "restore", NoInvoice)
    /\ UNCHANGED <<row, known, faults>> /\ RequestKeeps

\* MarkInvoiceIssued, or RestoreFailedInvoiceClaim.
RequestEnds(p) ==
    /\ reissue[p].step \in {"store", "restore"}
    /\ RowFree
    /\ LET i == reissue[p].invoice
       IN  CASE reissue[p].step = "store" /\ row.status \in {"creating", "pending"} ->
                    row' = Issued(row, i) /\ known' = known \cup {i}
             [] reissue[p].step = "restore" /\ row.status = "creating" /\ row.link = NoInvoice ->
                    row' = [row EXCEPT !.status = "failed"] /\ UNCHANGED known
             [] OTHER -> UNCHANGED <<row, known>>
    /\ To(p, "idle", NoInvoice)
    /\ UNCHANGED <<providerVars, faults>> /\ RequestKeeps

RequestDies(p) ==
    /\ reissue[p].step # "idle"
    /\ Fault
    /\ To(p, "idle", NoInvoice)
    /\ UNCHANGED <<row, providerVars, known>> /\ RequestKeeps

RequestNext(p) == ClaimsReinvoice(p) \/ GetsInvoice(p) \/ RequestEnds(p) \/ RequestDies(p)

-----------------------------------------------------------------------------
(* Callbacks of the provider, and the mail about their outcome *)

CallbackKeeps == UNCHANGED <<private, work, reissue, post, created, known, mailVars>>

\* The callback handlers that are free to run.
Free(h) == hook[h].step = "idle"

Tells(h, s) == hook' = [hook EXCEPT ![h] = [step |-> "claim", of |-> s]]

\* The parent pays a link.
Pays(i) ==
    /\ i \in known
    /\ invoices[i].state = "open"
    /\ invoices' = [invoices EXCEPT ![i].state = "paid"]
    /\ UNCHANGED <<sub, row, hook, faults>> /\ CallbackKeeps

\* A success callback: the merchant order finds the row, the reference must be
\* the one the row expects.
Succeeds(i, h) ==
    /\ invoices[i].state = "paid" /\ invoices[i].order = row.order
    /\ row.status \in UnpaidStatuses \cup {"cancelled"}
    /\ row.link \in {NoInvoice, i}
    /\ SubFree /\ RowFree
    /\ Free(h)
    /\ row' = [row EXCEPT !.status = "paid"]
    /\ sub' = IF sub = "suspended" THEN "active" ELSE sub
    /\ Tells(h, "paid")
    /\ UNCHANGED <<invoices, faults>> /\ CallbackKeeps

\* A failure callback; one about an invoice the row no longer expects is a fault.
FailsPayment(i, h) ==
    /\ invoices[i].state # "none" /\ invoices[i].order = row.order
    /\ row.status \in {"pending", "creating"}
    /\ SubFree /\ RowFree
    /\ Free(h)
    /\ row' = [row EXCEPT !.status = "failed"]
    /\ Tells(h, "failed")
    /\ IF i = row.link THEN UNCHANGED faults ELSE Fault
    /\ UNCHANGED <<sub, invoices>> /\ CallbackKeeps

\* The provider repeats a callback; the outcome mail is tried again.
Repeats(h) ==
    /\ row.status \in Outcomes
    /\ SubFree /\ RowFree
    /\ Free(h)
    /\ Tells(h, row.status)
    /\ UNCHANGED <<sub, row, invoices, faults>> /\ CallbackKeeps

HookKeeps == UNCHANGED <<private, sub, work, reissue, post, providerVars, known, asks, delivered>>

HookTo(h, s) == hook' = [hook EXCEPT ![h].step = s]

\* Mutant: the mail is sent again although it is recorded.
UntoldAgain(s) == row.status = s

\* Rows ClaimOutcomeEmail matches.
Untold(s) == row.status = s /\ s \notin row.told

ClaimsOutcome(h) ==
    /\ hook[h].step = "claim"
    /\ RowFree
    /\ IF Untold(hook[h].of)
           THEN HookTo(h, "send") /\ row' = [row EXCEPT !.told = @ \cup {hook[h].of}]
           ELSE HookTo(h, "idle") /\ UNCHANGED row
    /\ UNCHANGED <<tellings, faults>> /\ HookKeeps

SendsOutcome(h) ==
    /\ hook[h].step = "send"
    /\ \/ HookTo(h, "idle") /\ tellings' = [tellings EXCEPT ![hook[h].of] = @ + 1] /\ UNCHANGED faults
       \/ /\ HookTo(h, "release")
          /\ Fault
          /\ UNCHANGED tellings \/ tellings' = [tellings EXCEPT ![hook[h].of] = @ + 1]
    /\ UNCHANGED row /\ HookKeeps

\* ReleaseOutcomeEmailClaim.
ReleasesOutcome(h) ==
    /\ hook[h].step = "release"
    /\ RowFree
    /\ HookTo(h, "idle")
    /\ row' = IF row.status = hook[h].of THEN [row EXCEPT !.told = @ \ {hook[h].of}] ELSE row
    /\ UNCHANGED <<tellings, faults>> /\ HookKeeps

HookDies(h) ==
    /\ hook[h].step # "idle"
    /\ Fault
    /\ HookTo(h, "idle")
    /\ UNCHANGED <<row, tellings>> /\ HookKeeps

HookNext(h) ==
    \/ \E i \in 1..MaxInvoices : Succeeds(i, h) \/ FailsPayment(i, h)
    \/ Repeats(h) \/ ClaimsOutcome(h) \/ SendsOutcome(h) \/ ReleasesOutcome(h) \/ HookDies(h)

-----------------------------------------------------------------------------
(* Private payment mails: dispatchPrivatePaymentEmail *)

PostKeeps == UNCHANGED <<private, sub, work, reissue, hook, providerVars, known, asks, tellings>>

PostTo(d, s, i) == post' = [post EXCEPT ![d] = [step |-> s, link |-> i]]

\* validPrivatePaymentEmail.
Postable(r) == private /\ r.status = "pending" /\ r.link # NoInvoice /\ ~Lapsed(r.link) /\ ~r.sent

\* Mutant: the claim of a dead dispatcher is never taken over.
PostClaimableFree(r) == Postable(r) /\ r.claim = None

\* Rows ListPrivatePaymentEmails and ClaimPrivatePaymentEmail match.
PostClaimable(r) == Postable(r) /\ (r.claim = None \/ r.late)

ClaimsPost(d) ==
    /\ post[d].step = "idle"
    /\ PostClaimable(row)
    /\ row' = [row EXCEPT !.claim = d, !.late = FALSE]
    /\ PostTo(d, "reread", NoInvoice)
    /\ UNCHANGED <<delivered, faults>> /\ PostKeeps

Rereads(d) ==
    /\ post[d].step = "reread"
    /\ IF Postable(row) THEN PostTo(d, "send", row.link) ELSE PostTo(d, "failed", NoInvoice)
    /\ UNCHANGED <<row, delivered, faults>> /\ PostKeeps

\* The idempotency key names the invoice, so a repeated mail is not delivered twice.
Posts(d) ==
    /\ post[d].step = "send"
    /\ delivered' = delivered \cup {post[d].link}
    /\ PostTo(d, "sent", post[d].link)
    /\ UNCHANGED <<row, faults>> /\ PostKeeps

PostFails(d) ==
    /\ post[d].step = "send"
    /\ PostTo(d, "failed", NoInvoice)
    /\ delivered' = delivered \/ delivered' = delivered \cup {post[d].link}
    /\ UNCHANGED <<row, faults>> /\ PostKeeps

\* FinishPrivatePaymentEmail matches the claim it was made with.
FinishesPost(d) ==
    /\ post[d].step \in {"sent", "failed"}
    /\ row' = IF row.status = "pending" /\ row.claim = d
                  THEN [row EXCEPT !.claim = None, !.late = FALSE, !.sent = (post[d].step = "sent")]
                  ELSE row
    /\ PostTo(d, "idle", NoInvoice)
    /\ UNCHANGED <<delivered, faults>> /\ PostKeeps

DispatcherDies(d) ==
    /\ post[d].step # "idle"
    /\ Fault
    /\ PostTo(d, "idle", NoInvoice)
    /\ UNCHANGED <<row, delivered>> /\ PostKeeps

Dispatch(d) == ClaimsPost(d) \/ Rereads(d) \/ Posts(d) \/ FinishesPost(d)

-----------------------------------------------------------------------------
(* Everything else that changes the row, and time *)

RowStepKeeps ==
    UNCHANGED <<private, work, reissue, hook, post, created, known, mailVars>>

Becomes(s) == RowFree /\ row' = [row EXCEPT !.status = s] /\ RowStepKeeps /\ UNCHANGED faults

\* ExpireDue.
Expires ==
    row.status = "pending" /\ Lapsed(row.link) /\ Becomes("expired") /\ UNCHANGED <<sub, invoices>>

\* CancelUnpaid.
Cancels == row.status \in UnpaidStatuses /\ Becomes("cancelled") /\ UNCHANGED <<sub, invoices>>

\* RecordRefund of this payment, or of an earlier one of the subscription.
Refunds ==
    /\ SubFree
    /\ sub # "cancelled"
    /\ sub' = "cancelled"
    /\ Becomes(IF row.status = "paid" THEN "refunded"
               ELSE IF row.status \in UnpaidStatuses THEN "cancelled" ELSE row.status)
    /\ UNCHANGED invoices

InvoiceLapses(i) ==
    /\ invoices[i].state = "open"
    /\ invoices' = [invoices EXCEPT ![i].state = "lapsed"]
    /\ UNCHANGED <<sub, row, faults>> /\ RowStepKeeps

Grows(r) == row' = r /\ UNCHANGED <<sub, invoices>> /\ RowStepKeeps

\* The call that claimed the invoice has died, or has answered without storing it.
ClaimAges ==
    /\ row.status = "creating" /\ ~row.old
    /\ \A p \in Parents : reissue[p].step = "idle"
    /\ RowFree
    /\ Grows([row EXCEPT !.old = TRUE])
    /\ UNCHANGED faults

\* A mail takes seconds; a dispatcher that is overtaken by the timeout is a fault.
PostClaimAges ==
    /\ row.claim # None /\ ~row.late
    /\ Grows([row EXCEPT !.late = TRUE])
    /\ IF post[row.claim].step = "idle" THEN UNCHANGED faults ELSE Fault

ReminderDue ==
    row.reminded /\ RowFree /\ Grows([row EXCEPT !.reminded = FALSE]) /\ UNCHANGED faults

RowNext ==
    \/ Expires \/ Cancels \/ Refunds \/ ClaimAges \/ PostClaimAges \/ ReminderDue
    \/ \E i \in 1..MaxInvoices : InvoiceLapses(i) \/ Pays(i)

Next ==
    \/ \E w \in Workers : WorkerNext(w)
    \/ \E p \in Parents : RequestNext(p)
    \/ \E h \in Hooks : HookNext(h)
    \/ \E d \in Dispatchers : Dispatch(d) \/ PostFails(d) \/ DispatcherDies(d)
    \/ RowNext

\* Loops and handlers keep running, time passes, and the providers answer in the
\* end.  Nobody is obliged to ask for an invoice, to pay or to cancel.
Fairness ==
    /\ \A w \in Workers : WF_vars(Renew(w)) /\ SF_vars(Invoices(w))
    /\ \A d \in Dispatchers : WF_vars(Dispatch(d)) /\ SF_vars(Posts(d))
    /\ \A p \in Parents : WF_vars(GetsInvoice(p)) /\ WF_vars(RequestEnds(p))
    /\ WF_vars(ClaimAges)
    /\ WF_vars(PostClaimAges)

Spec == Init /\ [][Next]_vars /\ Fairness

-----------------------------------------------------------------------------
(* Correctness *)

\* Of the links the parent has been given for one period or lesson, no more than
\* one can be paid or has been, and one more for each fault.
OnePayableInvoice ==
    Cardinality({i \in known : invoices[i].state \in {"open", "paid"}}) <= 1 + faults

\* The payment link of a renewal is announced once, and once more for each mail
\* whose answer was lost: a rolled back worker forgets what it has sent.
AnnouncedOnce == asks <= 1 + faults

\* While a worker invoices or announces a renewal, the subscription is not
\* cancelled and the payment is neither settled nor withdrawn.
RenewalHoldsOff ==
    \A w \in Workers :
        /\ work[w].step \in DraftSteps => sub # "cancelled"
        /\ work[w].step \in DraftSteps => row.status \notin {"paid", "cancelled", "refunded"}

\* A private invoice recorded as mailed was delivered with the link it has now,
\* also if a dispatcher was overtaken or the invoice replaced meanwhile.
SentMeansMailed == row.sent /\ row.link # NoInvoice => row.link \in delivered

\* The parent is told an outcome once, and once more for each lost answer.
OutcomeToldOnce == \A s \in Outcomes : tellings[s] <= 1 + faults

\* The link of a private lesson is mailed while it can be paid, although
\* dispatchers die and the mail provider fails again and again.
PrivateMailed ==
    \A i \in 1..MaxInvoices :
        private /\ row.status = "pending" /\ row.link = i ~>
            ~ (row.status = "pending" /\ row.link = i) \/ row.sent \/ Lapsed(i)

\* A renewal that waits for an invoice, an abandoned claim included, gets it (up
\* to the bound on invoices).
Due == ~private /\ sub = "active" /\ row.status \in {"none", "pending", "creating"}
                /\ row.link = NoInvoice

DueIsInvoiced == Due ~> ~Due \/ created = MaxInvoices

\* No renewal is invoiced twice, whatever fails: the parent is never given two
\* links for one period that can both be paid.
NeverInvoicedTwice == Cardinality({i \in known : invoices[i].state = "open"}) <= 1

=============================================================================
