------------------------ MODULE InvoiceIssuingProofs ------------------------
(***************************************************************************)
(* Theorems about InvoiceIssuing, for any number of requesters, any claim  *)
(* timeout and validity.  Everything but the last part holds whether or    *)
(* not calls are timely and failure callbacks arrive; the last part, about *)
(* the creating claim, states what it needs of them.                       *)
(***************************************************************************)
EXTENDS InvoiceIssuing, ReconciliationRowProofs, TLAPS

-----------------------------------------------------------------------------
(* Lemmas about the reconciliation row *)

\* A worker's step keeps the kind of the row it works on.
LEMMA JobStepKeepsKind ==
    ASSUME job \in Jobs, JobStep
    PROVE  job' \in Jobs /\ job'.kind = job.kind
  BY DEF JobStep, Jobs, JobKinds, JobStatuses, NoJob

-----------------------------------------------------------------------------
(* Type correctness *)

\* Nothing is counted below zero: no invoice and NULL are within the types.
LEMMA InvoiceRange ==
    /\ MaxInvoices \in Nat
    /\ NoInvoice \in 0..MaxInvoices
    /\ \A t \in Nat : t + Validity \in Nat
  BY ConstantsAssumption DEF NoInvoice

\* A call that returns keeps the record of the calls in flight well formed.
LEMMA FinishTypeOK ==
    ASSUME CallsTypeOK, NEW r \in Requesters, Finish(r)
    PROVE  CallsTypeOK'
<1> USE DEF CallsTypeOK, Finish, GoTo
<1>1. pc' \in [Requesters -> Steps]
  BY DEF Steps
<1>2. now' \in [Requesters -> Nat]
  BY DEF Null
<1>3. invoice' \in [Requesters -> 0..MaxInvoices]
  BY InvoiceRange DEF NoInvoice
<1>4. ASSUME NEW s \in Requesters, pc'[s] = "mark" PROVE invoice'[s] # NoInvoice
  BY <1>4
<1>5. QED
  BY <1>1, <1>2, <1>3, <1>4

\* So does one that moves on, unless to the step that needs an invoice.
LEMMA GoToTypeOK ==
    ASSUME CallsTypeOK, NEW r \in Requesters, NEW step \in Steps \ {"mark"},
           GoTo(r, step), UNCHANGED <<now, invoice>>
    PROVE  CallsTypeOK'
  BY DEF CallsTypeOK, GoTo

\* The steps a call can be at, other than the one that needs an invoice.
LEMMA OtherSteps ==
    {"idle", "lookup", "reread", "reinvoice", "create", "claim", "withdraw", "provider",
     "restore"} \subseteq Steps \ {"mark"}
  BY DEF Steps, ClaimHolding

\* Every step of a call keeps the variables within their types.
LEMMA CallTypeOK ==
    ASSUME TypeOK, NEW r \in Requesters, Call(r) \/ Crash(r)
    PROVE  TypeOK'
<1> USE DEF TypeOK, RowsTypeOK, ProviderTypeOK, NoInvoice, Null, rowVars, callVars,
            providerVars
<1>1. CASE Begin(r)
  <2>1. CallsTypeOK'
    <3>1. now' \in [Requesters -> Nat]
      BY <1>1 DEF Begin, CallsTypeOK
    <3>2. QED
      BY <1>1, <3>1, OtherSteps DEF Begin, CallsTypeOK, GoTo
  <2>2. QED
    BY <1>1, <2>1 DEF Begin, TransactionStatuses
<1>2. CASE Lookup(r)
  <2>1. CallsTypeOK'
    BY <1>2, FinishTypeOK, GoToTypeOK, OtherSteps DEF Lookup
  <2>2. QED
    BY <1>2, <2>1 DEF Lookup
<1>3. CASE Reread(r)
  <2>1. CallsTypeOK'
    BY <1>3, FinishTypeOK, GoToTypeOK, OtherSteps DEF Reread
  <2>2. QED
    BY <1>3, <2>1 DEF Reread
<1>4. CASE Reinvoice(r)
  <2>1. CallsTypeOK'
    BY <1>4, FinishTypeOK, GoToTypeOK, OtherSteps DEF Reinvoice
  <2>2. claimedAt' \in Nat
    BY <1>4 DEF Reinvoice, CallsTypeOK
  <2>3. QED
    BY <1>4, <2>1, <2>2, InvoiceRange DEF Reinvoice, TransactionStatuses
<1>5. CASE Create(r)
  <2>1. CallsTypeOK'
    BY <1>5, GoToTypeOK, OtherSteps DEF Create
  <2>2. QED
    BY <1>5, <2>1 DEF Create, TransactionStatuses
<1>6. CASE Claim(r)
  <2>1. CallsTypeOK'
    BY <1>6, FinishTypeOK, GoToTypeOK, OtherSteps DEF Claim
  <2>2. claimedAt' \in Nat
    BY <1>6 DEF Claim, CallsTypeOK
  <2>3. QED
    BY <1>6, <2>1, <2>2 DEF Claim, TransactionStatuses
<1>7. CASE InvoiceCreated(r)
  <2>1. created' \in 1..MaxInvoices
    BY <1>7, ConstantsAssumption DEF InvoiceCreated
  <2>2. CallsTypeOK'
    BY <1>7, <2>1 DEF InvoiceCreated, CallsTypeOK, GoTo, Steps, ClaimHolding
  <2>3. QED
    BY <1>7, <2>1, <2>2 DEF InvoiceCreated
<1>8. CASE InvoiceRefused(r)
  <2>1. CallsTypeOK'
    BY <1>8, GoToTypeOK, OtherSteps DEF InvoiceRefused
  <2>2. QED
    BY <1>8, <2>1 DEF InvoiceRefused
<1>9. CASE Restore(r)
  <2>1. CallsTypeOK'
    BY <1>9, FinishTypeOK DEF Restore
  <2>2. QED
    BY <1>9, <2>1 DEF Restore, TransactionStatuses
<1>10. CASE MarkIssued(r)
  <2>1. CallsTypeOK'
    BY <1>10, GoToTypeOK, OtherSteps DEF MarkIssued
  <2>2. CASE Issuable
    <3>1. /\ status' = "pending" /\ link' = invoice[r] /\ intent' = invoice[r]
          /\ expiresAt' = now[r] + Validity /\ claimedAt' = 0
          /\ served' = served \cup {invoice[r]}
      BY <1>10, <2>2, Zenon DEF MarkIssued, InvoiceExpiresAt
    <3>2. hasSub' \in BOOLEAN
      BY <1>10, Zenon DEF MarkIssued
    <3>3. invoice[r] \in 1..MaxInvoices /\ now[r] \in Nat
      BY <1>10 DEF MarkIssued, CallsTypeOK
    <3>4. /\ status' \in TransactionStatuses \cup {"none"}
          /\ expiresAt' \in Nat
          /\ served' \subseteq 1..MaxInvoices
      BY <3>1, <3>3, InvoiceRange DEF TransactionStatuses
    <3>5. UNCHANGED <<sub, credits, job, created, paid, clock>>
      BY <1>10 DEF MarkIssued
    <3>6. QED
      BY <2>1, <3>1, <3>2, <3>3, <3>4, <3>5
  <2>3. CASE ~Issuable
    BY <1>10, <2>1, <2>3 DEF MarkIssued
  <2>4. QED
    BY <2>2, <2>3
<1>11. CASE WithdrawRelease(r)
  <2>1. CallsTypeOK'
    BY <1>11, FinishTypeOK DEF WithdrawRelease
  <2>2. QED
    BY <1>11, <2>1, JobsClosed DEF WithdrawRelease
<1>12. CASE Crash(r)
  <2>1. CallsTypeOK'
    BY <1>12, FinishTypeOK DEF Crash
  <2>2. QED
    BY <1>12, <2>1 DEF Crash
<1>13. QED
  BY <1>1, <1>2, <1>3, <1>4, <1>5, <1>6, <1>7, <1>8, <1>9, <1>10, <1>11, <1>12 DEF Call

\* Every type holds before the first request.
LEMMA InitTypeOK == Init => TypeOK
<1> SUFFICES ASSUME Init PROVE TypeOK
  OBVIOUS
<1>1. CallsTypeOK
  <2>1. pc \in [Requesters -> Steps]
    BY DEF Init, Steps
  <2>2. invoice \in [Requesters -> 0..MaxInvoices]
    BY InvoiceRange DEF Init
  <2>3. QED
    BY <2>1, <2>2 DEF Init, CallsTypeOK, Null
<1>2. job \in Jobs
  BY DEF Init, Jobs
<1>3. QED
  BY <1>1, <1>2, InvoiceRange
     DEF Init, TypeOK, RowsTypeOK, ProviderTypeOK, TransactionStatuses, NoInvoice, Null

\* Every step that is not one of a call keeps the types too.
LEMMA OthersKeepTypeOK ==
    ASSUME TypeOK, [Next]_vars, ~ \E r \in Requesters : Call(r) \/ Crash(r)
    PROVE  TypeOK'
<1>1. UNCHANGED callVars
  BY DEF Next, vars, PaidCallback, Pay, ReplayedCallback, FailedCallback, CancelUnpaid,
         ExpireDue, RecordRefund, JobStep, Tick
<1>2. CallsTypeOK'
  BY <1>1 DEF TypeOK, CallsTypeOK, callVars
<1> USE DEF TypeOK, RowsTypeOK, ProviderTypeOK, rowVars, providerVars
<1>3. ASSUME NEW i \in 1..MaxInvoices, PaidCallback(i) PROVE TypeOK'
  BY <1>2, <1>3, JobsClosed DEF PaidCallback, TransactionStatuses, SubscriptionPaid
<1>4. ASSUME NEW i \in 1..MaxInvoices, Pay(i) PROVE TypeOK'
  BY <1>2, <1>4 DEF Pay
<1>5. CASE ReplayedCallback
  BY <1>2, <1>5, JobsClosed DEF ReplayedCallback
<1>6. CASE FailedCallback
  BY <1>2, <1>6, JobsClosed DEF FailedCallback, TransactionStatuses
<1>7. CASE CancelUnpaid
  BY <1>2, <1>7, JobsClosed DEF CancelUnpaid, TransactionStatuses
<1>8. CASE ExpireDue
  BY <1>2, <1>8, JobsClosed DEF ExpireDue, TransactionStatuses
<1>9. CASE RecordRefund
  BY <1>2, <1>9, JobsClosed DEF RecordRefund, TransactionStatuses, SubscriptionRefunded
<1>10. CASE JobStep
  BY <1>2, <1>10, JobStepKeepsKind DEF JobStep
<1>11. CASE Tick
  BY <1>2, <1>11 DEF Tick
<1>12. CASE UNCHANGED vars
  BY <1>2, <1>12 DEF vars
<1>13. QED
  BY <1>3, <1>4, <1>5, <1>6, <1>7, <1>8, <1>9, <1>10, <1>11, <1>12 DEF Next

\* Type correctness: every behaviour keeps every variable within its type.
THEOREM TypeCorrect == Spec => []TypeOK
<1>1. Init => TypeOK
  BY InitTypeOK
<1>2. TypeOK /\ [Next]_vars => TypeOK'
  BY CallTypeOK, OthersKeepTypeOK
<1>3. QED
  BY <1>1, <1>2, PTL DEF Spec

-----------------------------------------------------------------------------
(* The inductive invariant *)

\* A row whose payment is still open, or not there yet.
OpenStatuses == UnpaidStatuses \cup {"none"}

\* Until money is recorded the row expects exactly the invoice its link opens, and a
\* row that does not exist shows none: this is what makes a row ClaimInvoice takes
\* over expect no invoice, and the callback of the current link one it accepts.
IntentFollowsLink ==
    /\ status \notin {"paid", "refunded"} => intent = link
    /\ status = "none" => link = NoInvoice

\* Only a subscription the row names was ever activated or cancelled: this is
\* what lets a refund find the subscription it has to cancel.
OnlyLinkedSubscriptionMoves == sub \in {"active", "cancelled"} => hasSub

IInv ==
    /\ TypeOK
    /\ PaidOwesActivation
    /\ CreditedOnce
    /\ RecordedPaymentIsReal
    /\ SubscriptionFollowsPayment
    /\ CreatingHasNoLink
    /\ IntentFollowsLink
    /\ OnlyLinkedSubscriptionMoves

\* What a step of a call can do to the rows: it never touches the money, moves
\* the row only among unpaid statuses, writes the reference and the subscription
\* id only of a row it leaves unpaid, and only withdraws from the job.
LEMMA CallEffect ==
    ASSUME TypeOK, NEW r \in Requesters, Call(r) \/ Crash(r)
    PROVE  /\ UNCHANGED <<credits, paid>>
           /\ status' = status \/ (status \in OpenStatuses /\ status' \in UnpaidStatuses)
           /\ <<link, intent, hasSub>>' = <<link, intent, hasSub>> \/ status' \in UnpaidStatuses
           /\ hasSub => hasSub'
           /\ sub' = sub \/ (sub = "none" /\ sub' = "pending")
           /\ job' = job \/ job' = CancelPendingRelease(job)
<1> USE DEF OpenStatuses, UnpaidStatuses, rowVars, callVars, providerVars
<1>1. CASE Begin(r)
  BY <1>1 DEF Begin
<1>2. CASE Lookup(r)
  BY <1>2 DEF Lookup
<1>3. CASE Reread(r)
  BY <1>3 DEF Reread
<1>4. CASE Reinvoice(r)
  BY <1>4 DEF Reinvoice, Reinvoicable
<1>5. CASE Create(r)
  BY <1>5 DEF Create
<1>6. CASE Claim(r)
  BY <1>6 DEF Claim, Claimable
<1>7. CASE InvoiceCreated(r)
  BY <1>7 DEF InvoiceCreated
<1>8. CASE InvoiceRefused(r)
  BY <1>8 DEF InvoiceRefused
<1>9. CASE Restore(r)
  BY <1>9 DEF Restore
<1>10. CASE MarkIssued(r)
  <2>1. hasSub => hasSub'
    BY <1>10, Zenon DEF MarkIssued
  <2>2. CASE Issuable
    BY <1>10, <2>1, <2>2 DEF MarkIssued, Issuable
  <2>3. CASE ~Issuable
    BY <1>10, <2>3 DEF MarkIssued
  <2>4. QED
    BY <2>2, <2>3
<1>11. CASE WithdrawRelease(r)
  BY <1>11 DEF WithdrawRelease
<1>12. CASE Crash(r)
  BY <1>12 DEF Crash
<1>13. QED
  BY <1>1, <1>2, <1>3, <1>4, <1>5, <1>6, <1>7, <1>8, <1>9, <1>10, <1>11, <1>12 DEF Call

\* What the same step does to the link and the reference of the row.
LEMMA CallKeepsLinkFacts ==
    ASSUME TypeOK, CreatingHasNoLink, IntentFollowsLink,
           NEW r \in Requesters, Call(r) \/ Crash(r)
    PROVE  CreatingHasNoLink' /\ IntentFollowsLink'
<1> USE DEF CreatingHasNoLink, IntentFollowsLink, OpenStatuses, UnpaidStatuses, rowVars, callVars,
            providerVars
<1>1. CASE Begin(r)
  BY <1>1 DEF Begin
<1>2. CASE Reinvoice(r)
  BY <1>2 DEF Reinvoice, Reinvoicable
<1>3. CASE Create(r)
  BY <1>3 DEF Create
<1>4. CASE Claim(r)
  BY <1>4 DEF Claim, Claimable
<1>5. CASE Restore(r)
  BY <1>5 DEF Restore
<1>6. CASE MarkIssued(r)
  <2>1. CASE Issuable
    <3>1. status' = "pending" /\ link' = invoice[r] /\ intent' = invoice[r]
      BY <1>6, <2>1, Zenon DEF MarkIssued
    <3>2. QED
      BY <3>1
  <2>2. CASE ~Issuable
    BY <1>6, <2>2 DEF MarkIssued
  <2>3. QED
    BY <2>1, <2>2
<1>7. CASE Lookup(r) \/ Reread(r) \/ InvoiceCreated(r) \/ InvoiceRefused(r)
             \/ WithdrawRelease(r) \/ Crash(r)
  BY <1>7 DEF Lookup, Reread, InvoiceCreated, InvoiceRefused, WithdrawRelease, Crash
<1>8. QED
  BY <1>1, <1>2, <1>3, <1>4, <1>5, <1>6, <1>7 DEF Call

\* The invariant holds before the first request.
LEMMA InitEstablishes == Init => IInv
<1> SUFFICES ASSUME Init PROVE IInv
  OBVIOUS
<1>1. TypeOK
  BY InitTypeOK
<1>2. QED
  BY <1>1 DEF IInv, Init, PaidOwesActivation, CreditedOnce, RecordedPaymentIsReal,
              SubscriptionFollowsPayment, CreatingHasNoLink, IntentFollowsLink,
              OnlyLinkedSubscriptionMoves, OpenStatuses, UnpaidStatuses, NoInvoice

\* Steps of calls keep the invariant: they never reach a paid or refunded row.
LEMMA CallKeepsIInv ==
    ASSUME IInv, NEW r \in Requesters, Call(r) \/ Crash(r)
    PROVE  IInv'
<1> USE DEF IInv
<1>1. TypeOK'
  BY CallTypeOK
<1>2. /\ UNCHANGED <<credits, paid>>
      /\ status' = status \/ (status \in OpenStatuses /\ status' \in UnpaidStatuses)
      /\ <<link, intent, hasSub>>' = <<link, intent, hasSub>> \/ status' \in UnpaidStatuses
      /\ hasSub => hasSub'
      /\ sub' = sub \/ (sub = "none" /\ sub' = "pending")
      /\ job' = job \/ job' = CancelPendingRelease(job)
  BY CallEffect
<1>3. PaidOwesActivation'
  BY <1>2, ActivationSurvives
     DEF PaidOwesActivation, TypeOK, RowsTypeOK, OpenStatuses, UnpaidStatuses
<1>4. CreditedOnce'
  BY <1>2 DEF CreditedOnce, OpenStatuses, UnpaidStatuses
<1>5. RecordedPaymentIsReal'
  BY <1>2 DEF RecordedPaymentIsReal, OpenStatuses, UnpaidStatuses
<1>6. SubscriptionFollowsPayment'
  BY <1>2 DEF SubscriptionFollowsPayment, OpenStatuses, UnpaidStatuses
<1>7. CreatingHasNoLink' /\ IntentFollowsLink'
  BY CallKeepsLinkFacts
<1>8. OnlyLinkedSubscriptionMoves'
  BY <1>2 DEF OnlyLinkedSubscriptionMoves
<1>9. QED
  BY <1>1, <1>3, <1>4, <1>5, <1>6, <1>7, <1>8

\* Steps of everybody else: callbacks, cancellation, expiry, refunds, workers.
LEMMA OthersKeepIInv ==
    ASSUME IInv, [Next]_vars, ~ \E r \in Requesters : Call(r) \/ Crash(r)
    PROVE  IInv'
<1> DEFINE Parts ==
      /\ PaidOwesActivation
      /\ CreditedOnce
      /\ RecordedPaymentIsReal
      /\ SubscriptionFollowsPayment
      /\ CreatingHasNoLink
      /\ IntentFollowsLink
      /\ OnlyLinkedSubscriptionMoves
<1>1. TypeOK'
  BY OthersKeepTypeOK DEF IInv
<1>2. SUFFICES Parts'
  BY <1>1 DEF IInv
<1>3. job \in Jobs /\ credits \in Nat
  BY DEF IInv, TypeOK, RowsTypeOK
<1> USE DEF IInv, PaidOwesActivation, CreditedOnce, RecordedPaymentIsReal,
            SubscriptionFollowsPayment, CreatingHasNoLink, IntentFollowsLink,
            OnlyLinkedSubscriptionMoves, OpenStatuses, UnpaidStatuses, rowVars, callVars,
            providerVars
<1>4. ASSUME NEW i \in 1..MaxInvoices, PaidCallback(i) PROVE Parts'
  BY <1>3, <1>4, ActivationSurvives DEF PaidCallback, Settleable, Confirms, SubscriptionPaid
<1>5. ASSUME NEW i \in 1..MaxInvoices, Pay(i) PROVE Parts'
  BY <1>5 DEF Pay
<1>6. CASE ReplayedCallback
  BY <1>3, <1>6, ActivationSurvives DEF ReplayedCallback
<1>7. CASE FailedCallback
  BY <1>7 DEF FailedCallback
<1>8. CASE CancelUnpaid
  BY <1>8 DEF CancelUnpaid
<1>9. CASE ExpireDue
  BY <1>9 DEF ExpireDue
<1>10. CASE RecordRefund
  BY <1>10 DEF RecordRefund, SubscriptionRefunded
<1>11. CASE JobStep
  BY <1>3, <1>11, JobStepKeepsKind DEF JobStep
<1>12. CASE Tick
  BY <1>12 DEF Tick
<1>13. CASE UNCHANGED vars
  BY <1>13 DEF vars
<1>14. QED
  BY <1>4, <1>5, <1>6, <1>7, <1>8, <1>9, <1>10, <1>11, <1>12, <1>13 DEF Next

\* The inductive invariant holds throughout, for every number of racing calls and
\* whatever the clock does to them.
THEOREM Invariant == Spec => []IInv
<1>1. Init => IInv
  BY InitEstablishes
<1>2. IInv /\ [Next]_vars => IInv'
  BY CallKeepsIInv, OthersKeepIInv
<1>3. QED
  BY <1>1, <1>2, PTL DEF Spec

-----------------------------------------------------------------------------
(* The promises *)

\* Whatever races for the row, a paid transaction owes Academic an activation or
\* has had it acknowledged.
THEOREM ActivationOwed == Spec => []PaidOwesActivation
  BY Invariant, PTL DEF IInv

\* The wallet is credited exactly once for a recorded payment.
THEOREM SingleCredit == Spec => []CreditedOnce
  BY Invariant, PTL DEF IInv

\* A recorded payment names an invoice the provider was really paid for.
THEOREM RealPayment == Spec => []RecordedPaymentIsReal
  BY Invariant, PTL DEF IInv

\* The subscription runs exactly while the payment that opened it stands.
THEOREM SubscriptionMatches == Spec => []SubscriptionFollowsPayment
  BY Invariant, PTL DEF IInv

\* A row being re-issued serves no link and expects no reference.
THEOREM NoLinkWhileCreating == Spec => []CreatingHasNoLink
  BY Invariant, PTL DEF IInv

\* Money received for the link the row shows is accepted whatever became of the row:
\* it still expects that invoice, and only a settled row refuses a payment.
THEOREM CurrentLinkAccepted == Spec => []CurrentLinkHonoured
<1>1. IInv => CurrentLinkHonoured
  <2> SUFFICES ASSUME IInv, link \in paid, status \notin {"paid", "refunded"}
               PROVE  Settleable /\ Confirms(link)
    BY DEF CurrentLinkHonoured
  <2>1. intent = link
    BY DEF IInv, IntentFollowsLink
  <2>2. link # NoInvoice
    BY DEF IInv, TypeOK, ProviderTypeOK, NoInvoice
  <2>3. status \in UnpaidStatuses \cup {"cancelled"}
    BY <2>2 DEF IInv, TypeOK, RowsTypeOK, TransactionStatuses, UnpaidStatuses,
                IntentFollowsLink
  <2>4. QED
    BY <2>1, <2>3 DEF Settleable, Confirms
<1>2. QED
  BY <1>1, Invariant, PTL

-----------------------------------------------------------------------------
(* The payment implements its outcome *)

\* Every step is a withdrawal, a settlement or a refund of the payment, or
\* invisible: in particular no call that is still in flight opens a withdrawn or
\* settled payment again.
LEMMA StepImplements ==
    ASSUME IInv, [Next]_vars
    PROVE  [Payment!Next]_<<Outcome, credits>>
<1> USE DEF Outcome, UnpaidStatuses, rowVars, callVars, providerVars
<1>1. ASSUME NEW r \in Requesters, Call(r) \/ Crash(r)
      PROVE  UNCHANGED <<Outcome, credits>>
  BY <1>1, CallEffect DEF IInv, OpenStatuses
<1>2. ASSUME NEW i \in 1..MaxInvoices, PaidCallback(i) PROVE Payment!Settle
  BY <1>2 DEF PaidCallback, Settleable, Payment!Settle
<1>3. CASE CancelUnpaid
  BY <1>3 DEF CancelUnpaid, Payment!Withdraw, Payment!Next
<1>4. CASE RecordRefund
  BY <1>4 DEF RecordRefund, Payment!Refund, Payment!Next
<1>5. CASE FailedCallback \/ ExpireDue
  BY <1>5 DEF FailedCallback, ExpireDue
<1>6. CASE ReplayedCallback \/ JobStep \/ Tick \/ \E i \in 1..MaxInvoices : Pay(i)
  BY <1>6 DEF ReplayedCallback, JobStep, Tick, Pay
<1>7. CASE UNCHANGED vars
  BY <1>7 DEF vars
<1>8. QED
  BY <1>1, <1>2, <1>3, <1>4, <1>5, <1>6, <1>7 DEF Next, Payment!Next

\* The detailed payment implements the abstract one.
THEOREM Refinement == Spec => ImplementsOutcome
<1>1. Init => Payment!Init
  BY DEF Init, Payment!Init, Outcome
<1>2. IInv /\ [Next]_vars => [Payment!Next]_<<Outcome, credits>>
  BY StepImplements
<1>3. QED
  BY <1>1, <1>2, Invariant, PTL DEF Spec, ImplementsOutcome, Payment!Spec, Payment!outcomeVars

-----------------------------------------------------------------------------
(* What the creating claim guarantees when every call answers before its   *)
(* claim times out, the provider sends no failure callbacks and an invoice *)
(* stays payable at least as long as a claim.  A failure callback names no *)
(* invoice, and so may fail a row that is being created for a new one.     *)

ClaimPremises == Timely /\ ~FailureCallbacks /\ ClaimTimeout <= Validity

\* Statuses no invoice is created for again.
SettledStatuses == {"paid", "cancelled", "refunded"}

(* The invariant of the claim *)

\* Every call in flight is younger than a claim timeout, and started after 0.
CallsAreTimely ==
    /\ clock >= 1
    /\ \A r \in Requesters : pc[r] # "idle" =>
         1 <= now[r] /\ now[r] <= clock /\ clock < now[r] + ClaimTimeout

\* A call that holds the claim still owns the creating row, unless the payment
\* has been settled or withdrawn meanwhile.
HolderOwnsRow ==
    \A r \in Requesters : pc[r] \in ClaimHolding =>
        (status = "creating" /\ claimedAt = now[r]) \/ status \in SettledStatuses

\* A call that has stored its link, and has a seat release left to withdraw, is
\* younger than the link.
StoredLinkIsLive ==
    \A r \in Requesters : pc[r] = "withdraw" =>
        (status = "pending" /\ link # NoInvoice /\ expiresAt >= now[r] + Validity)
            \/ status \in SettledStatuses

\* An expired row is past its expiry, and a failed one never had a link.
UnpaidRowsAreDead ==
    /\ status = "expired" => expiresAt <= clock
    /\ status = "failed" => link = NoInvoice

ClaimInv ==
    /\ CallsAreTimely
    /\ HolderOwnsRow
    /\ ExclusiveCreation
    /\ StoredLinkIsLive
    /\ UnpaidRowsAreDead
    /\ ExpiredKeepsRelease

LEMMA InitClaimInv == Init => ClaimInv
  BY DEF Init, ClaimInv, CallsAreTimely, HolderOwnsRow, ExclusiveCreation, StoredLinkIsLive,
         UnpaidRowsAreDead, ExpiredKeepsRelease, ClaimHolding

\* Time and the calls' own steps keep the calls timely.
LEMMA CallsStayTimely ==
    ASSUME ClaimPremises, TypeOK, CallsAreTimely, [Next]_vars
    PROVE  CallsAreTimely'
<1> USE DEF TypeOK, CallsTypeOK, ProviderTypeOK, CallsAreTimely, rowVars, callVars, providerVars,
            ClaimPremises
<1>1. ASSUME NEW r \in Requesters, Finish(r), UNCHANGED clock PROVE CallsAreTimely'
  BY <1>1 DEF Finish, GoTo
<1>2. ASSUME NEW r \in Requesters, NEW step, pc[r] # "idle", GoTo(r, step), UNCHANGED <<now, clock>>
      PROVE  CallsAreTimely'
  BY <1>2 DEF GoTo
<1>3. ASSUME NEW r \in Requesters, Begin(r) PROVE CallsAreTimely'
  BY <1>3, ConstantsAssumption DEF Begin, GoTo
<1>4. ASSUME NEW r \in Requesters, Call(r) \/ Crash(r) PROVE CallsAreTimely'
  <2>1. CASE Begin(r)
    BY <2>1, <1>3
  <2>2. CASE Lookup(r)
    BY <2>2, <1>1, <1>2 DEF Lookup
  <2>3. CASE Reread(r)
    BY <2>3, <1>1, <1>2 DEF Reread
  <2>4. CASE Reinvoice(r)
    BY <2>4, <1>1, <1>2 DEF Reinvoice
  <2>5. CASE Create(r)
    BY <2>5, <1>2 DEF Create
  <2>6. CASE Claim(r)
    BY <2>6, <1>1, <1>2 DEF Claim
  <2>7. CASE InvoiceCreated(r)
    BY <2>7, <1>2 DEF InvoiceCreated
  <2>8. CASE InvoiceRefused(r)
    BY <2>8, <1>2 DEF InvoiceRefused
  <2>9. CASE Restore(r)
    BY <2>9, <1>1 DEF Restore
  <2>10. CASE MarkIssued(r)
    BY <2>10, <1>2 DEF MarkIssued
  <2>11. CASE WithdrawRelease(r)
    BY <2>11, <1>1 DEF WithdrawRelease
  <2>12. CASE Crash(r)
    BY <2>12, <1>1 DEF Crash
  <2>13. QED
    BY <1>4, <2>1, <2>2, <2>3, <2>4, <2>5, <2>6, <2>7, <2>8, <2>9, <2>10, <2>11, <2>12 DEF Call
<1>5. CASE Tick
  BY <1>5 DEF Tick
<1>6. CASE UNCHANGED <<callVars, clock>>
  BY <1>6
<1>7. CASE ~ Tick /\ ~ \E r \in Requesters : Call(r) \/ Crash(r)
  BY <1>6, <1>7 DEF Next, vars, PaidCallback, Pay, ReplayedCallback, FailedCallback,
                    CancelUnpaid, ExpireDue, RecordRefund, JobStep
<1>8. QED
  BY <1>4, <1>5, <1>7

\* A row may only be claimed when no call holds it and none has just stored a
\* link on it: this is where timeliness rules a takeover of a live claim out.
LEMMA ClaimableMeansFree ==
    ASSUME ClaimPremises, TypeOK, ClaimInv, NEW r \in Requesters, pc[r] # "idle",
           Claimable(now[r]) \/ Reinvoicable(now[r]),
           NEW s \in Requesters
    PROVE  pc[s] \notin ClaimHolding \cup {"withdraw"}
<1> USE DEF TypeOK, RowsTypeOK, CallsTypeOK, ProviderTypeOK, ClaimInv, CallsAreTimely, ClaimPremises,
            Claimable, Reinvoicable, StaleClaim, NoInvoice, Null, SettledStatuses
<1>1. ASSUME pc[s] \in ClaimHolding PROVE FALSE
  <2>1. status = "creating" /\ claimedAt = now[s]
    BY <1>1 DEF HolderOwnsRow
  <2>2. claimedAt = 0 \/ claimedAt + ClaimTimeout <= now[r]
    BY <2>1
  <2>3. pc[s] # "idle"
    BY <1>1 DEF ClaimHolding
  <2>4. 1 <= now[s] /\ clock < now[s] + ClaimTimeout /\ now[r] <= clock
    BY <2>3
  <2>5. now[r] \in Nat /\ now[s] \in Nat /\ clock \in Nat /\ ClaimTimeout \in Nat
    BY ConstantsAssumption
  <2>6. QED
    BY <2>1, <2>2, <2>4, <2>5
<1>2. ASSUME pc[s] = "withdraw" PROVE FALSE
  <2>1. status = "pending" /\ link # NoInvoice /\ expiresAt >= now[s] + Validity
    BY <1>2 DEF StoredLinkIsLive
  <2>2. expiresAt <= now[r]
    BY <2>1
  <2>3. 1 <= now[s] /\ clock < now[s] + ClaimTimeout /\ now[r] <= clock
    BY <1>2
  <2>4. /\ now[r] \in Nat /\ now[s] \in Nat /\ clock \in Nat /\ expiresAt \in Nat
        /\ ClaimTimeout \in Nat /\ Validity \in Nat
    BY ConstantsAssumption
  <2>5. QED
    BY <2>1, <2>2, <2>3, <2>4
<1>3. QED
  BY <1>1, <1>2

ClaimFacts ==
    /\ HolderOwnsRow
    /\ ExclusiveCreation
    /\ StoredLinkIsLive
    /\ UnpaidRowsAreDead
    /\ ExpiredKeepsRelease

\* Steps of a call keep what the claim guarantees.
LEMMA CallKeepsClaimFacts ==
    ASSUME ClaimPremises, IInv, ClaimInv, NEW r \in Requesters, Call(r) \/ Crash(r)
    PROVE  ClaimFacts'
<1>0. /\ CallsTypeOK /\ pc \in [Requesters -> Steps] /\ job \in Jobs /\ clock \in Nat
      /\ expiresAt \in Nat
  BY DEF IInv, TypeOK, RowsTypeOK, CallsTypeOK, ProviderTypeOK
<1> USE DEF ClaimInv, ClaimFacts, HolderOwnsRow, ExclusiveCreation, StoredLinkIsLive,
            UnpaidRowsAreDead, ExpiredKeepsRelease, SettledStatuses, ClaimHolding,
            rowVars, callVars, providerVars
<1>1. CASE Begin(r)
  BY <1>0, <1>1 DEF Begin, GoTo, CallsTypeOK
<1>2. CASE Lookup(r)
  BY <1>0, <1>2 DEF Lookup, Finish, GoTo, CallsTypeOK
<1>3. CASE Reread(r)
  BY <1>0, <1>3 DEF Reread, Finish, GoTo, CallsTypeOK
<1>4. CASE Reinvoice(r)
  <2>1. CASE Reinvoicable(now[r])
    <3>1. \A s \in Requesters : pc[s] \notin ClaimHolding \cup {"withdraw"}
      BY <1>4, <2>1, ClaimableMeansFree DEF Reinvoice, IInv
    <3>2. QED
      BY <1>0, <1>4, <2>1, <3>1 DEF Reinvoice, GoTo, CallsTypeOK
  <2>2. CASE ~Reinvoicable(now[r])
    BY <1>0, <1>4, <2>2 DEF Reinvoice, Finish, GoTo, CallsTypeOK
  <2>3. QED
    BY <2>1, <2>2
<1>5. CASE Create(r)
  BY <1>0, <1>5 DEF Create, GoTo, CallsTypeOK
<1>6. CASE Claim(r)
  <2>1. CASE Claimable(now[r])
    <3>1. \A s \in Requesters : pc[s] \notin ClaimHolding \cup {"withdraw"}
      BY <1>6, <2>1, ClaimableMeansFree DEF Claim, IInv
    <3>2. QED
      BY <1>0, <1>6, <2>1, <3>1 DEF Claim, GoTo, CallsTypeOK
  <2>2. CASE ~Claimable(now[r])
    BY <1>0, <1>6, <2>2 DEF Claim, Finish, GoTo, CallsTypeOK
  <2>3. QED
    BY <2>1, <2>2
<1>7. CASE InvoiceCreated(r)
  BY <1>0, <1>7 DEF InvoiceCreated, GoTo, CallsTypeOK
<1>8. CASE InvoiceRefused(r)
  BY <1>0, <1>8 DEF InvoiceRefused, GoTo, CallsTypeOK
<1>9. CASE Restore(r)
  <2>1. \A s \in Requesters : pc[s] \in ClaimHolding => s = r
    BY <1>9 DEF Restore
  <2>2. QED
    BY <1>0, <1>9, <2>1 DEF Restore, Finish, GoTo, CallsTypeOK
<1>10. CASE MarkIssued(r)
  <2>1. \A s \in Requesters : pc[s] \in ClaimHolding => s = r
    BY <1>10 DEF MarkIssued
  <2>2. CASE Issuable
    <3>1. status = "creating"
      BY <1>10, <2>2 DEF MarkIssued, Issuable
    <3>2. /\ status' = "pending" /\ link' = invoice[r] /\ expiresAt' = now[r] + Validity
          /\ UNCHANGED <<now, job, clock>> /\ pc' = [pc EXCEPT ![r] = "withdraw"]
      BY <1>10, <2>2, Zenon DEF MarkIssued, InvoiceExpiresAt, GoTo
    <3>3. invoice[r] # NoInvoice /\ now[r] \in Nat
      BY <1>0, <1>10 DEF MarkIssued, CallsTypeOK
    <3>4. \A s \in Requesters : pc[s] # "withdraw"
      BY <3>1
    <3>5. QED
      BY <1>0, <2>1, <3>2, <3>3, <3>4, ConstantsAssumption
  <2>3. CASE ~Issuable
    <3>1. status \in SettledStatuses
      BY <1>10, <2>3 DEF MarkIssued, Issuable
    <3>2. QED
      BY <1>0, <1>10, <2>3, <3>1 DEF MarkIssued, GoTo
  <2>4. QED
    BY <2>2, <2>3
<1>11. CASE WithdrawRelease(r)
  BY <1>0, <1>11 DEF WithdrawRelease, Finish, GoTo, CallsTypeOK
<1>12. CASE Crash(r)
  BY <1>0, <1>12 DEF Crash, Finish, GoTo, CallsTypeOK
<1>13. QED
  BY <1>1, <1>2, <1>3, <1>4, <1>5, <1>6, <1>7, <1>8, <1>9, <1>10, <1>11, <1>12 DEF Call

\* So do the steps of everybody else.
LEMMA OthersKeepClaimFacts ==
    ASSUME ClaimPremises, IInv, ClaimInv, [Next]_vars,
           ~ \E r \in Requesters : Call(r) \/ Crash(r)
    PROVE  ClaimFacts'
<1>0. /\ clock \in Nat /\ expiresAt \in Nat /\ job \in Jobs
      /\ now \in [Requesters -> Nat] /\ Validity \in Nat /\ ClaimTimeout \in Nat
  BY ConstantsAssumption DEF IInv, TypeOK, RowsTypeOK, CallsTypeOK, ProviderTypeOK
<1>1. UNCHANGED callVars
  BY DEF Next, vars, PaidCallback, Pay, ReplayedCallback, FailedCallback, CancelUnpaid,
         ExpireDue, RecordRefund, JobStep, Tick
<1> USE DEF ClaimFacts, HolderOwnsRow, ExclusiveCreation, StoredLinkIsLive,
            UnpaidRowsAreDead, ExpiredKeepsRelease, SettledStatuses, UnpaidStatuses,
            rowVars, callVars, providerVars
<1>2. ASSUME NEW i \in 1..MaxInvoices, PaidCallback(i) PROVE ClaimFacts'
  BY <1>1, <1>2 DEF PaidCallback, ClaimInv
<1>3. ASSUME NEW i \in 1..MaxInvoices, Pay(i) PROVE ClaimFacts'
  BY <1>1, <1>3 DEF Pay, ClaimInv
<1>4. CASE ReplayedCallback
  BY <1>1, <1>4 DEF ReplayedCallback, ClaimInv
<1>5. CASE CancelUnpaid
  BY <1>1, <1>5 DEF CancelUnpaid, ClaimInv
<1>6. CASE ExpireDue
  <2>1. \A r \in Requesters : pc[r] # "withdraw"
    <3> SUFFICES ASSUME NEW r \in Requesters, pc[r] = "withdraw" PROVE FALSE
      OBVIOUS
    <3>1. clock < now[r] + ClaimTimeout
      BY DEF ClaimInv, CallsAreTimely
    <3>2. expiresAt >= now[r] + Validity
      BY <1>6 DEF ExpireDue, ClaimInv
    <3>3. expiresAt <= clock
      BY <1>6 DEF ExpireDue
    <3>4. QED
      BY <1>0, <3>1, <3>2, <3>3 DEF ClaimPremises
  <2>2. EnqueueRelease(job) # NoJob
    BY DEF EnqueueRelease, PendingRelease, NoJob
  <2>3. \A r \in Requesters : pc[r] \in ClaimHolding => status \in SettledStatuses
    BY <1>6 DEF ExpireDue, ClaimInv
  <2>4. QED
    BY <1>0, <1>1, <1>6, <2>1, <2>2, <2>3 DEF ExpireDue, ClaimInv
<1>7. CASE RecordRefund
  BY <1>1, <1>7 DEF RecordRefund, ClaimInv
<1>8. CASE JobStep
  <2>1. job' # NoJob
    BY <1>0, <1>8, JobStepKeepsKind DEF JobStep, Jobs, JobKinds, NoJob
  <2>2. QED
    BY <1>1, <1>8, <2>1 DEF JobStep, ClaimInv
<1>9. CASE Tick
  BY <1>0, <1>1, <1>9 DEF Tick, ClaimInv
<1>10. CASE UNCHANGED vars
  BY <1>10 DEF vars, ClaimInv
<1>11. QED
  BY <1>2, <1>3, <1>4, <1>5, <1>6, <1>7, <1>8, <1>9, <1>10 DEF Next, FailedCallback, ClaimPremises

\* The premises are about constants.
LEMMA PremisesStay == ClaimPremises => []ClaimPremises
<1>1. ClaimPremises => ClaimPremises'
  BY DEF ClaimPremises
<1>2. QED
  BY <1>1, PTL

\* The claim invariant holds throughout, under the premises.
LEMMA ClaimInvariant == ClaimPremises /\ Spec => []ClaimInv
<1>1. Init => ClaimInv
  BY InitClaimInv
<1>2. ClaimPremises /\ IInv /\ ClaimInv /\ [Next]_vars => ClaimInv'
  <2> SUFFICES ASSUME ClaimPremises, IInv, ClaimInv, [Next]_vars PROVE ClaimInv'
    OBVIOUS
  <2>1. CallsAreTimely'
    BY CallsStayTimely DEF IInv, ClaimInv
  <2>2. ClaimFacts'
    BY CallKeepsClaimFacts, OthersKeepClaimFacts
  <2>3. QED
    BY <2>1, <2>2 DEF ClaimInv, ClaimFacts
<1>3. ClaimPremises => []ClaimPremises
  BY PremisesStay
<1>4. QED
  BY <1>1, <1>2, <1>3, Invariant, PTL DEF Spec

(* The promises of the claim *)

\* The creating claim makes invoice creation exclusive.
THEOREM Exclusive == ClaimPremises /\ Spec => []ExclusiveCreation
  BY ClaimInvariant, PTL DEF ClaimInv

\* No call in flight withdraws the seat release of an expired payment.
THEOREM ExpiredReleaseKept == ClaimPremises /\ Spec => []ExpiredKeepsRelease
  BY ClaimInvariant, PTL DEF ClaimInv

\* What a step may do to the link: clear one that is past its expiry, or store
\* one on a row without.
LEMMA LinkStep ==
    ASSUME ClaimPremises, IInv, ClaimInv, [Next]_vars
    PROVE  /\ link # NoInvoice /\ link' # link => expiresAt <= clock
           /\ link' \notin {NoInvoice, link} => link = NoInvoice
<1> SUFFICES ASSUME link' # link
             PROVE  \/ link' = NoInvoice /\ (link # NoInvoice => expiresAt <= clock)
                    \/ link = NoInvoice
  OBVIOUS
<1>0. /\ clock \in Nat /\ expiresAt \in Nat /\ now \in [Requesters -> Nat]
  BY DEF IInv, TypeOK, RowsTypeOK, CallsTypeOK, ProviderTypeOK
<1>1. PICK r \in Requesters : Reinvoice(r) \/ MarkIssued(r)
  BY DEF Next, vars, rowVars, PaidCallback, Pay, ReplayedCallback, FailedCallback, CancelUnpaid,
         ExpireDue, RecordRefund, JobStep, Tick, Call, Begin, Lookup, Reread, Create, Claim,
         InvoiceCreated, InvoiceRefused, Restore, WithdrawRelease, Crash
<1>2. CASE Reinvoice(r)
  <2>1. Reinvoicable(now[r]) /\ link' = NoInvoice
    BY <1>2 DEF Reinvoice
  <2>2. now[r] <= clock
    BY <1>2 DEF Reinvoice, ClaimInv, CallsAreTimely
  <2>3. link # NoInvoice => expiresAt <= clock
    BY <1>0, <2>1, <2>2 DEF Reinvoicable, ClaimInv, UnpaidRowsAreDead
  <2>4. QED
    BY <2>1, <2>3
<1>3. CASE MarkIssued(r)
  <2>1. Issuable
    BY <1>3 DEF MarkIssued, rowVars
  <2>2. status = "creating"
    BY <1>3, <2>1 DEF MarkIssued, Issuable, ClaimInv, HolderOwnsRow, ClaimHolding, SettledStatuses
  <2>3. QED
    BY <2>2 DEF IInv, CreatingHasNoLink
<1>4. QED
  BY <1>1, <1>2, <1>3

\* A link the parent can still pay is never replaced.
THEOREM LiveLinks == ClaimPremises /\ Spec => LiveLinkKept
<1>1. ClaimPremises /\ IInv /\ ClaimInv /\ [Next]_vars
          => [link # NoInvoice /\ link' # link => expiresAt <= clock]_vars
  BY LinkStep
<1>2. ClaimPremises => []ClaimPremises
  BY PremisesStay
<1>3. QED
  BY <1>1, <1>2, Invariant, ClaimInvariant, PTL DEF Spec, LiveLinkKept

\* A link is stored only on a row still waiting for one.
THEOREM LinksOnWaitingRows == ClaimPremises /\ Spec => LinkStoredOnWaitingRow
<1>1. ClaimPremises /\ IInv /\ ClaimInv /\ [Next]_vars
          => [link' \notin {NoInvoice, link} => link = NoInvoice]_vars
  BY LinkStep
<1>2. ClaimPremises => []ClaimPremises
  BY PremisesStay
<1>3. QED
  BY <1>1, <1>2, Invariant, ClaimInvariant, PTL DEF Spec, LinkStoredOnWaitingRow

=============================================================================
