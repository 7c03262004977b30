-------------------------- MODULE ReconciliationRow --------------------------
(***************************************************************************)
(* The single payment_reconciliations row a transaction may own, and the   *)
(* statements that write it on behalf of a payment.  The table has a       *)
(* unique index on transaction_id, so the row is a value: either NoJob or  *)
(* a record with the kind of Academic call owed and how far it has got.    *)
(* Times, attempt counts and error texts are left out of the row here;     *)
(* module Reconciliation adds what its properties need of them.            *)
(***************************************************************************)

JobKinds == {"activation", "release"}

JobStatuses == {"pending", "processing", "active", "terminal_failed"}

\* No row exists for the transaction.
NoJob == [kind |-> "none", status |-> "none"]

Jobs == [kind : JobKinds, status : JobStatuses] \cup {NoJob}

PendingActivation == [kind |-> "activation", status |-> "pending"]

PendingRelease == [kind |-> "release", status |-> "pending"]

\* Mutant: an existing row is left alone.
EnsureActivationIfNew(j) == IF j = NoJob THEN PendingActivation ELSE j

\* Insert an activation, or convert whatever the row holds unless it already
\* is an activation Academic has acknowledged.
EnsureActivation(j) ==
    IF j = [kind |-> "activation", status |-> "active"]
    THEN j
    ELSE PendingActivation

\* Insert a release; ON CONFLICT DO NOTHING keeps whatever the row holds.
EnqueueRelease(j) == IF j = NoJob THEN PendingRelease ELSE j

\* Delete a release nobody has claimed yet.
CancelPendingRelease(j) == IF j = PendingRelease THEN NoJob ELSE j

\* RecordRefund deletes an activation that is still waiting.
DropPendingActivation(j) == IF j = PendingActivation THEN NoJob ELSE j

=============================================================================
