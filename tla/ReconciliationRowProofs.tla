---------------------- MODULE ReconciliationRowProofs ----------------------
(***************************************************************************)
(* Lemmas about the statements on a payment's reconciliation row, for the  *)
(* proofs about the modules that use them.                                 *)
(***************************************************************************)
EXTENDS ReconciliationRow, TLAPS

\* Every statement on the row leaves a row of the table, or none.
LEMMA JobsClosed ==
    ASSUME NEW j \in Jobs
    PROVE  /\ EnsureActivation(j) \in Jobs
           /\ EnqueueRelease(j) \in Jobs
           /\ CancelPendingRelease(j) \in Jobs
           /\ DropPendingActivation(j) \in Jobs
  BY DEF Jobs, JobKinds, JobStatuses, NoJob, PendingActivation, PendingRelease,
         EnsureActivation, EnqueueRelease, CancelPendingRelease, DropPendingActivation

\* An activation survives every statement on the row except a refund's.
LEMMA ActivationSurvives ==
    ASSUME NEW j \in Jobs
    PROVE  /\ EnsureActivation(j).kind = "activation"
           /\ j.kind = "activation" => CancelPendingRelease(j).kind = "activation"
           /\ j.kind = "activation" => EnqueueRelease(j).kind = "activation"
  BY DEF Jobs, JobKinds, JobStatuses, NoJob, PendingActivation, PendingRelease,
         EnsureActivation, EnqueueRelease, CancelPendingRelease

\* Enqueueing a release, and withdrawing what was not claimed, never create an
\* activation.
LEMMA NoNewActivation ==
    ASSUME NEW j \in Jobs, j.kind # "activation"
    PROVE  /\ EnqueueRelease(j).kind # "activation"
           /\ CancelPendingRelease(j).kind # "activation"
           /\ DropPendingActivation(j).kind # "activation"
  BY DEF Jobs, JobKinds, JobStatuses, NoJob, PendingActivation, PendingRelease,
         EnqueueRelease, CancelPendingRelease, DropPendingActivation

\* A job is given up by the workers alone.
LEMMA NoNewTerminalFailure ==
    ASSUME NEW j \in Jobs
    PROVE  /\ EnsureActivation(j).status # "terminal_failed"
           /\ EnqueueRelease(j).status = "terminal_failed" => j.status = "terminal_failed"
           /\ CancelPendingRelease(j).status = "terminal_failed" => j.status = "terminal_failed"
           /\ DropPendingActivation(j).status = "terminal_failed" => j.status = "terminal_failed"
  BY DEF Jobs, JobKinds, JobStatuses, NoJob, PendingActivation, PendingRelease,
         EnsureActivation, EnqueueRelease, CancelPendingRelease, DropPendingActivation

=============================================================================
