--------------------------- MODULE Reconciliation ---------------------------
(***************************************************************************)
(* The durable work one payment owes Academic: its payment_reconciliations *)
(* row, claimed and recorded by concurrent reconciliation workers and paid *)
(* webhooks, and its refund job.  Calls to Academic may be answered, may   *)
(* time out while they still travel, and may outlive the process that sent *)
(* them.  The transaction is reduced to the statuses that create, withdraw *)
(* or forbid this work; creating and failed rows count as expired, and a   *)
(* paid one whose subscription was cancelled is called ended.              *)
(***************************************************************************)
EXTENDS Naturals, ReconciliationRow

CONSTANTS
    Workers,     \* concurrent claimants: worker processes and paid webhooks
    Lease,       \* ticks after which a processing row may be claimed again
    MaxAttempts, \* PaymentReconciliationMaxAttempts
    Timely,      \* every claimed attempt is recorded within the lease
    MaxTime,     \* bound on the clock
    MaxRows      \* bound on the rows inserted for the transaction

ASSUME WorkAssumption ==
    /\ Lease \in Nat \ {0}
    /\ MaxAttempts \in Nat \ {0}
    /\ Timely \in BOOLEAN
    /\ MaxTime \in Nat
    /\ MaxRows \in Nat \ {0}

VARIABLES
    status,    \* transactions.status
    reissuing, \* the next step of a call that replaces the link
    job,       \* the payment_reconciliations row
    rowId,     \* its id, as the number of rows inserted so far
    attempts,  \* attempt_count, saturating at MaxAttempts
    last,      \* last_attempt_at
    pc,        \* the next step of each worker
    held,      \* the row each worker has claimed
    seat,      \* the enrollment, at Academic
    wire,      \* requests to Academic that outlived their caller
    refund,    \* transaction_refunds.status, "none" before the row exists
    rpc,       \* the next call of the refund job being processed
    clock

workVars == <<job, rowId, attempts, last>>
workerVars == <<pc, held>>
refundVars == <<refund, rpc>>
vars == <<status, reissuing, workVars, workerVars, seat, wire, refundVars, clock>>

Unclaimed == [id |-> 0, kind |-> "none", at |-> 0]

Requests == {"activation", "release", "end"}

WorkTypeOK ==
    /\ status \in {"pending", "expired", "cancelled", "paid", "ended", "refunded"}
    /\ reissuing \in {"idle", "provider", "withdraw"}
    /\ job \in Jobs
    /\ rowId \in Nat
    /\ attempts \in 0..MaxAttempts
    /\ last \in Nat
    /\ clock \in Nat

\* A worker that is not idle holds a row of some kind.
WorkersTypeOK ==
    /\ pc \in [Workers -> {"idle", "claimed", "calling", "succeeded", "failed",
                           "retry", "giveup"}]
    /\ held \in [Workers -> [id : Nat, kind : JobKinds \cup {"none"}, at : Nat]]
    /\ \A w \in Workers : pc[w] # "idle" => held[w].kind \in JobKinds

AcademicTypeOK ==
    /\ seat \in {"held", "active", "dropped", "completed"}
    /\ wire \subseteq Requests
    /\ refund \in {"none", "pending", "completed"}
    /\ rpc \in {"idle", "end", "release", "endAgain", "done"}

\* Type correctness of the rows, the workers and what Academic is asked.
TypeOK == WorkTypeOK /\ WorkersTypeOK /\ AcademicTypeOK

\* An invoice is out, the enrollment is reserved and nothing is owed yet.
Init ==
    /\ status = "pending"
    /\ reissuing = "idle"
    /\ job = NoJob
    /\ rowId = 0
    /\ attempts = 0
    /\ last = 0
    /\ pc = [w \in Workers |-> "idle"]
    /\ held = [w \in Workers |-> Unclaimed]
    /\ seat = "held"
    /\ wire = {}
    /\ refund = "none"
    /\ rpc = "idle"
    /\ clock = 0

-----------------------------------------------------------------------------
(* Academic *)

\* The states of an enrollment in which Academic answers a request with 200.
Accepts(k) ==
    CASE k = "activation" -> {"held", "active"}
      [] k = "release"    -> {"held", "active", "dropped"}
      [] k = "end"        -> {"active", "dropped"}

\* What a request leaves of an enrollment in state s; releasing an active
\* enrollment and whatever is refused change nothing.
Effect(k, s) ==
    CASE k = "activation" /\ s = "held"   -> "active"
      [] k = "release"    /\ s = "held"   -> "dropped"
      [] k = "end"        /\ s = "active" -> "dropped"
      [] OTHER                            -> s

\* A request nobody waits for any more reaches Academic, or is lost.
Deliver(k) ==
    /\ k \in wire
    /\ wire' = wire \ {k}
    /\ seat' \in {seat, Effect(k, seat)}
    /\ UNCHANGED <<status, reissuing, workVars, workerVars, refundVars, clock>>

\* The course ends.
Complete ==
    /\ seat = "active"
    /\ seat' = "completed"
    /\ UNCHANGED <<status, reissuing, workVars, workerVars, wire, refundVars, clock>>

-----------------------------------------------------------------------------
(* The workers *)

\* Mutant: the lease of a processing row is ignored.
ExpiredAtOnce == last <= clock

\* The worker that claimed the row last is presumed dead.
LeaseExpired == last + Lease < clock

\* ClaimDue selects and updates the row under its lock.  Due times order
\* attempts but refuse none, so a pending row may be claimed at any time.
ClaimDue(w) ==
    /\ pc[w] = "idle"
    /\ \/ job.status = "pending"
       \/ job.status = "processing" /\ LeaseExpired
    /\ job' = [job EXCEPT !.status = "processing"]
    /\ attempts' = IF attempts < MaxAttempts THEN attempts + 1 ELSE attempts
    /\ last' = clock
    /\ pc' = [pc EXCEPT ![w] = "claimed"]
    /\ held' = [held EXCEPT ![w] = [id |-> rowId, kind |-> job.kind, at |-> clock]]
    /\ UNCHANGED <<status, reissuing, rowId, seat, wire, refundVars, clock>>

\* A release is sent without looking at the transaction.
DispatchRelease(w) ==
    /\ pc[w] = "claimed" /\ held[w].kind = "release"
    /\ pc' = [pc EXCEPT ![w] = "calling"]
    /\ UNCHANGED <<status, reissuing, workVars, held, seat, wire, refundVars, clock>>

Activating(w) == pc[w] = "calling" /\ held[w].kind = "activation"

\* Mutant: nobody waits for the lock an activation call holds.
UnlockedAlways == TRUE

\* The lock on the transactions row, held for as long as an activation call runs.
Unlocked == \A w \in Workers : ~Activating(w)

\* A refunded transaction is not activated any more, nor one whose subscription
\* was cancelled.
Dispatchable == status \notin {"ended", "refunded"}

\* GuardActivation: an activation is sent under the locks of the subscription and
\* the row, and counts as done where it is not needed; the guard itself may fail.
GuardActivation(w) ==
    /\ pc[w] = "claimed" /\ held[w].kind = "activation"
    /\ Unlocked
    /\ \E step \in {"failed", IF Dispatchable THEN "calling" ELSE "succeeded"} :
        pc' = [pc EXCEPT ![w] = step]
    /\ UNCHANGED <<status, reissuing, workVars, held, seat, wire, refundVars, clock>>

Answered(w) ==
    /\ pc[w] = "calling"
    /\ pc' = [pc EXCEPT ![w] =
                IF seat \in Accepts(held[w].kind) THEN "succeeded" ELSE "failed"]
    /\ seat' = Effect(held[w].kind, seat)
    /\ UNCHANGED <<status, reissuing, workVars, held, wire, refundVars, clock>>

\* The call reports an error although Academic may still receive the request.
TimedOut(w) ==
    /\ pc[w] = "calling"
    /\ pc' = [pc EXCEPT ![w] = "failed"]
    /\ wire' = wire \cup {held[w].kind}
    /\ UNCHANGED <<status, reissuing, workVars, held, seat, refundVars, clock>>

Done(w) ==
    /\ pc' = [pc EXCEPT ![w] = "idle"]
    /\ held' = [held EXCEPT ![w] = Unclaimed]

\* The row w claimed still exists.  Updates match it by id alone.
Matches(w) == job # NoJob /\ held[w].id = rowId

Record(w, s) == job' = IF Matches(w) THEN [job EXCEPT !.status = s] ELSE job

MarkActive(w) ==
    /\ pc[w] = "succeeded"
    /\ Record(w, "active")
    /\ Done(w)
    /\ UNCHANGED <<status, reissuing, rowId, attempts, last, seat, wire, refundVars, clock>>

\* Mutant: no limit is configured.
LimitNever == FALSE

LimitReached == attempts >= MaxAttempts

\* MarkRetry reads the row first, and reports an error when it is gone.
Verdict(w) ==
    /\ pc[w] = "failed"
    /\ \/ /\ Matches(w)
          /\ pc' = [pc EXCEPT ![w] = IF LimitReached THEN "giveup" ELSE "retry"]
          /\ UNCHANGED held
       \/ ~Matches(w) /\ Done(w)
    /\ UNCHANGED <<status, reissuing, workVars, seat, wire, refundVars, clock>>

\* MarkRetry writes what it decided.
MarkRetry(w) ==
    /\ \/ pc[w] = "retry" /\ Record(w, "pending")
       \/ pc[w] = "giveup" /\ Record(w, "terminal_failed")
    /\ Done(w)
    /\ UNCHANGED <<status, reissuing, rowId, attempts, last, seat, wire, refundVars, clock>>

\* The process dies, or cannot record the outcome, while MaxTime leaves time
\* for the lease to expire.
Crash(w) ==
    /\ pc[w] # "idle"
    /\ clock + Lease < MaxTime
    /\ Done(w)
    /\ wire' = IF pc[w] = "calling" THEN wire \cup {held[w].kind} ELSE wire
    /\ UNCHANGED <<status, reissuing, workVars, seat, refundVars, clock>>

Attempt(w) ==
    \/ DispatchRelease(w) \/ GuardActivation(w) \/ Answered(w) \/ TimedOut(w)
    \/ MarkActive(w) \/ Verdict(w) \/ MarkRetry(w)

\* An operator re-drives a job that ran out of attempts; the count stays.
RequeueTerminalFailed ==
    /\ job.status = "terminal_failed"
    /\ job' = [job EXCEPT !.status = "pending"]
    /\ UNCHANGED <<status, reissuing, rowId, attempts, last, workerVars, seat, wire,
                   refundVars, clock>>

-----------------------------------------------------------------------------
(* The transaction *)

\* Rewriting the row keeps its id, its count and its times; inserting one
\* starts afresh.
Enqueue(rewritten) ==
    /\ job' = rewritten
    /\ IF job = NoJob
       THEN rowId' = rowId + 1 /\ attempts' = 0 /\ last' = 0
       ELSE UNCHANGED <<rowId, attempts, last>>

\* The expiry worker, or a failure callback.
Expire ==
    /\ status = "pending"
    /\ status' = "expired"
    /\ Enqueue(EnqueueRelease(job))
    /\ UNCHANGED <<reissuing, workerVars, seat, wire, refundVars, clock>>

Cancel ==
    /\ status \in {"pending", "expired"}
    /\ status' = "cancelled"
    /\ Enqueue(EnqueueRelease(job))
    /\ UNCHANGED <<reissuing, workerVars, seat, wire, refundVars, clock>>

ReissueKeeps == UNCHANGED <<workVars, workerVars, seat, wire, refundVars, clock>>

\* A call takes the claim to replace the link of an expired row.
ClaimReinvoice ==
    /\ reissuing = "idle"
    /\ status = "expired"
    /\ rowId < MaxRows
    /\ reissuing' = "provider"
    /\ UNCHANGED status /\ ReissueKeeps

\* The provider refuses, or the call dies.
ReissueFails ==
    /\ reissuing = "provider"
    /\ reissuing' = "idle"
    /\ UNCHANGED status /\ ReissueKeeps

\* MarkInvoiceIssued stores the link on a row that still waits for it, neither
\* failed nor settled nor cancelled meanwhile; otherwise the link is discarded.
Reissue ==
    /\ reissuing = "provider"
    /\ reissuing' = "withdraw"
    /\ \/ status = "expired" /\ status' = "pending"
       \/ UNCHANGED status
    /\ ReissueKeeps

\* The call's last statement, whether or not the link was stored; the row of the
\* next release will be a new one.
WithdrawRelease ==
    /\ reissuing = "withdraw"
    /\ reissuing' = "idle"
    /\ job' = CancelPendingRelease(job)
    /\ UNCHANGED <<status, rowId, attempts, last, workerVars, seat, wire, refundVars, clock>>

\* A confirmed success callback, or the replay of one.
PaidCallback ==
    /\ status # "refunded"
    /\ Unlocked
    /\ status' = IF status = "ended" THEN "ended" ELSE "paid"
    /\ Enqueue(EnsureActivation(job))
    /\ UNCHANGED <<reissuing, workerVars, seat, wire, refundVars, clock>>

RecordRefund ==
    /\ status \in {"paid", "ended"}
    /\ Unlocked
    /\ status' = "refunded"
    /\ job' = DropPendingActivation(job)
    /\ refund' = "pending"
    /\ UNCHANGED <<reissuing, rowId, attempts, last, workerVars, seat, wire, rpc, clock>>

\* The refund of a renewal cancels the subscription, and its own job asks Academic
\* to end the enrollment.
RefundRenewal ==
    /\ status = "paid"
    /\ Unlocked
    /\ status' = "ended"
    /\ wire' = wire \cup {"end"}
    /\ UNCHANGED <<reissuing, workVars, workerVars, seat, refundVars, clock>>

-----------------------------------------------------------------------------
(* The refund job, processed under its own row lock *)

ProcessRefund ==
    /\ refund = "pending" /\ rpc = "idle"
    /\ rpc' = "end"
    /\ UNCHANGED <<status, reissuing, workVars, workerVars, seat, wire, refund, clock>>

\* Academic answers the first end: a conflict asks for a release.
RefundEnd ==
    /\ rpc = "end"
    /\ rpc' = IF seat \in Accepts("end") THEN "done" ELSE "release"
    /\ seat' = Effect("end", seat)
    /\ UNCHANGED <<status, reissuing, workVars, workerVars, wire, refund, clock>>

\* Mutant: any 200 is taken for a released seat.
NextAfterAnyRelease(s) == "done"

\* Mutant: a conflict is an error like any other.
NextAfterReleaseStrict(s) ==
    IF s = "completed" THEN "idle" ELSE IF s = "active" THEN "endAgain" ELSE "done"

\* What follows a release Academic found the enrollment in state s for: an
\* activation overtook it, or the seat is gone, or the course was completed.
NextAfterRelease(s) == IF s = "active" THEN "endAgain" ELSE "done"

RefundRelease ==
    /\ rpc = "release"
    /\ rpc' = NextAfterRelease(seat)
    /\ seat' = Effect("release", seat)
    /\ UNCHANGED <<status, reissuing, workVars, workerVars, wire, refund, clock>>

\* Here a conflict is an error, and the job is retried.
RefundEndAgain ==
    /\ rpc = "endAgain"
    /\ rpc' = IF seat \in Accepts("end") THEN "done" ELSE "idle"
    /\ seat' = Effect("end", seat)
    /\ UNCHANGED <<status, reissuing, workVars, workerVars, wire, refund, clock>>

\* A call fails, or the process dies with the job's transaction open.
RefundFails ==
    /\ rpc # "idle"
    /\ rpc' = "idle"
    /\ wire' = CASE rpc = "done"    -> wire
                 [] rpc = "release" -> wire \cup {"release"}
                 [] OTHER           -> wire \cup {"end"}
    /\ UNCHANGED <<status, reissuing, workVars, workerVars, seat, refund, clock>>

RefundDone ==
    /\ rpc = "done"
    /\ rpc' = "idle"
    /\ refund' = "completed"
    /\ UNCHANGED <<status, reissuing, workVars, workerVars, seat, wire, clock>>

-----------------------------------------------------------------------------

\* With Timely, time does not pass a worker that is about to outlive its lease.
Tick ==
    /\ clock < MaxTime
    /\ Timely => \A w \in Workers : pc[w] # "idle" => clock + 1 <= held[w].at + Lease
    /\ clock' = clock + 1
    /\ UNCHANGED <<status, reissuing, workVars, workerVars, seat, wire, refundVars>>

Next ==
    \/ \E w \in Workers : ClaimDue(w) \/ Attempt(w) \/ Crash(w)
    \/ \E k \in Requests : Deliver(k)
    \/ Complete \/ RequeueTerminalFailed
    \/ Expire \/ Cancel \/ PaidCallback \/ RecordRefund \/ RefundRenewal
    \/ ClaimReinvoice \/ ReissueFails \/ Reissue \/ WithdrawRelease
    \/ ProcessRefund \/ RefundEnd \/ RefundRelease \/ RefundEndAgain
    \/ RefundFails \/ RefundDone
    \/ Tick

Spec == Init /\ [][Next]_vars

\* Time passes, workers keep claiming and finish what they claimed, and Academic,
\* asked again and again, answers each of the refund calls.
FairSpec ==
    /\ Spec
    /\ WF_vars(Tick)
    /\ \A w \in Workers : WF_vars(ClaimDue(w)) /\ WF_vars(Attempt(w))
    /\ WF_vars(ProcessRefund)
    /\ SF_vars(RefundEnd) /\ SF_vars(RefundRelease) /\ SF_vars(RefundEndAgain)
    /\ SF_vars(RefundDone)

-----------------------------------------------------------------------------
(* Properties *)

\* Refunds and activations exclude each other: an activation call is in flight
\* only while its payment stands, also when the job was claimed before the refund.
ActivationOnlyWhilePaid == \A w \in Workers : Activating(w) => status = "paid"

\* A completed refund leaves no seat behind, whatever activation requests were
\* still travelling when it was recorded.
RefundedSeatIsFree == refund = "completed" => seat \in {"dropped", "completed"}

\* A job is given up only after the configured number of attempts, also when
\* stale workers write their verdicts late or the row is re-kinded in between.
TerminalOnlyAfterLimit == job.status = "terminal_failed" => attempts >= MaxAttempts

\* Two workers never work on the release of one row at a time.
ExclusiveRelease ==
    \A v, w \in Workers :
        /\ held[v].kind = "release" /\ held[w].kind = "release"
        /\ held[v].id = held[w].id
        => v = w

\* A paid enrollment does not stay undecided: Academic acknowledges the
\* activation, or operators find it terminally failed, or it is refunded.
OwedIsResolved ==
    status = "paid" ~> status = "refunded" \/ job.status \in {"active", "terminal_failed"}

\* Every recorded refund takes effect at Academic in the end.
RefundCompletes == refund = "pending" ~> refund = "completed"

\* An activation recorded as acknowledged means Academic activated the seat.
AcknowledgedActivation ==
    status = "paid" /\ job = [kind |-> "activation", status |-> "active"]
        => seat \in {"active", "completed"}

=============================================================================
