------------------------ MODULE ReconciliationProofs ------------------------
(***************************************************************************)
(* Theorems about Reconciliation, for any number of workers, any lease and *)
(* attempt limit.  All but the last hold whether or not attempts are       *)
(* recorded within the lease; exclusive releases need that they are.       *)
(***************************************************************************)
EXTENDS Reconciliation, ReconciliationRowProofs, TLAPS

\* The steps outside the workers that change the transaction or its row.
OtherStep ==
    \/ RequeueTerminalFailed \/ Expire \/ Cancel \/ Reissue \/ WithdrawRelease
    \/ PaidCallback \/ RecordRefund \/ RefundRenewal

-----------------------------------------------------------------------------
(* Type correctness *)

\* A worker that is done keeps the record of the workers well formed.
LEMMA DoneTypeOK ==
    ASSUME WorkersTypeOK, NEW w \in Workers, Done(w)
    PROVE  WorkersTypeOK'
  BY DEF WorkersTypeOK, Done, Unclaimed, JobKinds

\* So does one that moves on with the row it holds.
LEMMA MoveOnTypeOK ==
    ASSUME WorkersTypeOK, NEW w \in Workers, pc[w] # "idle", UNCHANGED held,
           NEW step \in {"calling", "succeeded", "failed", "retry", "giveup"},
           pc' = [pc EXCEPT ![w] = step]
    PROVE  WorkersTypeOK'
  BY DEF WorkersTypeOK

\* Recording an outcome keeps the kind of the row.
LEMMA RecordKeepsKind ==
    ASSUME job \in Jobs, NEW w \in Workers,
           NEW s \in JobStatuses, Record(w, s)
    PROVE  /\ job' \in Jobs
           /\ job'.kind = job.kind
           /\ job' # job => job'.status = s /\ Matches(w)
<1>1. CASE Matches(w)
  <2>1. job \in [kind : JobKinds, status : JobStatuses] /\ job' = [job EXCEPT !.status = s]
    BY <1>1 DEF Record, Matches, Jobs
  <2>2. QED
    BY <2>1, <1>1 DEF Jobs
<1>2. CASE ~Matches(w)
  BY <1>2 DEF Record
<1>3. QED
  BY <1>1, <1>2

\* A claim is a claim of an existing row.
LEMMA ClaimedRow ==
    ASSUME job \in Jobs, NEW w \in Workers, ClaimDue(w)
    PROVE  /\ job.kind \in JobKinds
           /\ job' \in Jobs /\ job'.kind = job.kind /\ job'.status = "processing"
<1>1. job \in [kind : JobKinds, status : JobStatuses]
  BY DEF ClaimDue, Jobs, NoJob
<1>2. QED
  BY <1>1 DEF ClaimDue, Jobs, JobStatuses

\* Every step of a worker keeps the variables within their types.
LEMMA WorkerTypeOK ==
    ASSUME TypeOK, NEW w \in Workers, ClaimDue(w) \/ Attempt(w) \/ Crash(w)
    PROVE  TypeOK'
<1> USE DEF TypeOK, WorkTypeOK, AcademicTypeOK, workVars, refundVars
<1>1. CASE ClaimDue(w)
  <2>1. attempts' \in 0..MaxAttempts
    BY <1>1, WorkAssumption DEF ClaimDue
  <2>2. WorkersTypeOK'
    BY <1>1, ClaimedRow DEF ClaimDue, WorkersTypeOK
  <2>3. QED
    BY <1>1, <2>1, <2>2, ClaimedRow DEF ClaimDue
<1>2. CASE DispatchRelease(w)
  BY <1>2, MoveOnTypeOK DEF DispatchRelease
<1>3. CASE GuardActivation(w)
  BY <1>3, MoveOnTypeOK DEF GuardActivation
<1>4. CASE Answered(w)
  <2>1. WorkersTypeOK'
    BY <1>4, MoveOnTypeOK DEF Answered
  <2>2. seat' \in {"held", "active", "dropped", "completed"}
    BY <1>4 DEF Answered, Effect
  <2>3. QED
    BY <1>4, <2>1, <2>2 DEF Answered
<1>5. CASE TimedOut(w)
  <2>1. WorkersTypeOK'
    BY <1>5, MoveOnTypeOK DEF TimedOut
  <2>2. wire' \subseteq Requests
    BY <1>5 DEF TimedOut, WorkersTypeOK, Requests, JobKinds
  <2>3. QED
    BY <1>5, <2>1, <2>2 DEF TimedOut
<1>6. CASE MarkActive(w)
  BY <1>6, DoneTypeOK, RecordKeepsKind DEF MarkActive, JobStatuses
<1>7. CASE Verdict(w)
  BY <1>7, DoneTypeOK, MoveOnTypeOK DEF Verdict
<1>8. CASE MarkRetry(w)
  BY <1>8, DoneTypeOK, RecordKeepsKind DEF MarkRetry, JobStatuses
<1>9. CASE Crash(w)
  <2>1. wire' \subseteq Requests
    BY <1>9 DEF Crash, WorkersTypeOK, Requests, JobKinds
  <2>2. QED
    BY <1>9, <2>1, DoneTypeOK DEF Crash
<1>10. QED
  BY <1>1, <1>2, <1>3, <1>4, <1>5, <1>6, <1>7, <1>8, <1>9 DEF Attempt

\* Whatever is not a step of a worker leaves the workers alone.
LEMMA WorkerOrOther ==
    ASSUME [Next]_vars
    PROVE  \/ \E w \in Workers : ClaimDue(w) \/ Attempt(w) \/ Crash(w)
           \/ UNCHANGED workerVars /\ OtherStep
           \/ UNCHANGED workerVars /\ UNCHANGED <<status, job, rowId, attempts, last>>
  BY DEF Next, OtherStep, vars, workVars, workerVars, refundVars, Deliver, Complete,
         RequeueTerminalFailed, Expire, Cancel, ClaimReinvoice, ReissueFails, ReissueKeeps,
         Reissue, WithdrawRelease, PaidCallback, RecordRefund, RefundRenewal, ProcessRefund,
         RefundEnd, RefundRelease, RefundEndAgain, RefundFails, RefundDone, Tick

\* Every other step does, too.
LEMMA StepTypeOK ==
    ASSUME TypeOK, [Next]_vars
    PROVE  TypeOK'
<1> USE DEF TypeOK, WorkTypeOK, AcademicTypeOK, vars, workVars, workerVars, refundVars
<1>1. CASE \E w \in Workers : ClaimDue(w) \/ Attempt(w) \/ Crash(w)
  BY <1>1, WorkerTypeOK
<1>2. CASE UNCHANGED <<pc, held>>
  <2>1. WorkersTypeOK'
    BY <1>2 DEF WorkersTypeOK
  <2>2. CASE \E k \in Requests : Deliver(k)
    BY <2>1, <2>2 DEF Deliver, Effect
  <2>3. CASE Complete
    BY <2>1, <2>3 DEF Complete
  <2>4. CASE RequeueTerminalFailed
    <3>1. job' \in Jobs
      BY <2>4 DEF RequeueTerminalFailed, Jobs, NoJob, JobStatuses
    <3>2. QED
      BY <2>1, <2>4, <3>1 DEF RequeueTerminalFailed
  <2>5. CASE Expire \/ Cancel \/ PaidCallback
    <3>1. rowId' \in Nat /\ attempts' \in 0..MaxAttempts /\ last' \in Nat
      BY <2>5, WorkAssumption DEF Expire, Cancel, PaidCallback, Enqueue
    <3>2. QED
      BY <2>1, <2>5, <3>1, JobsClosed DEF Expire, Cancel, PaidCallback, Enqueue
  <2>6. CASE ClaimReinvoice \/ ReissueFails \/ Reissue
    BY <2>1, <2>6 DEF ClaimReinvoice, ReissueFails, Reissue, ReissueKeeps
  <2>7. CASE WithdrawRelease
    BY <2>1, <2>7, JobsClosed DEF WithdrawRelease
  <2>8. CASE RecordRefund \/ RefundRenewal
    BY <2>1, <2>8, JobsClosed DEF RecordRefund, RefundRenewal, Requests
  <2>9. CASE ProcessRefund \/ RefundEnd \/ RefundRelease \/ RefundEndAgain
    BY <2>1, <2>9 DEF ProcessRefund, RefundEnd, RefundRelease, RefundEndAgain, Effect,
                      NextAfterRelease
  <2>10. CASE RefundFails \/ RefundDone
    BY <2>1, <2>10 DEF RefundFails, RefundDone, Requests
  <2>11. CASE Tick \/ UNCHANGED vars
    BY <2>1, <2>11 DEF Tick
  <2>12. QED
    BY <1>2, <2>2, <2>3, <2>4, <2>5, <2>6, <2>7, <2>8, <2>9, <2>10, <2>11, <1>1,
       WorkerTypeOK DEF Next
<1>3. QED
  BY <1>1, <1>2, WorkerOrOther DEF workerVars

\* Types are respected in every reachable state.
THEOREM TypeCorrect == Spec => []TypeOK
<1>1. ASSUME Init PROVE TypeOK
  <2>1. WorkTypeOK
    <3>1. job \in Jobs
      BY <1>1 DEF Init, Jobs
    <3>2. attempts \in 0..MaxAttempts
      BY <1>1, WorkAssumption DEF Init
    <3>3. QED
      BY <1>1, <3>1, <3>2 DEF Init, WorkTypeOK
  <2>2. WorkersTypeOK
    BY <1>1 DEF Init, WorkersTypeOK, Unclaimed
  <2>3. AcademicTypeOK
    BY <1>1 DEF Init, AcademicTypeOK
  <2>4. QED
    BY <2>1, <2>2, <2>3 DEF TypeOK
<1>2. QED
  BY <1>1, StepTypeOK, PTL DEF Spec

-----------------------------------------------------------------------------
(* Refunds and activations *)

\* Activation work, recorded or claimed, exists only for a payment that was made.
ActivationsArePaid ==
    /\ job.kind = "activation" => status \in {"paid", "ended", "refunded"}
    /\ \A w \in Workers :
        held[w].kind = "activation" => status \in {"paid", "ended", "refunded"}

\* The lock keeps a refund away from the calls in flight, and what a worker
\* holds keeps every other status away from them.
ActivationInv == TypeOK /\ ActivationsArePaid /\ ActivationOnlyWhilePaid

\* A worker's step respects both.
LEMMA WorkerActivation ==
    ASSUME ActivationInv, NEW w \in Workers, ClaimDue(w) \/ Attempt(w) \/ Crash(w)
    PROVE  ActivationsArePaid' /\ ActivationOnlyWhilePaid'
<1> USE DEF ActivationInv, TypeOK, WorkTypeOK, WorkersTypeOK
<1>1. CASE ClaimDue(w)
  BY <1>1, ClaimedRow DEF ClaimDue, ActivationsArePaid, ActivationOnlyWhilePaid, Activating
<1>2. CASE DispatchRelease(w)
  BY <1>2 DEF DispatchRelease, ActivationsArePaid, ActivationOnlyWhilePaid, Activating,
              workVars
<1>3. CASE GuardActivation(w)
  BY <1>3 DEF GuardActivation, Dispatchable, ActivationsArePaid, ActivationOnlyWhilePaid,
              Activating, workVars
<1>4. CASE Answered(w) \/ TimedOut(w)
  BY <1>4 DEF Answered, TimedOut, ActivationsArePaid, ActivationOnlyWhilePaid, Activating,
              workVars
<1>5. CASE MarkActive(w) \/ MarkRetry(w)
  <2>1. job'.kind = job.kind
    BY <1>5, RecordKeepsKind DEF MarkActive, MarkRetry, JobStatuses
  <2>2. QED
    BY <1>5, <2>1 DEF MarkActive, MarkRetry, Done, Unclaimed, ActivationsArePaid,
                      ActivationOnlyWhilePaid, Activating
<1>6. CASE Verdict(w) \/ Crash(w)
  BY <1>6 DEF Verdict, Crash, Done, Unclaimed, ActivationsArePaid, ActivationOnlyWhilePaid,
              Activating, workVars
<1>7. QED
  BY <1>1, <1>2, <1>3, <1>4, <1>5, <1>6 DEF Attempt

\* So does every step of the transaction, the operators and the refund job.
LEMMA OtherActivation ==
    ASSUME ActivationInv, UNCHANGED workerVars,
           OtherStep \/ UNCHANGED <<status, job, rowId, attempts>>
    PROVE  ActivationsArePaid' /\ ActivationOnlyWhilePaid'
<1> USE DEF ActivationInv, TypeOK, WorkTypeOK, workVars, workerVars
<1>1. CASE UNCHANGED <<status, job, rowId, attempts>>
  BY <1>1 DEF ActivationsArePaid, ActivationOnlyWhilePaid, Activating
<1>2. CASE RequeueTerminalFailed
  <2>1. job' \in Jobs /\ job'.kind = job.kind
    BY <1>2 DEF RequeueTerminalFailed, Jobs, NoJob, JobStatuses
  <2>2. QED
    BY <1>2, <2>1 DEF RequeueTerminalFailed, ActivationsArePaid, ActivationOnlyWhilePaid,
                      Activating
<1>3. CASE Expire \/ Cancel
  BY <1>3, NoNewActivation DEF Expire, Cancel, Enqueue, ActivationsArePaid,
                               ActivationOnlyWhilePaid, Activating
<1>4. CASE Reissue
  BY <1>4 DEF Reissue, ReissueKeeps, ActivationsArePaid, ActivationOnlyWhilePaid, Activating
<1>5. CASE WithdrawRelease
  BY <1>5, NoNewActivation DEF WithdrawRelease, ActivationsArePaid, ActivationOnlyWhilePaid,
                               Activating
<1>6. CASE PaidCallback
  BY <1>6 DEF PaidCallback, Enqueue, Unlocked, ActivationsArePaid, ActivationOnlyWhilePaid,
              Activating
<1>7. CASE RecordRefund \/ RefundRenewal
  BY <1>7 DEF RecordRefund, RefundRenewal, Unlocked, ActivationsArePaid,
              ActivationOnlyWhilePaid, Activating
<1>8. QED
  BY <1>1, <1>2, <1>3, <1>4, <1>5, <1>6, <1>7 DEF OtherStep

\* An activation call is in flight only while its payment stands.
THEOREM ActivationsExcludeRefunds == Spec => []ActivationOnlyWhilePaid
<1>1. Init => ActivationsArePaid /\ ActivationOnlyWhilePaid
  BY DEF Init, ActivationsArePaid, ActivationOnlyWhilePaid, Activating, NoJob, Unclaimed
<1>2. TypeOK /\ ActivationsArePaid /\ ActivationOnlyWhilePaid /\ [Next]_vars
        => ActivationsArePaid' /\ ActivationOnlyWhilePaid'
  BY WorkerOrOther, WorkerActivation, OtherActivation DEF ActivationInv
<1>3. QED
  BY <1>1, <1>2, TypeCorrect, PTL DEF Spec

-----------------------------------------------------------------------------
(* The seat of a refunded payment *)

\* The refund job is about to be completed only when the seat is free.
FreedBeforeDone == rpc = "done" => seat \in {"dropped", "completed"}

\* A seat that is gone, or a course that is over, is never taken again.
LEMMA FreeSeatStays ==
    ASSUME TypeOK, [Next]_vars, seat \in {"dropped", "completed"}
    PROVE  seat' \in {"dropped", "completed"}
<1>1. CASE \E w \in Workers : ClaimDue(w) \/ Attempt(w) \/ Crash(w)
  BY <1>1 DEF ClaimDue, Attempt, DispatchRelease, GuardActivation, Answered, TimedOut,
              MarkActive, Verdict, MarkRetry, Crash, Effect
<1>2. CASE ~\E w \in Workers : ClaimDue(w) \/ Attempt(w) \/ Crash(w)
  BY <1>2 DEF Next, vars, Deliver, Complete, RequeueTerminalFailed, Expire, Cancel,
              ClaimReinvoice, ReissueFails, ReissueKeeps, Reissue, WithdrawRelease,
              PaidCallback, RecordRefund, RefundRenewal, ProcessRefund, RefundEnd,
              RefundRelease, RefundEndAgain, RefundFails, RefundDone, Tick, Effect
<1>3. QED
  BY <1>1, <1>2

\* The refund job reaches its last step only by a call that left the seat free.
LEMMA RefundStep ==
    ASSUME TypeOK, [Next]_vars
    PROVE  /\ rpc' = "done" => rpc = "done" \/ seat' \in {"dropped", "completed"}
           /\ refund' = "completed" => refund = "completed" \/ rpc = "done"
<1>1. CASE \E w \in Workers : ClaimDue(w) \/ Attempt(w) \/ Crash(w)
  BY <1>1 DEF ClaimDue, Attempt, DispatchRelease, GuardActivation, Answered, TimedOut,
              MarkActive, Verdict, MarkRetry, Crash, refundVars
<1>2. CASE RefundEnd
  BY <1>2 DEF RefundEnd, Accepts, Effect
<1>3. CASE RefundRelease
  BY <1>3 DEF RefundRelease, NextAfterRelease, Effect, TypeOK, AcademicTypeOK
<1>4. CASE RefundEndAgain
  BY <1>4 DEF RefundEndAgain, Accepts, Effect
<1>5. CASE ~(\E w \in Workers : ClaimDue(w) \/ Attempt(w) \/ Crash(w))
             /\ ~RefundEnd /\ ~RefundRelease /\ ~RefundEndAgain
  BY <1>5 DEF Next, vars, refundVars, Deliver, Complete, RequeueTerminalFailed, Expire,
              Cancel, ClaimReinvoice, ReissueFails, ReissueKeeps, Reissue, WithdrawRelease,
              PaidCallback, RecordRefund, RefundRenewal, ProcessRefund, RefundFails,
              RefundDone, Tick
<1>6. QED
  BY <1>1, <1>2, <1>3, <1>4, <1>5

\* A completed refund leaves no seat behind.
THEOREM RefundFreesSeat == Spec => []RefundedSeatIsFree
<1>1. Init => FreedBeforeDone /\ RefundedSeatIsFree
  BY DEF Init, FreedBeforeDone, RefundedSeatIsFree
<1>2. TypeOK /\ FreedBeforeDone /\ RefundedSeatIsFree /\ [Next]_vars
        => FreedBeforeDone' /\ RefundedSeatIsFree'
  BY FreeSeatStays, RefundStep DEF FreedBeforeDone, RefundedSeatIsFree
<1>3. QED
  BY <1>1, <1>2, TypeCorrect, PTL DEF Spec

-----------------------------------------------------------------------------
(* The attempt limit *)

\* Workers hold rows that have been inserted, not ones to come.
HeldRowsExist == \A w \in Workers : held[w].id <= rowId

\* A worker gives up only a row that reached the limit.  The row it holds may be
\* gone by then, and the count may belong to another one.
VerdictsAreJustified ==
    \A w \in Workers : pc[w] = "giveup" /\ held[w].id = rowId => LimitReached

LimitInv == TypeOK /\ HeldRowsExist /\ VerdictsAreJustified /\ TerminalOnlyAfterLimit

\* A worker's step respects the limit.
LEMMA WorkerLimit ==
    ASSUME LimitInv, NEW w \in Workers, ClaimDue(w) \/ Attempt(w) \/ Crash(w)
    PROVE  HeldRowsExist' /\ VerdictsAreJustified' /\ TerminalOnlyAfterLimit'
<1> USE DEF LimitInv, TypeOK, WorkTypeOK, WorkersTypeOK, HeldRowsExist,
            VerdictsAreJustified, TerminalOnlyAfterLimit, LimitReached
<1>1. CASE ClaimDue(w)
  <2>1. attempts' >= attempts /\ attempts' \in Nat /\ MaxAttempts \in Nat
    BY <1>1, WorkAssumption DEF ClaimDue
  <2>2. job'.status # "terminal_failed"
    BY <1>1, ClaimedRow
  <2>3. QED
    BY <1>1, <2>1, <2>2 DEF ClaimDue
<1>2. CASE DispatchRelease(w) \/ GuardActivation(w) \/ Answered(w) \/ TimedOut(w)
  BY <1>2 DEF DispatchRelease, GuardActivation, Answered, TimedOut, workVars
<1>3. CASE MarkActive(w) \/ MarkRetry(w)
  <2>1. job'.status = "terminal_failed"
          => job'.status = job.status \/ (pc[w] = "giveup" /\ held[w].id = rowId)
    BY <1>3, RecordKeepsKind DEF MarkActive, MarkRetry, Matches, JobStatuses
  <2>2. QED
    BY <1>3, <2>1 DEF MarkActive, MarkRetry, Done, Unclaimed
<1>4. CASE Verdict(w)
  BY <1>4 DEF Verdict, Done, Unclaimed, Matches, workVars
<1>5. CASE Crash(w)
  BY <1>5 DEF Crash, Done, Unclaimed, workVars
<1>6. QED
  BY <1>1, <1>2, <1>3, <1>4, <1>5 DEF Attempt

\* So does every other step: a new row gets a new id, and a rewritten row keeps
\* its count.
LEMMA OtherLimit ==
    ASSUME LimitInv, UNCHANGED workerVars,
           OtherStep \/ UNCHANGED <<status, job, rowId, attempts>>
    PROVE  HeldRowsExist' /\ VerdictsAreJustified' /\ TerminalOnlyAfterLimit'
<1> USE DEF LimitInv, TypeOK, WorkTypeOK, WorkersTypeOK, HeldRowsExist,
            VerdictsAreJustified, TerminalOnlyAfterLimit, LimitReached, workVars, workerVars
<1>1. CASE UNCHANGED <<status, job, rowId, attempts>>
  BY <1>1
<1>2. CASE RequeueTerminalFailed
  <2>1. job'.status # "terminal_failed"
    BY <1>2 DEF RequeueTerminalFailed, Jobs, NoJob
  <2>2. QED
    BY <1>2, <2>1 DEF RequeueTerminalFailed
<1>3. CASE Expire \/ Cancel \/ PaidCallback
  <2>1. CASE job = NoJob
    <3>1. rowId' = rowId + 1
      BY <1>3, <2>1 DEF Expire, Cancel, PaidCallback, Enqueue
    <3>2. job'.status # "terminal_failed"
      BY <1>3, <2>1, NoNewTerminalFailure DEF Expire, Cancel, PaidCallback, Enqueue, NoJob
    <3>3. QED
      BY <3>1, <3>2
  <2>2. CASE job # NoJob
    BY <1>3, <2>2, NoNewTerminalFailure DEF Expire, Cancel, PaidCallback, Enqueue
  <2>3. QED
    BY <2>1, <2>2
<1>4. CASE Reissue \/ RefundRenewal
  BY <1>4 DEF Reissue, ReissueKeeps, RefundRenewal
<1>5. CASE WithdrawRelease \/ RecordRefund
  BY <1>5, NoNewTerminalFailure DEF WithdrawRelease, RecordRefund
<1>6. QED
  BY <1>1, <1>2, <1>3, <1>4, <1>5 DEF OtherStep

\* The counts, ids and verdicts fit together throughout.
LEMMA LimitInvariant == Spec => []LimitInv
<1>1. Init => HeldRowsExist /\ VerdictsAreJustified /\ TerminalOnlyAfterLimit
  BY DEF Init, HeldRowsExist, VerdictsAreJustified, TerminalOnlyAfterLimit, NoJob, Unclaimed
<1>2. TypeOK /\ HeldRowsExist /\ VerdictsAreJustified /\ TerminalOnlyAfterLimit
        /\ [Next]_vars
        => HeldRowsExist' /\ VerdictsAreJustified' /\ TerminalOnlyAfterLimit'
  BY WorkerOrOther, WorkerLimit, OtherLimit DEF LimitInv
<1>3. QED
  BY <1>1, <1>2, TypeCorrect, PTL DEF Spec, LimitInv

\* No job is given up before the configured number of attempts.
THEOREM LimitIsRespected == Spec => []TerminalOnlyAfterLimit
  BY LimitInvariant, PTL DEF LimitInv

-----------------------------------------------------------------------------
(* One worker per release, when attempts are recorded within the lease *)

\* A worker holds a row only while its attempt runs, and no longer than the lease.
LeasesRun ==
    \A w \in Workers :
        IF pc[w] = "idle"
        THEN held[w] = Unclaimed
        ELSE held[w].at <= clock /\ clock <= held[w].at + Lease

\* A release somebody works on is still the one it claimed, unless the row was
\* withdrawn or became an activation meanwhile: nobody else has claimed it since.
ReleaseIsTheHolders ==
    \A w \in Workers :
        held[w].kind = "release" /\ held[w].id = rowId =>
            \/ job = NoJob
            \/ job.kind = "activation"
            \/ job.status = "processing" /\ last = held[w].at

\* An activation never becomes a release again, so that a worker that records the
\* outcome of one does not touch somebody's release.
ActivationStaysOne ==
    \A w \in Workers :
        held[w].kind = "activation" /\ held[w].id = rowId =>
            job = NoJob \/ job.kind = "activation"

ReleaseFacts == ReleaseIsTheHolders /\ ActivationStaysOne /\ ExclusiveRelease

ReleaseInv == TypeOK /\ HeldRowsExist /\ LeasesRun /\ ReleaseFacts

\* Time waits for the workers, and a worker that stops lets go of its row.
LEMMA LeasesKeepRunning ==
    ASSUME Timely, TypeOK, LeasesRun, [Next]_vars
    PROVE  LeasesRun'
<1> USE DEF TypeOK, WorkTypeOK, WorkersTypeOK, LeasesRun, workVars, workerVars
<1>1. ASSUME NEW w \in Workers, Done(w), UNCHANGED clock PROVE LeasesRun'
  BY <1>1 DEF Done
<1>2. ASSUME NEW w \in Workers, NEW step \in STRING \ {"idle"}, pc[w] # "idle",
             pc' = [pc EXCEPT ![w] = step], UNCHANGED <<held, clock>>
      PROVE  LeasesRun'
  BY <1>2
<1>3. ASSUME NEW w \in Workers, ClaimDue(w) PROVE LeasesRun'
  <2>1. pc' = [pc EXCEPT ![w] = "claimed"] /\ clock' = clock
    BY <1>3 DEF ClaimDue
  <2>2. /\ held' = [held EXCEPT ![w] = [id |-> rowId, kind |-> job.kind, at |-> clock]]
    BY <1>3 DEF ClaimDue
  <2>3. clock <= clock + Lease
    BY WorkAssumption
  <2>4. QED
    BY <2>1, <2>2, <2>3
<1>4. ASSUME NEW w \in Workers, Attempt(w) \/ Crash(w) PROVE LeasesRun'
  <2>1. CASE DispatchRelease(w)
    BY <2>1, <1>2 DEF DispatchRelease
  <2>2. CASE GuardActivation(w)
    BY <2>2, <1>2 DEF GuardActivation
  <2>3. CASE Answered(w)
    BY <2>3, <1>2 DEF Answered
  <2>4. CASE TimedOut(w)
    BY <2>4, <1>2 DEF TimedOut
  <2>5. CASE MarkActive(w)
    BY <2>5, <1>1 DEF MarkActive
  <2>6. CASE Verdict(w)
    BY <2>6, <1>1, <1>2 DEF Verdict
  <2>7. CASE MarkRetry(w)
    BY <2>7, <1>1 DEF MarkRetry
  <2>8. CASE Crash(w)
    BY <2>8, <1>1 DEF Crash
  <2>9. QED
    BY <1>4, <2>1, <2>2, <2>3, <2>4, <2>5, <2>6, <2>7, <2>8 DEF Attempt
<1>5. CASE Tick
  <2>1. /\ clock' = clock + 1 /\ UNCHANGED <<pc, held>>
        /\ \A w \in Workers : pc[w] # "idle" => clock + 1 <= held[w].at + Lease
    BY <1>5 DEF Tick
  <2>2. QED
    BY <2>1
<1>6. CASE UNCHANGED <<workerVars, clock>>
  BY <1>6
<1>7. QED
  BY <1>3, <1>4, <1>5, <1>6
     DEF Next, vars, refundVars, Deliver, Complete, RequeueTerminalFailed, Expire, Cancel,
         ClaimReinvoice, ReissueFails, ReissueKeeps, Reissue, WithdrawRelease, PaidCallback,
         RecordRefund, RefundRenewal, ProcessRefund, RefundEnd, RefundRelease,
         RefundEndAgain, RefundFails, RefundDone

\* A release is claimed only when nobody holds it: a live holder's lease has not
\* expired, and without a holder's claim the row is not being processed.
LEMMA ClaimedReleaseIsFree ==
    ASSUME ReleaseInv, NEW w \in Workers, ClaimDue(w), job.kind = "release",
           NEW v \in Workers, held[v].kind = "release"
    PROVE  held[v].id # rowId
<1> SUFFICES ASSUME held[v].id = rowId PROVE FALSE
  OBVIOUS
<1>1. job # NoJob
  BY DEF NoJob
<1>2. job.status = "processing" /\ last = held[v].at
  BY <1>1 DEF ReleaseInv, ReleaseFacts, ReleaseIsTheHolders
<1>3. last + Lease < clock
  BY <1>2 DEF ClaimDue, LeaseExpired
<1>4. pc[v] # "idle"
  BY DEF ReleaseInv, LeasesRun, Unclaimed
<1>5. clock <= held[v].at + Lease
  BY <1>4 DEF ReleaseInv, LeasesRun
<1>6. clock \in Nat /\ last \in Nat /\ Lease \in Nat
  BY WorkAssumption DEF ReleaseInv, TypeOK, WorkTypeOK
<1>7. QED
  BY <1>2, <1>3, <1>5, <1>6

\* The steps of a worker keep the releases apart.
LEMMA WorkerRelease ==
    ASSUME ReleaseInv, NEW w \in Workers, ClaimDue(w) \/ Attempt(w) \/ Crash(w)
    PROVE  ReleaseFacts'
<1> USE DEF ReleaseInv, ReleaseFacts, TypeOK, WorkTypeOK, WorkersTypeOK, ReleaseIsTheHolders,
            ActivationStaysOne, ExclusiveRelease, workVars
<1>1. CASE ClaimDue(w)
  <2>1. /\ job.kind \in JobKinds
        /\ job'.kind = job.kind /\ job'.status = "processing" /\ job # NoJob
    BY <1>1, ClaimedRow DEF JobKinds, NoJob
  <2>2. /\ rowId' = rowId /\ last' = clock
        /\ held' = [held EXCEPT ![w] = [id |-> rowId, kind |-> job.kind, at |-> clock]]
    BY <1>1 DEF ClaimDue
  <2>3. ASSUME NEW v \in Workers, v # w, held[v].kind = "release", job.kind = "release"
        PROVE  held[v].id # rowId
    BY <1>1, <2>3, ClaimedReleaseIsFree
  <2>4. ReleaseIsTheHolders' /\ ActivationStaysOne'
    BY <2>1, <2>2, <2>3 DEF JobKinds
  <2>5. ExclusiveRelease'
    BY <2>2, <2>3
  <2>6. QED
    BY <2>4, <2>5
<1>2. CASE DispatchRelease(w) \/ GuardActivation(w) \/ Answered(w) \/ TimedOut(w)
  BY <1>2 DEF DispatchRelease, GuardActivation, Answered, TimedOut
<1>3. CASE MarkActive(w) \/ MarkRetry(w)
  <2>1. PICK s \in JobStatuses : Record(w, s)
    BY <1>3 DEF MarkActive, MarkRetry, JobStatuses
  <2>2. job'.kind = job.kind /\ (job' # job => Matches(w))
    BY <2>1, RecordKeepsKind
  <2>3. held' = [held EXCEPT ![w] = Unclaimed] /\ rowId' = rowId /\ last' = last
    BY <1>3 DEF MarkActive, MarkRetry, Done
  <2>4. job = NoJob => job' = NoJob
    BY <2>1 DEF Record, Matches
  <2>5. pc[w] # "idle" /\ held[w].kind \in JobKinds
    BY <1>3 DEF MarkActive, MarkRetry
  <2>6. ASSUME NEW v \in Workers, v # w, held[v].kind = "release", held[v].id = rowId,
               job' # job
        PROVE  job.kind = "activation"
    <3>1. job # NoJob /\ held[w].id = rowId
      BY <2>2, <2>6 DEF Matches
    <3>2. held[w].kind # "release"
      BY <2>6, <3>1
    <3>3. QED
      BY <2>5, <3>1, <3>2 DEF JobKinds
  <2>7. ReleaseIsTheHolders' /\ ActivationStaysOne'
    BY <2>2, <2>3, <2>4, <2>6 DEF Unclaimed
  <2>8. ExclusiveRelease'
    BY <2>3 DEF Unclaimed
  <2>9. QED
    BY <2>7, <2>8
<1>4. CASE Verdict(w) \/ Crash(w)
  BY <1>4 DEF Verdict, Crash, Done, Unclaimed
<1>5. QED
  BY <1>1, <1>2, <1>3, <1>4 DEF Attempt

\* What every other step does to the row: it keeps it, inserts one under a new
\* id, withdraws it or makes an activation of it; only a job nobody works on is
\* requeued.
LEMMA OtherRowStep ==
    ASSUME TypeOK, UNCHANGED workerVars, OtherStep
    PROVE  \/ rowId' = rowId /\ last' = last
              /\ (job' = job \/ job' = NoJob \/ job'.kind = "activation")
           \/ rowId' = rowId + 1
           \/ job.status = "terminal_failed" /\ job'.kind = job.kind
              /\ rowId' = rowId /\ last' = last
<1> USE DEF TypeOK, WorkTypeOK, workVars
<1>1. CASE RequeueTerminalFailed
  <2>1. job'.kind = job.kind
    BY <1>1 DEF RequeueTerminalFailed, Jobs, NoJob
  <2>2. QED
    BY <1>1, <2>1 DEF RequeueTerminalFailed
<1>2. CASE Expire \/ Cancel
  BY <1>2 DEF Expire, Cancel, Enqueue, EnqueueRelease
<1>3. CASE PaidCallback
  BY <1>3, ActivationSurvives DEF PaidCallback, Enqueue
<1>4. CASE Reissue \/ WithdrawRelease \/ RecordRefund \/ RefundRenewal
  BY <1>4 DEF Reissue, ReissueKeeps, WithdrawRelease, RecordRefund, RefundRenewal,
              CancelPendingRelease, DropPendingActivation
<1>5. QED
  BY <1>1, <1>2, <1>3, <1>4 DEF OtherStep

\* So do the transaction, the operators and the refund job.
LEMMA OtherRelease ==
    ASSUME ReleaseInv, UNCHANGED workerVars,
           OtherStep \/ UNCHANGED <<status, job, rowId, attempts, last>>
    PROVE  ReleaseFacts'
<1> USE DEF ReleaseInv, ReleaseFacts, ReleaseIsTheHolders, ActivationStaysOne,
            ExclusiveRelease, workerVars
<1>1. ExclusiveRelease'
  OBVIOUS
<1>2. CASE UNCHANGED <<status, job, rowId, attempts, last>>
  BY <1>1, <1>2
<1>3. CASE rowId' = rowId /\ last' = last /\ (job' = job \/ job' = NoJob \/ job'.kind = "activation")
  BY <1>1, <1>3
<1>4. CASE rowId' = rowId + 1
  <2>1. \A w \in Workers : held[w].id # rowId'
    BY <1>4 DEF HeldRowsExist, TypeOK, WorkTypeOK, WorkersTypeOK
  <2>2. QED
    BY <1>1, <2>1
<1>5. CASE job.status = "terminal_failed" /\ job'.kind = job.kind /\ rowId' = rowId /\ last' = last
  <2>1. job # NoJob
    BY <1>5 DEF NoJob
  <2>2. QED
    BY <1>1, <1>5, <2>1
<1>6. QED
  BY <1>2, <1>3, <1>4, <1>5, OtherRowStep

\* Two workers never work on the release of one row at a time, as long as every
\* attempt is recorded within the lease; the lease is what keeps a second claim away.
THEOREM ReleasesAreExclusive == Timely /\ Spec => []ExclusiveRelease
<1>1. Init => LeasesRun /\ ReleaseFacts
  BY DEF Init, LeasesRun, ReleaseFacts, ReleaseIsTheHolders, ActivationStaysOne,
         ExclusiveRelease, Unclaimed
<1>2. Timely /\ LimitInv /\ LeasesRun /\ ReleaseFacts /\ [Next]_vars
        => LeasesRun' /\ ReleaseFacts'
  BY LeasesKeepRunning, WorkerOrOther, WorkerRelease, OtherRelease DEF LimitInv, ReleaseInv
<1>3. Timely => []Timely
  <2>1. Timely => Timely'
    OBVIOUS
  <2>2. QED
    BY <2>1, PTL
<1>4. ReleaseFacts => ExclusiveRelease
  BY DEF ReleaseFacts
<1>5. QED
  BY <1>1, <1>2, <1>3, <1>4, LimitInvariant, PTL DEF Spec

=============================================================================
