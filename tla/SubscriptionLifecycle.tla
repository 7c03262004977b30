----------------------- MODULE SubscriptionLifecycle -----------------------
(***************************************************************************)
(* Suspending and resuming the enrollment of one subscription: the renewal *)
(* worker that suspends it when a billing date stays unpaid, the callback  *)
(* that resumes it, the refund that ends it, and the workers that tell     *)
(* Academic.  The row subscription_lifecycle_reconciliations holds the one *)
(* action that is desired.                                                 *)
(*                                                                         *)
(* Periods are numbered; the subscription starts with period 1 unpaid.  An *)
(* instant is a tick of the clock, the precision in which the database     *)
(* stores it, and a part of a tick.                                        *)
(***************************************************************************)
EXTENDS Naturals

CONSTANTS
    Workers,     \* concurrent reconciliation workers
    Lease,       \* ticks after which a claim may be taken over
    MaxAttempts, \* attempts after which a job is given up
    Parts,       \* parts of a tick a clock may read
    MaxTime,     \* bound on the clock
    MaxPeriod    \* bound on the billing period

ASSUME ConstantsAssumption ==
    /\ Lease \in Nat
    /\ MaxAttempts \in Nat \ {0}
    /\ 0 \in Parts /\ Parts \subseteq Nat
    /\ MaxTime \in Nat
    /\ MaxPeriod \in Nat \ {0}

VARIABLES
    sub,       \* subscriptions.status
    billing,   \* the period next_billing_date begins
    invoiced,  \* a renewal of that period exists
    paid,      \* periods whose renewal is paid
    lapsed,    \* the last period whose days of grace are over
    sweeps,    \* periods SuspendOverdue calls in flight were called for
    \* the row of the subscription
    job,       \* its desired_action and status
    attempts,  \* attempt_count, up to MaxAttempts
    claimedAt, \* last_attempt_at, as the database keeps it
    \* the workers and Academic
    pc,        \* the next step of each worker
    held,      \* the job each worker claimed, and when
    seat,      \* status of the enrollment
    wire,      \* requests nobody waits for that may still reach Academic
    timely,    \* attempts end within the lease and leave nothing on the wire
    clock

subVars == <<sub, billing, invoiced, paid, lapsed, sweeps>>
jobVars == <<job, attempts, claimedAt>>
workerVars == <<pc, held>>
vars == <<subVars, jobVars, workerVars, seat, wire, timely, clock>>

Actions == {"suspend", "resume"}

NoJob == [desired |-> "none", status |-> "none"]

Jobs == [desired : Actions, status : {"pending", "processing", "active", "terminal_failed"}]

Unclaimed == [desired |-> "none", at |-> 0, part |-> 0]

SubTypeOK ==
    /\ sub \in {"active", "suspended", "cancelled"}
    /\ billing \in Nat \ {0}
    /\ invoiced \in BOOLEAN
    /\ paid \subseteq Nat
    /\ lapsed \in Nat
    /\ sweeps \subseteq Nat

WorkTypeOK ==
    /\ job \in Jobs \cup {NoJob}
    /\ attempts \in 0..MaxAttempts
    /\ claimedAt \in 0..clock
    /\ pc \in [Workers -> {"idle", "claimed", "calling", "succeeded", "failed"}]
    /\ held \in [Workers -> [desired : Actions \cup {"none"}, at : Nat, part : Nat]]
    /\ \A w \in Workers : pc[w] # "idle" => held[w].desired \in Actions

\* Types; and no claim lies in the future.
TypeOK ==
    /\ SubTypeOK
    /\ WorkTypeOK
    /\ seat \in {"active", "suspended", "dropped"}
    /\ wire \subseteq Actions
    /\ timely \in BOOLEAN
    /\ clock \in Nat

Init ==
    /\ sub = "active"
    /\ billing = 1
    /\ invoiced = FALSE
    /\ paid = {}
    /\ lapsed = 0
    /\ sweeps = {}
    /\ job = NoJob
    /\ attempts = 0
    /\ claimedAt = 0
    /\ pc = [w \in Workers |-> "idle"]
    /\ held = [w \in Workers |-> Unclaimed]
    /\ seat = "active"
    /\ wire = {}
    /\ timely \in BOOLEAN
    /\ clock = 1

-----------------------------------------------------------------------------
(* The subscription *)

Calling(w) == pc[w] = "calling"

\* Mutant: the subscription is not locked while Academic is called.
NeverLocked == TRUE

\* Nobody holds the lock on the subscriptions row, which GuardSubscription
\* keeps for as long as its call runs.
Unlocked == \A w \in Workers : ~Calling(w)

\* Days go by.
GraceEnds ==
    /\ lapsed < MaxPeriod
    /\ lapsed' = lapsed + 1
    /\ UNCHANGED <<sub, billing, invoiced, paid, sweeps, jobVars, workerVars, seat, wire,
                   timely, clock>>

\* The renewal worker invoices the period of an active subscription; the list
\* it works from may be old, and a cancelled subscription is left alone.
InvoiceRenewal ==
    /\ sub # "cancelled"
    /\ Unlocked
    /\ invoiced' = TRUE
    /\ UNCHANGED <<sub, billing, paid, lapsed, sweeps, jobVars, workerVars, seat, wire,
                   timely, clock>>

\* The renewal worker reads a subscription that is overdue.
ListOverdue ==
    /\ sub = "active"
    /\ billing <= lapsed
    /\ sweeps' = sweeps \cup {billing}
    /\ UNCHANGED <<sub, billing, invoiced, paid, lapsed, jobVars, workerVars, seat, wire,
                   timely, clock>>

\* Mutant: the subscription is suspended for what it was when it was listed.
OverdueWhenListed(p) == sub = "active"

\* The subscription still waits for the payment of period p.
StillOverdue(p) == sub = "active" /\ billing = p /\ p \notin paid

SuspendOverdue(p) ==
    /\ p \in sweeps
    /\ Unlocked
    /\ sweeps' = sweeps \ {p}
    /\ IF StillOverdue(p)
       THEN /\ sub' = "suspended"
            /\ job' = [desired |-> "suspend", status |-> "pending"]
            /\ attempts' = 0
       ELSE UNCHANGED <<sub, job, attempts>>
    /\ UNCHANGED <<billing, invoiced, paid, lapsed, claimedAt, workerVars, seat, wire,
                   timely, clock>>

\* Mutant: a job in flight is not rewritten.
ResumedIfIdle(j) ==
    IF j.status = "processing" THEN j ELSE [desired |-> "resume", status |-> "pending"]

\* ResumePaid leaves a job in flight processing.
Resumed(j) ==
    [desired |-> "resume", status |-> IF j.status = "processing" THEN "processing" ELSE "pending"]

\* The success callback of the renewal of the current period.  The renewal of a
\* refunded subscription is recorded as paid, and that is all.
RenewalPaid ==
    /\ invoiced
    /\ billing \notin paid
    /\ billing < MaxPeriod
    /\ Unlocked
    /\ paid' = paid \cup {billing}
    /\ IF sub = "cancelled"
       THEN UNCHANGED <<sub, billing, invoiced, job, attempts>>
       ELSE /\ sub' = "active"
            /\ billing' = billing + 1
            /\ invoiced' = FALSE
            /\ IF sub = "suspended"
               THEN job' = Resumed(job) /\ attempts' = 0
               ELSE UNCHANGED <<job, attempts>>
    /\ UNCHANGED <<lapsed, sweeps, claimedAt, workerVars, seat, wire, timely, clock>>

\* The job of a refunded subscription counts as done.
EndedByRefund(j) == IF j = NoJob THEN j ELSE [j EXCEPT !.status = "active"]

\* A payment of the subscription is refunded.
RecordRefund ==
    /\ sub # "cancelled"
    /\ Unlocked
    /\ sub' = "cancelled"
    /\ job' = EndedByRefund(job)
    /\ UNCHANGED <<billing, invoiced, paid, lapsed, sweeps, attempts, claimedAt,
                   workerVars, seat, wire, timely, clock>>

-----------------------------------------------------------------------------
(* The workers *)

\* The claim of the row is older than the lease.
LeaseExpired == claimedAt + Lease < clock

\* The worker keeps the instant it read; the row keeps its tick.  No two claims
\* of the row fall in one tick.
ClaimLifecycle(w, part) ==
    /\ pc[w] = "idle"
    /\ claimedAt < clock
    /\ \/ job.status = "pending"
       \/ job.status = "processing" /\ LeaseExpired
    /\ job' = [job EXCEPT !.status = "processing"]
    /\ attempts' = IF attempts < MaxAttempts THEN attempts + 1 ELSE attempts
    /\ claimedAt' = clock
    /\ pc' = [pc EXCEPT ![w] = "claimed"]
    /\ held' = [held EXCEPT ![w] = [desired |-> job.desired, at |-> clock, part |-> part]]
    /\ UNCHANGED <<subVars, seat, wire, timely, clock>>

\* The call of a refunded subscription counts as made.
GuardSubscription(w) ==
    /\ pc[w] = "claimed"
    /\ Unlocked
    /\ pc' = [pc EXCEPT ![w] = IF sub = "cancelled" THEN "succeeded" ELSE "calling"]
    /\ UNCHANGED <<subVars, jobVars, held, seat, wire, timely, clock>>

\* What a request leaves of an enrollment in state s; one that was dropped stays.
Effect(action, s) ==
    CASE s = "dropped"       -> "dropped"
      [] action = "suspend"  -> "suspended"
      [] action = "resume"   -> "active"

Answered(w) ==
    /\ Calling(w)
    /\ seat' = Effect(held[w].desired, seat)
    /\ pc' = [pc EXCEPT ![w] = IF seat = "dropped" THEN "failed" ELSE "succeeded"]
    /\ UNCHANGED <<subVars, jobVars, held, wire, timely, clock>>

\* The call reports an error, whether or not Academic received the request; it
\* may even receive it later.
TimedOut(w) ==
    /\ Calling(w)
    /\ pc' = [pc EXCEPT ![w] = "failed"]
    /\ IF timely
       THEN seat' \in {seat, Effect(held[w].desired, seat)} /\ UNCHANGED wire
       ELSE wire' = wire \cup {held[w].desired} /\ UNCHANGED seat
    /\ UNCHANGED <<subVars, jobVars, held, timely, clock>>

\* Mutant: the instants are not compared.
ClaimKept(w) == job.status = "processing"

\* The row still carries the claim of the worker: the instant it kept is the one
\* the database gives back.
OwnsClaim(w) ==
    /\ job.status = "processing"
    /\ held[w].at = claimedAt /\ held[w].part = 0

\* The action the worker called for is still the desired one.
StillDesired(w) == job.desired = held[w].desired

FinishLifecycle(w) ==
    /\ pc[w] \in {"succeeded", "failed"}
    /\ \/ ~OwnsClaim(w) /\ UNCHANGED <<job, attempts>>
       \/ /\ OwnsClaim(w) /\ ~StillDesired(w)
          /\ job' = [job EXCEPT !.status = "pending"]
          /\ attempts' = 0
       \/ /\ OwnsClaim(w) /\ StillDesired(w)
          /\ job' = [job EXCEPT !.status =
                       CASE pc[w] = "succeeded"        -> "active"
                         [] pc[w] = "failed" /\ attempts >= MaxAttempts -> "terminal_failed"
                         [] OTHER                      -> "pending"]
          /\ UNCHANGED attempts
    /\ pc' = [pc EXCEPT ![w] = "idle"]
    /\ held' = [held EXCEPT ![w] = Unclaimed]
    /\ UNCHANGED <<subVars, claimedAt, seat, wire, timely, clock>>

\* The process dies, or cannot record the outcome.
Crash(w) ==
    /\ pc[w] # "idle"
    /\ pc' = [pc EXCEPT ![w] = "idle"]
    /\ held' = [held EXCEPT ![w] = Unclaimed]
    /\ wire' = IF Calling(w) /\ ~timely THEN wire \cup {held[w].desired} ELSE wire
    /\ UNCHANGED <<subVars, jobVars, seat, timely, clock>>

-----------------------------------------------------------------------------
(* Academic and time *)

Deliver(action) ==
    /\ action \in wire
    /\ wire' = wire \ {action}
    /\ seat' \in {seat, Effect(action, seat)}
    /\ UNCHANGED <<subVars, jobVars, workerVars, timely, clock>>

\* ProcessRefund ends the enrollment.
EndRefunded ==
    /\ sub = "cancelled" /\ seat # "dropped"
    /\ seat' = "dropped"
    /\ UNCHANGED <<subVars, jobVars, workerVars, wire, timely, clock>>

Tick ==
    /\ clock < MaxTime
    /\ timely => \A w \in Workers : pc[w] # "idle" => clock + 1 <= held[w].at + Lease
    /\ clock' = clock + 1
    /\ UNCHANGED <<subVars, jobVars, workerVars, seat, wire, timely>>

Next ==
    \/ GraceEnds \/ InvoiceRenewal \/ ListOverdue \/ RenewalPaid \/ RecordRefund
    \/ \E p \in 1..MaxPeriod : SuspendOverdue(p)
    \/ \E w \in Workers :
         \/ \E part \in Parts : ClaimLifecycle(w, part)
         \/ GuardSubscription(w) \/ Answered(w) \/ TimedOut(w) \/ FinishLifecycle(w)
         \/ Crash(w)
    \/ \E action \in Actions : Deliver(action)
    \/ EndRefunded \/ Tick

Spec == Init /\ [][Next]_vars

-----------------------------------------------------------------------------
(* Properties *)

\* A subscription is suspended only over the period it stands at, unpaid and
\* past its days of grace, also when its payment overtakes the sweep.
SuspendedIsOverdue == sub = "suspended" => billing <= lapsed /\ billing \notin paid

\* The desired action follows the subscription, whatever was in flight when it
\* changed.
DesiredFollowsSubscription ==
    /\ sub = "suspended" => job.desired = "suspend"
    /\ sub = "active" /\ job # NoJob => job.desired = "resume"

\* The outcome of an overtaken call never completes the action that replaced it.
OvertakenCompletesNothing ==
    [][\A w \in Workers :
         FinishLifecycle(w) /\ job.status = "processing" /\ job'.status = "active"
             => job.desired = held[w].desired]_vars

\* Academic is not told to suspend or resume an enrollment once it was refunded.
NoCallOnceRefunded == \A w \in Workers : Calling(w) => sub # "cancelled"

\* While the attempt that claimed the row last is under way, nobody else settles
\* the row: only the attempt itself, or a refund, does.
SettledByItsClaim ==
    sub # "cancelled" /\ job.status \in {"active", "terminal_failed"}
        => \A w \in Workers : pc[w] # "idle" => held[w].at < claimedAt

\* A worker that ends the attempt it claimed leaves its outcome in the row.
OutcomeIsRecorded ==
    [][\A w \in Workers :
         /\ FinishLifecycle(w)
         /\ job.status = "processing" /\ held[w].at = claimedAt
         => job'.status # "processing"]_vars

=============================================================================
