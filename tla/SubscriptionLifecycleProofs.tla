--------------------- MODULE SubscriptionLifecycleProofs ---------------------
(***************************************************************************)
(* Theorems about SubscriptionLifecycle, for any number of workers, any    *)
(* lease and attempt limit, and clocks of any precision.                   *)
(***************************************************************************)
EXTENDS SubscriptionLifecycle, TLAPS

\* A sweep is only under way for a period whose days of grace are over.
SweepsLapsed == \A p \in sweeps : p <= lapsed

\* Every claim under way was made at a time of its own, the row's the last.
ClaimsApart ==
    \A v, w \in Workers :
        pc[w] # "idle" => /\ held[w].at <= claimedAt
                          /\ pc[v] # "idle" /\ held[v].at = held[w].at => v = w

\* A claim is as precise as the clock it was read from.
PartsRead == \A w \in Workers : held[w].part \in Parts \cup {0}

IInv ==
    /\ TypeOK
    /\ SweepsLapsed
    /\ SuspendedIsOverdue
    /\ DesiredFollowsSubscription
    /\ NoCallOnceRefunded
    /\ ClaimsApart
    /\ PartsRead
    /\ SettledByItsClaim

-----------------------------------------------------------------------------
(* Types *)

\* What a worker holds is a record of this shape.
HeldRecords == [desired : Actions \cup {"none"}, at : Nat, part : Nat]

\* A worker that stops leaves the others as they are.
LEMMA Stops ==
    ASSUME TypeOK, NEW w \in Workers,
           pc' = [pc EXCEPT ![w] = "idle"], held' = [held EXCEPT ![w] = Unclaimed]
    PROVE  /\ pc' \in [Workers -> {"idle", "claimed", "calling", "succeeded", "failed"}]
           /\ held' \in [Workers -> HeldRecords]
           /\ pc'[w] = "idle" /\ held'[w].part = 0
           /\ \A v \in Workers \ {w} : pc'[v] = pc[v] /\ held'[v] = held[v]
<1>1. Unclaimed \in HeldRecords /\ Unclaimed.part = 0
  BY DEF Unclaimed, HeldRecords
<1>2. QED
  BY <1>1 DEF TypeOK, WorkTypeOK, HeldRecords

\* A row that is claimed or may be claimed has an action.
LEMMA JobHasAction ==
    ASSUME TypeOK, job.status # "none"
    PROVE  job \in Jobs /\ job.desired \in Actions
  BY DEF TypeOK, WorkTypeOK, Jobs, NoJob

\* Rewriting the status of a row leaves its action.
LEMMA StatusRewritten ==
    ASSUME NEW j \in Jobs, NEW s \in {"pending", "processing", "active", "terminal_failed"}
    PROVE  /\ [j EXCEPT !.status = s] \in Jobs
           /\ [j EXCEPT !.status = s].desired = j.desired
           /\ [j EXCEPT !.status = s].status = s
  BY DEF Jobs

\* A request leaves the enrollment in one of its states.
LEMMA EffectTyped ==
    ASSUME NEW action \in Actions, NEW s \in {"active", "suspended", "dropped"}
    PROVE  Effect(action, s) \in {"active", "suspended", "dropped"}
  BY DEF Effect, Actions

\* Every step keeps the types.
LEMMA TypeStep ==
    ASSUME TypeOK, Next
    PROVE  TypeOK'
<1> USE ConstantsAssumption
<1>0. /\ claimedAt \in 0..clock /\ clock \in Nat /\ attempts \in 0..MaxAttempts
      /\ MaxAttempts \in Nat \ {0} /\ billing \in Nat \ {0} /\ lapsed \in Nat /\ wire \subseteq Actions
  BY DEF TypeOK, SubTypeOK, WorkTypeOK
<1>1. CASE GraceEnds \/ InvoiceRenewal \/ ListOverdue
  <2>1. SubTypeOK
    BY DEF TypeOK
  <2>2. SubTypeOK'
    <3>1. /\ lapsed' = lapsed \/ lapsed' = lapsed + 1
          /\ sweeps' = sweeps \/ sweeps' = sweeps \cup {billing}
      BY <1>1, Zenon DEF GraceEnds, InvoiceRenewal, ListOverdue
    <3>2. sub' = sub /\ billing' = billing /\ paid' = paid
      BY <1>1 DEF GraceEnds, InvoiceRenewal, ListOverdue
    <3>3. invoiced' \in BOOLEAN
      <4>1. CASE InvoiceRenewal
        <5>1. invoiced' = TRUE
          BY <4>1, Zenon DEF InvoiceRenewal
        <5>2. QED
          BY <5>1, Zenon
      <4>2. CASE GraceEnds \/ ListOverdue
        <5>1. invoiced' = invoiced
          BY <4>2, Zenon DEF GraceEnds, ListOverdue
        <5>2. QED
          BY <2>1, <5>1, Zenon DEF SubTypeOK
      <4>3. QED
        BY <1>1, <4>1, <4>2
    <3>4. lapsed' \in Nat /\ sweeps' \subseteq Nat
      <4>1. sweeps \subseteq Nat
        BY <2>1, Zenon DEF SubTypeOK
      <4>2. sweeps \cup {billing} \subseteq Nat
        BY <1>0, <4>1
      <4>3. sweeps' \subseteq Nat
        BY <3>1, <4>1, <4>2, Zenon
      <4>4. lapsed' \in Nat
        BY <1>0, <3>1
      <4>5. QED
        BY <4>3, <4>4
    <3>5. QED
      BY <2>1, <3>2, <3>3, <3>4 DEF SubTypeOK
  <2>3. UNCHANGED <<jobVars, workerVars, seat, wire, timely, clock>>
    BY <1>1 DEF GraceEnds, InvoiceRenewal, ListOverdue
  <2>4. QED
    BY <2>2, <2>3 DEF TypeOK, WorkTypeOK, jobVars, workerVars
<1>2. CASE RenewalPaid
  <2>0. \/ UNCHANGED <<sub, billing, invoiced, job, attempts>>
        \/ /\ sub' = "active" /\ billing' = billing + 1 /\ invoiced' = FALSE
           /\ \/ job' = Resumed(job) /\ attempts' = 0
              \/ UNCHANGED <<job, attempts>>
    BY <1>2, Zenon DEF RenewalPaid
  <2>1. SubTypeOK'
    <3>1. SubTypeOK
      BY DEF TypeOK
    <3>2. invoiced' \in BOOLEAN
      BY <2>0, <3>1, Zenon DEF SubTypeOK
    <3>3. sub' \in {"active", "suspended", "cancelled"} /\ billing' \in Nat \ {0}
      BY <1>0, <2>0, <3>1 DEF SubTypeOK
    <3>4. paid' \subseteq Nat /\ lapsed' = lapsed /\ sweeps' = sweeps
      BY <1>0, <1>2, <3>1 DEF RenewalPaid, SubTypeOK
    <3>5. QED
      BY <3>1, <3>2, <3>3, <3>4 DEF SubTypeOK
  <2>2. job' \in Jobs \cup {NoJob} /\ attempts' \in 0..MaxAttempts
    <3>1. job \in Jobs \cup {NoJob} /\ Resumed(job) \in Jobs
      BY DEF Resumed, Jobs, Actions, TypeOK, WorkTypeOK
    <3>2. QED
      BY <1>0, <2>0, <3>1
  <2>3. QED
    BY <1>2, <2>1, <2>2 DEF RenewalPaid, TypeOK, WorkTypeOK, workerVars
<1>3. CASE RecordRefund
  <2>1. job' \in Jobs \cup {NoJob}
    BY <1>3, StatusRewritten DEF RecordRefund, EndedByRefund, TypeOK, WorkTypeOK
  <2>2. QED
    BY <1>3, <2>1 DEF RecordRefund, TypeOK, SubTypeOK, WorkTypeOK, workerVars
<1>4. ASSUME NEW p \in 1..MaxPeriod, SuspendOverdue(p) PROVE TypeOK'
  <2>1. SubTypeOK'
    BY <1>4 DEF SuspendOverdue, TypeOK, SubTypeOK
  <2>2. job' \in Jobs \cup {NoJob} /\ attempts' \in 0..MaxAttempts
    BY <1>0, <1>4 DEF SuspendOverdue, Jobs, Actions, TypeOK, WorkTypeOK
  <2>3. QED
    BY <1>4, <2>1, <2>2 DEF SuspendOverdue, TypeOK, WorkTypeOK, workerVars
<1>5. ASSUME NEW w \in Workers, NEW part \in Parts, ClaimLifecycle(w, part) PROVE TypeOK'
  <2>1. job \in Jobs /\ job.desired \in Actions
    BY <1>5, JobHasAction DEF ClaimLifecycle
  <2>2. job' \in Jobs
    BY <1>5, <2>1, StatusRewritten DEF ClaimLifecycle
  <2>3. attempts' \in 0..MaxAttempts /\ claimedAt' \in 0..clock
    BY <1>0, <1>5 DEF ClaimLifecycle
  <2>4. pc' \in [Workers -> {"idle", "claimed", "calling", "succeeded", "failed"}]
    BY <1>5 DEF ClaimLifecycle, TypeOK, WorkTypeOK
  <2>5. /\ held' \in [Workers -> HeldRecords]
        /\ \A v \in Workers : pc'[v] # "idle" => held'[v].desired \in Actions
    BY <1>0, <1>5, <2>1 DEF ClaimLifecycle, TypeOK, WorkTypeOK, HeldRecords
  <2>6. QED
    BY <1>5, <2>2, <2>3, <2>4, <2>5 DEF ClaimLifecycle, TypeOK, SubTypeOK, WorkTypeOK, HeldRecords, subVars
<1>6. ASSUME NEW w \in Workers, GuardSubscription(w) PROVE TypeOK'
  <2>1. /\ pc' \in [Workers -> {"idle", "claimed", "calling", "succeeded", "failed"}]
        /\ \A v \in Workers : pc'[v] # "idle" => pc[v] # "idle"
    BY <1>6 DEF GuardSubscription, TypeOK, WorkTypeOK
  <2>2. QED
    BY <1>6, <2>1 DEF GuardSubscription, TypeOK, SubTypeOK, WorkTypeOK, subVars, jobVars
<1>7. ASSUME NEW w \in Workers, Answered(w) \/ TimedOut(w) PROVE TypeOK'
  <2>1. held[w].desired \in Actions /\ seat \in {"active", "suspended", "dropped"}
    BY <1>7 DEF Answered, TimedOut, Calling, TypeOK, WorkTypeOK
  <2>2. seat' \in {"active", "suspended", "dropped"} /\ wire' \subseteq Actions
    BY <1>0, <1>7, <2>1, EffectTyped DEF Answered, TimedOut
  <2>3. /\ pc' \in [Workers -> {"idle", "claimed", "calling", "succeeded", "failed"}]
        /\ \A v \in Workers : pc'[v] # "idle" => pc[v] # "idle"
    BY <1>7 DEF Answered, TimedOut, Calling, TypeOK, WorkTypeOK
  <2>4. QED
    BY <1>7, <2>2, <2>3 DEF Answered, TimedOut, TypeOK, SubTypeOK, WorkTypeOK, subVars, jobVars
<1>8. ASSUME NEW w \in Workers, FinishLifecycle(w) \/ Crash(w) PROVE TypeOK'
  <2>1. /\ pc' \in [Workers -> {"idle", "claimed", "calling", "succeeded", "failed"}]
        /\ held' \in [Workers -> HeldRecords]
        /\ \A v \in Workers : pc'[v] # "idle" => pc[v] # "idle" /\ held'[v] = held[v]
    BY <1>8, Stops DEF FinishLifecycle, Crash
  <2>2. job' \in Jobs \cup {NoJob} /\ attempts' \in 0..MaxAttempts
    <3>1. CASE UNCHANGED job
      BY <1>0, <1>8, <3>1 DEF FinishLifecycle, Crash, jobVars, TypeOK, WorkTypeOK
    <3>2. CASE ~UNCHANGED job
      <4>1. OwnsClaim(w) /\ FinishLifecycle(w)
        BY <1>8, <3>2 DEF FinishLifecycle, Crash, jobVars
      <4>2. job \in Jobs
        BY <4>1, JobHasAction DEF OwnsClaim
      <4>3. attempts' \in 0..MaxAttempts
        BY <1>0, <4>1 DEF FinishLifecycle
      <4>4. \E s \in {"pending", "processing", "active", "terminal_failed"} :
                job' = [job EXCEPT !.status = s]
        BY <4>1 DEF FinishLifecycle
      <4>5. QED
        BY <4>2, <4>3, <4>4, StatusRewritten
    <3>3. QED
      BY <3>1, <3>2
  <2>3. /\ UNCHANGED <<sub, billing, invoiced, paid, lapsed, sweeps, claimedAt, seat, timely, clock>>
        /\ wire' \subseteq Actions
    <3>1. Calling(w) => held[w].desired \in Actions
      BY DEF Calling, TypeOK, WorkTypeOK
    <3>2. QED
      BY <1>0, <1>8, <3>1 DEF FinishLifecycle, Crash, subVars, jobVars
  <2>4. QED
    BY <2>1, <2>2, <2>3 DEF TypeOK, SubTypeOK, WorkTypeOK, HeldRecords
<1>9. CASE EndRefunded \/ Tick \/ \E action \in Actions : Deliver(action)
  <2>1. /\ UNCHANGED <<subVars, jobVars, workerVars, timely>>
        /\ clock' \in Nat /\ claimedAt' \in 0..clock' /\ wire' \subseteq Actions
    BY <1>0, <1>9 DEF EndRefunded, Tick, Deliver, jobVars
  <2>2. seat' \in {"active", "suspended", "dropped"}
    BY <1>9, EffectTyped DEF EndRefunded, Tick, Deliver, TypeOK
  <2>3. QED
    BY <2>1, <2>2 DEF TypeOK, SubTypeOK, WorkTypeOK, subVars, jobVars, workerVars
<1>10. QED
  BY <1>1, <1>2, <1>3, <1>4, <1>5, <1>6, <1>7, <1>8, <1>9 DEF Next

-----------------------------------------------------------------------------
(* The subscription and its desired action *)

\* Suspension and desired action follow the subscription through every step.
LEMMA SubscriptionStep ==
    ASSUME TypeOK, TypeOK', SweepsLapsed, SuspendedIsOverdue, DesiredFollowsSubscription, Next
    PROVE  SweepsLapsed' /\ SuspendedIsOverdue' /\ DesiredFollowsSubscription'
<1> USE DEF SweepsLapsed, SuspendedIsOverdue
<1>0. /\ billing \in Nat /\ lapsed \in Nat /\ sweeps \subseteq Nat /\ job \in Jobs \cup {NoJob}
      /\ NoJob.status = "none"
  BY DEF TypeOK, SubTypeOK, WorkTypeOK, NoJob
<1>1. CASE GraceEnds
  BY <1>0, <1>1 DEF GraceEnds, jobVars, DesiredFollowsSubscription
<1>2. CASE InvoiceRenewal
  BY <1>2 DEF InvoiceRenewal, jobVars, DesiredFollowsSubscription
<1>3. CASE ListOverdue
  BY <1>3 DEF ListOverdue, jobVars, DesiredFollowsSubscription
<1>4. CASE RenewalPaid
  <2>1. /\ billing \notin paid /\ lapsed' = lapsed /\ sweeps' = sweeps
        /\ \/ /\ sub = "cancelled" /\ sub' = "cancelled"
           \/ /\ sub # "cancelled" /\ sub' = "active"
              /\ \/ sub = "suspended" /\ job' = Resumed(job)
                 \/ sub # "suspended" /\ job' = job
    BY <1>4, Zenon DEF RenewalPaid
  <2>2. Resumed(job).desired = "resume"
    BY DEF Resumed
  <2>3. sub \in {"active", "suspended", "cancelled"}
    BY DEF TypeOK, SubTypeOK
  <2>4. QED
    BY <2>1, <2>2, <2>3 DEF DesiredFollowsSubscription
<1>5. CASE RecordRefund
  BY <1>5 DEF RecordRefund, DesiredFollowsSubscription
<1>6. ASSUME NEW p \in 1..MaxPeriod, SuspendOverdue(p)
      PROVE  SweepsLapsed' /\ SuspendedIsOverdue' /\ DesiredFollowsSubscription'
  <2>1. /\ p \in sweeps /\ sweeps' = sweeps \ {p}
        /\ lapsed' = lapsed /\ billing' = billing /\ paid' = paid
    BY <1>6 DEF SuspendOverdue
  <2>2. CASE StillOverdue(p)
    BY <1>6, <2>1, <2>2 DEF SuspendOverdue, StillOverdue, DesiredFollowsSubscription
  <2>3. CASE ~StillOverdue(p)
    BY <1>6, <2>1, <2>3 DEF SuspendOverdue, DesiredFollowsSubscription
  <2>4. QED
    BY <2>2, <2>3
<1>7. ASSUME UNCHANGED subVars,
             \/ job' = job
             \/ job.status # "none" /\ job'.desired = job.desired
      PROVE  SweepsLapsed' /\ SuspendedIsOverdue' /\ DesiredFollowsSubscription'
  BY <1>0, <1>7 DEF subVars, DesiredFollowsSubscription
<1>8. ASSUME NEW w \in Workers, NEW part \in Parts, ClaimLifecycle(w, part)
      PROVE  SweepsLapsed' /\ SuspendedIsOverdue' /\ DesiredFollowsSubscription'
  <2>1. job \in Jobs /\ job.status # "none"
    BY <1>8, JobHasAction DEF ClaimLifecycle
  <2>2. job'.desired = job.desired
    BY <1>8, <2>1, StatusRewritten DEF ClaimLifecycle
  <2>3. QED
    BY <1>7, <1>8, <2>1, <2>2 DEF ClaimLifecycle
<1>9. ASSUME NEW w \in Workers, FinishLifecycle(w)
      PROVE  SweepsLapsed' /\ SuspendedIsOverdue' /\ DesiredFollowsSubscription'
  <2>1. CASE job' = job
    BY <1>7, <1>9, <2>1 DEF FinishLifecycle
  <2>2. CASE job' # job
    <3>1. OwnsClaim(w) /\ job.status # "none" /\ job \in Jobs
      BY <1>9, <2>2, JobHasAction DEF FinishLifecycle, OwnsClaim
    <3>2. \E s \in {"pending", "processing", "active", "terminal_failed"} :
              job' = [job EXCEPT !.status = s]
      BY <1>9, <2>2, <3>1 DEF FinishLifecycle
    <3>3. QED
      BY <1>7, <1>9, <3>1, <3>2, StatusRewritten DEF FinishLifecycle
  <2>3. QED
    BY <2>1, <2>2
<1>10. QED
  BY <1>1, <1>2, <1>3, <1>4, <1>5, <1>6, <1>7, <1>8, <1>9 DEF Next, GuardSubscription, Answered,
     TimedOut, Crash, Deliver, EndRefunded, Tick, jobVars

-----------------------------------------------------------------------------
(* The claims *)

\* A step of no worker keeps the claims apart.
LEMMA ClaimsQuiet ==
    ASSUME TypeOK, ClaimsApart, PartsRead, SettledByItsClaim, NoCallOnceRefunded,
           UNCHANGED <<workerVars, claimedAt>>,
           sub' = "cancelled" => sub = "cancelled" \/ Unlocked,
           sub = "cancelled" => sub' = "cancelled",
           sub' # "cancelled" /\ job'.status \in {"active", "terminal_failed"} => job' = job
    PROVE  ClaimsApart' /\ PartsRead' /\ SettledByItsClaim' /\ NoCallOnceRefunded'
  BY DEF ClaimsApart, PartsRead, SettledByItsClaim, NoCallOnceRefunded, Unlocked, Calling, workerVars

\* A worker that goes on with its claim keeps the claims apart.
LEMMA ClaimsMove ==
    ASSUME TypeOK, ClaimsApart, PartsRead, SettledByItsClaim, NoCallOnceRefunded,
           NEW w \in Workers, pc[w] # "idle", pc'[w] # "idle",
           \A v \in Workers \ {w} : pc'[v] = pc[v],
           pc'[w] = "calling" => sub # "cancelled",
           UNCHANGED <<sub, jobVars, held>>
    PROVE  ClaimsApart' /\ PartsRead' /\ SettledByItsClaim' /\ NoCallOnceRefunded'
<1>1. \A v \in Workers : pc'[v] # "idle" <=> pc[v] # "idle"
  OBVIOUS
<1>2. NoCallOnceRefunded'
  BY DEF NoCallOnceRefunded, Calling
<1>3. QED
  BY <1>1, <1>2 DEF ClaimsApart, PartsRead, SettledByItsClaim, jobVars

\* Claims stay apart, and the row is settled by its own, through every step.
LEMMA ClaimsStep ==
    ASSUME TypeOK, ClaimsApart, PartsRead, SettledByItsClaim, NoCallOnceRefunded, Next
    PROVE  ClaimsApart' /\ PartsRead' /\ SettledByItsClaim' /\ NoCallOnceRefunded'
<1> DEFINE Goal == ClaimsApart' /\ PartsRead' /\ SettledByItsClaim' /\ NoCallOnceRefunded'
<1>1. CASE \/ GraceEnds \/ InvoiceRenewal \/ ListOverdue \/ EndRefunded \/ Tick
           \/ \E action \in Actions : Deliver(action)
  <2>1. UNCHANGED <<workerVars, claimedAt, sub, job>>
    BY <1>1 DEF GraceEnds, InvoiceRenewal, ListOverdue, EndRefunded, Tick, Deliver, subVars, jobVars
  <2>2. QED
    BY <2>1, ClaimsQuiet
<1>2. CASE RenewalPaid
  <2>1. /\ UNCHANGED <<workerVars, claimedAt>>
        /\ \/ sub = "cancelled" /\ sub' = "cancelled"
           \/ sub # "cancelled" /\ sub' = "active" /\ (job' = job \/ job' = Resumed(job))
    BY <1>2, Zenon DEF RenewalPaid
  <2>2. Resumed(job).status \in {"pending", "processing"}
    BY DEF Resumed
  <2>3. QED
    BY <2>1, <2>2, ClaimsQuiet
<1>3. CASE RecordRefund
  BY <1>3, ClaimsQuiet DEF RecordRefund
<1>4. ASSUME NEW p \in 1..MaxPeriod, SuspendOverdue(p) PROVE Goal
  <2>1. /\ UNCHANGED <<workerVars, claimedAt>>
        /\ \/ sub' = sub /\ job' = job
           \/ sub = "active" /\ sub' = "suspended" /\ job'.status = "pending"
    BY <1>4 DEF SuspendOverdue, StillOverdue
  <2>2. QED
    BY <2>1, ClaimsQuiet
<1>5. ASSUME NEW w \in Workers, NEW part \in Parts, ClaimLifecycle(w, part) PROVE Goal
  <2>1. /\ claimedAt \in Nat /\ clock \in Nat /\ claimedAt < clock /\ claimedAt' = clock
        /\ sub' = sub /\ pc'[w] = "claimed" /\ held'[w].at = clock /\ held'[w].part = part
        /\ \A v \in Workers \ {w} : pc'[v] = pc[v] /\ held'[v] = held[v]
    BY <1>5 DEF ClaimLifecycle, TypeOK, WorkTypeOK, subVars
  <2>2. \A v \in Workers : held[v].at \in Nat
    BY DEF TypeOK, WorkTypeOK
  <2>3. job'.status = "processing"
    BY <1>5, JobHasAction, StatusRewritten DEF ClaimLifecycle
  <2>4. \A v \in Workers \ {w} : pc'[v] # "idle" => held'[v].at < clock
    BY <2>1, <2>2 DEF ClaimsApart
  <2>5. ClaimsApart'
    BY <2>1, <2>2, <2>4 DEF ClaimsApart
  <2>6. PartsRead' /\ SettledByItsClaim' /\ NoCallOnceRefunded'
    BY <2>1, <2>3 DEF PartsRead, SettledByItsClaim, NoCallOnceRefunded, Calling
  <2>7. QED
    BY <2>5, <2>6
<1>6. ASSUME NEW w \in Workers, GuardSubscription(w) \/ Answered(w) \/ TimedOut(w) PROVE Goal
  <2>1. /\ pc[w] # "idle" /\ pc'[w] # "idle"
        /\ pc'[w] = "calling" => sub # "cancelled"
        /\ \A v \in Workers \ {w} : pc'[v] = pc[v]
    BY <1>6 DEF GuardSubscription, Answered, TimedOut, Calling, TypeOK, WorkTypeOK
  <2>2. UNCHANGED <<sub, jobVars, held>>
    BY <1>6 DEF GuardSubscription, Answered, TimedOut, subVars
  <2>3. QED
    BY <2>1, <2>2, ClaimsMove
<1>7. ASSUME NEW w \in Workers, FinishLifecycle(w) \/ Crash(w) PROVE Goal
  <2>1. /\ pc'[w] = "idle" /\ held'[w].part = 0
        /\ \A v \in Workers \ {w} : pc'[v] = pc[v] /\ held'[v] = held[v]
        /\ sub' = sub /\ claimedAt' = claimedAt
    BY <1>7, Stops DEF FinishLifecycle, Crash, subVars, jobVars
  <2>2. ClaimsApart' /\ PartsRead' /\ NoCallOnceRefunded'
    BY <2>1 DEF ClaimsApart, PartsRead, NoCallOnceRefunded, Calling
  <2>3. SettledByItsClaim'
    <3>1. CASE job' = job
      BY <2>1, <3>1 DEF SettledByItsClaim
    <3>2. CASE job' # job
      <4>0. ~Crash(w)
        BY <3>2 DEF Crash, jobVars
      <4>1. pc[w] # "idle" /\ held[w].at = claimedAt
        BY <1>7, <3>2, <4>0 DEF FinishLifecycle, OwnsClaim
      <4>2. \A v \in Workers : held[v].at \in Nat
        BY DEF TypeOK, WorkTypeOK
      <4>3. \A v \in Workers \ {w} : pc[v] # "idle" => held[v].at < claimedAt
        <5>1. claimedAt \in Nat
          BY DEF TypeOK, WorkTypeOK
        <5>2. QED
          BY <4>1, <4>2, <5>1 DEF ClaimsApart
      <4>4. QED
        BY <2>1, <4>3 DEF SettledByItsClaim
    <3>3. QED
      BY <3>1, <3>2
  <2>4. QED
    BY <2>2, <2>3
<1>8. QED
  BY <1>1, <1>2, <1>3, <1>4, <1>5, <1>6, <1>7 DEF Next

-----------------------------------------------------------------------------
(* The invariant, and what follows *)

\* The subscription starts paid up, without a row and with idle workers.
LEMMA IInvInit == Init => IInv
<1> SUFFICES ASSUME Init PROVE IInv
  OBVIOUS
<1>1. TypeOK
  <2>1. Unclaimed \in HeldRecords
    BY DEF Unclaimed, HeldRecords
  <2>2. SubTypeOK
    <3>1. invoiced \in BOOLEAN
      BY Zenon DEF Init
    <3>2. QED
      BY <3>1 DEF Init, SubTypeOK
  <2>3. WorkTypeOK
    BY <2>1, ConstantsAssumption DEF Init, WorkTypeOK, HeldRecords
  <2>4. timely \in BOOLEAN
    BY Zenon DEF Init
  <2>5. QED
    BY <2>2, <2>3, <2>4 DEF Init, TypeOK
<1>2. SweepsLapsed /\ SuspendedIsOverdue /\ DesiredFollowsSubscription
  BY DEF Init, SweepsLapsed, SuspendedIsOverdue, DesiredFollowsSubscription
<1>3. ClaimsApart /\ PartsRead /\ SettledByItsClaim /\ NoCallOnceRefunded
  BY DEF Init, ClaimsApart, PartsRead, SettledByItsClaim, NoCallOnceRefunded, Calling, NoJob,
     Unclaimed
<1>4. QED
  BY <1>1, <1>2, <1>3 DEF IInv

\* Every step of the subscription and its workers keeps the invariant.
LEMMA IInvNext == IInv /\ [Next]_vars => IInv'
<1> SUFFICES ASSUME IInv, [Next]_vars PROVE IInv'
  OBVIOUS
<1>1. CASE Next
  <2>1. TypeOK'
    BY <1>1, TypeStep DEF IInv
  <2>2. SweepsLapsed' /\ SuspendedIsOverdue' /\ DesiredFollowsSubscription'
    BY <1>1, <2>1, SubscriptionStep DEF IInv
  <2>3. ClaimsApart' /\ PartsRead' /\ SettledByItsClaim' /\ NoCallOnceRefunded'
    BY <1>1, ClaimsStep DEF IInv
  <2>4. QED
    BY <2>1, <2>2, <2>3 DEF IInv
<1>2. CASE UNCHANGED vars
  <2>1. UNCHANGED <<sub, billing, invoiced, paid, lapsed, sweeps, job, attempts, claimedAt, pc,
                    held, seat, wire, timely, clock>>
    BY <1>2 DEF vars, subVars, jobVars, workerVars
  <2>2. QED
    BY <2>1 DEF IInv, TypeOK, SubTypeOK, WorkTypeOK, SweepsLapsed, SuspendedIsOverdue,
       DesiredFollowsSubscription, NoCallOnceRefunded, ClaimsApart, PartsRead, SettledByItsClaim,
       Calling
<1>3. QED
  BY <1>1, <1>2

\* The invariant holds in every reachable state.
THEOREM Invariance == Spec => []IInv
  BY IInvInit, IInvNext, PTL DEF Spec

\* Rows, workers and the enrollment keep their types, and no claim lies in the future.
THEOREM TypeCorrect == Spec => []TypeOK
<1>1. IInv => TypeOK
  BY DEF IInv
<1>2. QED
  BY <1>1, Invariance, PTL

\* However a payment overtakes the sweep, only what is overdue is suspended.
THEOREM OnlyOverdueSuspended == Spec => []SuspendedIsOverdue
<1>1. IInv => SuspendedIsOverdue
  BY DEF IInv
<1>2. QED
  BY <1>1, Invariance, PTL

\* Whatever is in flight, the row desires what the subscription is.
THEOREM DesiredFollows == Spec => []DesiredFollowsSubscription
<1>1. IInv => DesiredFollowsSubscription
  BY DEF IInv
<1>2. QED
  BY <1>1, Invariance, PTL

\* No worker calls Academic for a subscription that was refunded.
THEOREM RefundSilences == Spec => []NoCallOnceRefunded
<1>1. IInv => NoCallOnceRefunded
  BY DEF IInv
<1>2. QED
  BY <1>1, Invariance, PTL

\* A row is settled by the attempt that claimed it last, however many workers try.
THEOREM LastClaimSettles == Spec => []SettledByItsClaim
<1>1. IInv => SettledByItsClaim
  BY DEF IInv
<1>2. QED
  BY <1>1, Invariance, PTL

\* An overtaken call completes nothing.
THEOREM OvertakenIsLost == Spec => OvertakenCompletesNothing
<1> DEFINE A == \A w \in Workers :
                    FinishLifecycle(w) /\ job.status = "processing" /\ job'.status = "active"
                        => job.desired = held[w].desired
<1>1. IInv /\ [Next]_vars => [A]_vars
  <2> SUFFICES ASSUME IInv, NEW w \in Workers, FinishLifecycle(w),
                      job.status = "processing", job'.status = "active",
                      job.desired # held[w].desired
               PROVE  FALSE
    OBVIOUS
  <2>1. job \in Jobs
    BY JobHasAction DEF IInv
  <2>2. OwnsClaim(w) /\ job' = [job EXCEPT !.status = "pending"]
    BY DEF FinishLifecycle, StillDesired
  <2>3. QED
    BY <2>1, <2>2, StatusRewritten
<1>2. QED
  BY <1>1, Invariance, PTL DEF Spec, OvertakenCompletesNothing

\* With a clock as coarse as the column, no attempt's outcome is lost.
THEOREM OutcomesAreRecorded ==
    ASSUME Parts = {0}
    PROVE  Spec => OutcomeIsRecorded
<1> DEFINE A == \A w \in Workers :
                    /\ FinishLifecycle(w)
                    /\ job.status = "processing" /\ held[w].at = claimedAt
                    => job'.status # "processing"
<1>1. IInv /\ [Next]_vars => [A]_vars
  <2> SUFFICES ASSUME IInv, NEW w \in Workers, FinishLifecycle(w),
                      job.status = "processing", held[w].at = claimedAt
               PROVE  job'.status # "processing"
    OBVIOUS
  <2>1. job \in Jobs
    BY JobHasAction DEF IInv
  <2>2. OwnsClaim(w)
    BY DEF OwnsClaim, IInv, PartsRead
  <2>3. \E s \in {"pending", "active", "terminal_failed"} : job' = [job EXCEPT !.status = s]
    BY <2>2 DEF FinishLifecycle
  <2>4. QED
    BY <2>1, <2>3, StatusRewritten
<1>2. QED
  BY <1>1, Invariance, PTL DEF Spec, OutcomeIsRecorded

=============================================================================
