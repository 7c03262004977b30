-------------------------- MODULE InvoiceMailProofs --------------------------
(***************************************************************************)
(* Theorems about InvoiceMail, for any number of workers, requests,        *)
(* callbacks and dispatchers.  The invariant says what the locks on the    *)
(* subscription and on the row exclude, what a draft still shares with the *)
(* row it was copied from, for each kind of mail which claim stands for    *)
(* one that may have been sent, and which links and claims may still lead  *)
(* to an invoice that can be paid.                                         *)
(***************************************************************************)
EXTENDS InvoiceMail, FiniteSetTheorems, TLAPS

\* A worker inside GuardSubscription.
Guarded(w) == work[w].step \notin {"idle", "listed"}

\* The lock on the subscription.
OneGuard == \A v, w \in Workers : Guarded(v) /\ Guarded(w) => v = w

\* A step that uses a link has one, and no claimed draft has one.
LinksAtHand ==
    /\ \A w \in Workers :
        /\ work[w].step \in {"store", "mail"} => work[w].link # NoInvoice
        /\ work[w].drafted /\ work[w].draft.status = "creating" => work[w].draft.link = NoInvoice
    /\ \A p \in Parents : reissue[p].step = "store" => reissue[p].invoice # NoInvoice
    /\ \A d \in Dispatchers : post[d].step \in {"send", "sent"} => post[d].link # NoInvoice

\* A draft waits for its invoice, then has it.
DraftStatus(w) ==
    IF work[w].step \in {"provider", "store"} THEN {"creating"} ELSE {"pending"}

\* While a worker works on a draft the lock on the row keeps it a copy: only the
\* invoice and the mail the worker itself has claimed differ.
DraftsAreCopies ==
    \A w \in Workers :
        /\ Guarded(w) => sub # "cancelled"
        /\ work[w].drafted =>
            /\ Guarded(w) /\ work[w].step # "guarded"
            /\ work[w].draft.status \in DraftStatus(w)
            /\ work[w].draft.told = row.told
            /\ row.asked => work[w].draft.asked
            /\ row.status \notin {"paid", "cancelled", "refunded"}

\* A renewal that has no row yet has announced and told nothing.
NewRowIsBlank == row.status = "none" => ~row.asked /\ row.told = {}

\* Workers have nothing to do with private lessons, nor dispatchers with renewals.
Separate ==
    /\ private => \A w \in Workers : work[w].step = "idle"
    /\ ~private =>
        /\ \A d \in Dispatchers : post[d].step = "idle"
        /\ row.claim = None /\ ~row.sent
        /\ \A w \in Workers : work[w].drafted => ~work[w].draft.sent /\ work[w].draft.claim = None

\* The announcement that is on the row, or was just sent and will be.
Announced ==
    \/ row.asked
    \/ \E w \in Workers : work[w].step = "commit" /\ work[w].draft.asked

\* Each announcement is recorded, or paid for by a fault.
AnnouncementsCounted ==
    /\ asks <= faults + (IF Announced THEN 1 ELSE 0)
    /\ \A w \in Workers :
        /\ work[w].step = "send" => ~row.asked /\ work[w].draft.asked
        /\ work[w].step = "mail" /\ work[w].drafted => (work[w].draft.asked <=> row.asked)
        /\ work[w].step \in {"provider", "store"} => (work[w].draft.asked <=> row.asked)

\* A callback has claimed the mail about an outcome and not yet ended.
Holds(h, s) == hook[h].step \in {"send", "release"} /\ hook[h].of = s

\* Each outcome mail is recorded by its claim, or paid for by a fault.
OutcomesCounted ==
    \A s \in Outcomes :
        /\ \A h \in Hooks : Holds(h, s) => s \in row.told
        /\ \A g, h \in Hooks : Holds(g, s) /\ Holds(h, s) => g = h
        /\ tellings[s] <=
               faults + (IF s \in row.told /\ ~ (\E h \in Hooks : Holds(h, s)) THEN 1 ELSE 0)

\* The dispatcher whose claim is on the row mails the link the row has.
PostsAreCurrent ==
    \A d \in Dispatchers :
        /\ post[d].step = "sent" => post[d].link \in delivered
        /\ row.claim = d /\ row.status = "pending" /\ post[d].step \in {"send", "sent"} =>
               post[d].link = row.link

-----------------------------------------------------------------------------
(* Types *)

WorkRecords == [step : WorkSteps, drafted : BOOLEAN, draft : Rows, link : Numbers, asked : BOOLEAN]

\* What a worker needs to have in its step.
Equipped(r) ==
    /\ r.step \in DraftSteps => r.drafted
    /\ r.step \in {"store", "mail", "send", "remind"} => r.link # NoInvoice
    /\ r.drafted /\ r.draft.status = "creating" => r.draft.link = NoInvoice

LEMMA BlankRow == NoRow \in Rows
BY ConstantsAssumption DEF NoRow, Rows, Statuses, Numbers, NoInvoice

LEMMA RestTyped == AtRest \in WorkRecords /\ Equipped(AtRest) /\ AtRest.step = "idle" /\ ~AtRest.drafted
BY BlankRow, ConstantsAssumption
   DEF AtRest, WorkRecords, Equipped, WorkSteps, DraftSteps, Numbers, NoInvoice

LEMMA WorkTyped ==
    ASSUME TypeOK, LinksAtHand, NEW w \in Workers
    PROVE  work[w] \in WorkRecords /\ Equipped(work[w])
BY DEF TypeOK, LinksAtHand, WorkRecords, Equipped

\* The provider's new invoice.
LEMMA CreatedTyped ==
    ASSUME TypeOK, NEW o \in Nat, Creates(o)
    PROVE  /\ created' \in Numbers /\ created' # NoInvoice
           /\ invoices' \in [1..MaxInvoices -> [state : {"none", "open", "lapsed", "paid"}, order : Nat]]
BY ConstantsAssumption DEF TypeOK, Creates, Numbers, NoInvoice

WorkerKeeps == UNCHANGED <<private, reissue, hook, post, tellings, delivered>>

\* A worker's step changes its own record and what it commits.
WorkerEffect(w) ==
    /\ work' = [work EXCEPT ![w] = work'[w]]
    /\ work'[w] \in WorkRecords /\ Equipped(work'[w])
    /\ row' \in {row, work[w].draft}
    /\ row' # row => work[w].step \in {"mail", "commit"} /\ work[w].drafted
    /\ sub' \in {"active", "suspended", "cancelled"}
    /\ created' \in Numbers
    /\ invoices' \in [1..MaxInvoices -> [state : {"none", "open", "lapsed", "paid"}, order : Nat]]
    /\ known' \subseteq 1..MaxInvoices
    /\ asks' \in Nat
    /\ faults' \in {faults, faults + 1}
    /\ WorkerKeeps

LEMMA WorkerSteps ==
    ASSUME TypeOK, LinksAtHand, NEW w \in Workers, WorkerNext(w)
    PROVE  WorkerEffect(w)
<1> USE DEF WorkerEffect, WorkerKeeps, OthersKept
<1>0. /\ work \in [Workers -> WorkRecords] /\ Equipped(work[w]) /\ row \in Rows
      /\ asks \in Nat /\ faults \in Nat /\ created \in Numbers /\ known \subseteq 1..MaxInvoices
      /\ work[w] \in WorkRecords /\ work[w].draft \in Rows /\ work[w].link \in Numbers
      /\ sub \in {"active", "suspended", "cancelled"}
      /\ invoices \in [1..MaxInvoices -> [state : {"none", "open", "lapsed", "paid"}, order : Nat]]
    BY WorkTyped DEF TypeOK, WorkRecords
<1>n. \A i \in Numbers : i # NoInvoice => i \in 1..MaxInvoices
    BY ConstantsAssumption DEF Numbers, NoInvoice
<1>l. row.link \in Numbers /\ row.asked \in BOOLEAN /\ work[w].draft.link \in Numbers
    BY <1>0 DEF Rows
<1>r. /\ AtRest \in WorkRecords /\ Equipped(AtRest)
      /\ [AtRest EXCEPT !.step = "listed"] \in WorkRecords /\ Equipped([AtRest EXCEPT !.step = "listed"])
      /\ [AtRest EXCEPT !.step = "guarded"] \in WorkRecords /\ Equipped([AtRest EXCEPT !.step = "guarded"])
    BY RestTyped DEF WorkRecords, Equipped, WorkSteps, DraftSteps
<1>e. \A r \in WorkRecords : \A f : f = [work EXCEPT ![w] = r] => f[w] = r
    BY <1>0
<1>1. CASE Lists(w)
    BY <1>0, <1>r, <1>e, <1>1 DEF Lists, Goes, providerVars
<1>2. CASE Suspends(w)
    BY <1>0, <1>r, <1>e, <1>2 DEF Suspends, Ends, Goes, providerVars
<1>3. CASE Guards(w)
    BY <1>0, <1>r, <1>e, <1>3 DEF Guards, Goes, providerVars
<1>4. CASE Inserts(w)
  <2> DEFINE d == [NoRow EXCEPT !.status = "creating", !.order = created + 1]
             r == [AtRest EXCEPT !.step = "provider", !.drafted = TRUE, !.draft = d]
  <2>1. d \in Rows /\ d.status = "creating" /\ d.link = NoInvoice
    <3>1. created + 1 \in Nat
        BY <1>0, ConstantsAssumption DEF Numbers
    <3> QED BY <3>1, BlankRow DEF Rows, NoRow, Statuses
  <2>2. r \in WorkRecords /\ Equipped(r)
      BY <2>1, RestTyped DEF AtRest, WorkRecords, Equipped, WorkSteps, DraftSteps
  <2> QED BY <1>0, <1>e, <2>2, <1>4 DEF Inserts, Goes, providerVars
<1>5. CASE ClaimsInvoice(w)
  <2> DEFINE r == [AtRest EXCEPT !.step = "provider", !.drafted = TRUE, !.draft = Claimed(row),
                              !.asked = row.asked]
  <2>1. Claimed(row) \in Rows /\ Claimed(row).link = NoInvoice /\ row.asked \in BOOLEAN
      BY <1>0, BlankRow DEF Rows, NoRow, Claimed, Statuses
  <2>2. r \in WorkRecords /\ Equipped(r)
      BY <2>1, RestTyped DEF AtRest, WorkRecords, Equipped, WorkSteps, DraftSteps
  <2> QED BY <1>0, <1>r, <1>e, <2>2, <1>5 DEF ClaimsInvoice, Goes, providerVars
<1>6. CASE ReadsLink(w)
  <2> DEFINE r == [AtRest EXCEPT !.step = "mail", !.link = row.link, !.asked = row.asked]
  <2>1. r \in WorkRecords /\ Equipped(r)
      BY <1>l, <1>6, RestTyped DEF ReadsLink, AtRest, WorkRecords, Equipped, WorkSteps, DraftSteps
  <2> QED BY <1>0, <1>e, <2>1, <1>6 DEF ReadsLink, Goes, providerVars
<1>7. CASE FindsPaid(w)
    BY <1>0, <1>r, <1>e, <1>7 DEF FindsPaid, RollsBack, Ends, Goes, providerVars
<1>8. CASE Invoices(w)
  <2> DEFINE r == [work[w] EXCEPT !.step = "store", !.link = created']
  <2>1. work[w].draft.order \in Nat
      BY <1>0 DEF Rows
  <2>2. /\ created' \in Numbers /\ created' # NoInvoice
        /\ invoices' \in [1..MaxInvoices -> [state : {"none", "open", "lapsed", "paid"}, order : Nat]]
      BY <2>1, <1>8, CreatedTyped DEF Invoices
  <2>3. r \in WorkRecords /\ Equipped(r)
      BY <1>0, <1>8, <2>2 DEF Invoices, WorkRecords, Equipped, WorkSteps, DraftSteps
  <2> QED BY <1>0, <1>e, <2>2, <2>3, <1>8 DEF Invoices, Goes
<1>9. CASE InvoiceRefused(w)
    BY <1>0, <1>r, <1>e, <1>9 DEF InvoiceRefused, RollsBack, Ends, Goes, providerVars
<1>10. CASE Stores(w)
  <2> DEFINE i == Issued(work[w].draft, work[w].link)
             r == [work[w] EXCEPT !.step = "mail", !.draft = i]
  <2>1. i \in Rows /\ i.status = "pending"
      BY <1>0 DEF Rows, Issued, Statuses
  <2>2. r \in WorkRecords /\ Equipped(r)
      BY <1>0, <2>1, <1>10 DEF Stores, WorkRecords, Equipped, WorkSteps, DraftSteps
  <2>3. work' = [work EXCEPT ![w] = r]
      BY <1>10 DEF Stores, Goes
  <2> QED BY <1>0, <1>e, <2>2, <2>3, <1>10 DEF Stores, providerVars
<1>11. CASE ClaimsMail(w)
  <2> DEFINE a == [Seen(w) EXCEPT !.asked = TRUE]
             b == [Seen(w) EXCEPT !.reminded = TRUE]
             q == [work[w] EXCEPT !.step = "send", !.drafted = TRUE, !.draft = a]
             r == [work[w] EXCEPT !.step = "remind", !.drafted = TRUE, !.draft = b]
  <2>1. Seen(w) \in Rows
      BY <1>0 DEF Seen
  <2>2. a \in Rows /\ b \in Rows /\ a.status = Seen(w).status /\ b.status = Seen(w).status
      BY <2>1 DEF Rows
  <2>3. work[w].step = "mail" /\ (Asks(w) \/ RemindsNow(w)) => Seen(w).status = "pending"
      BY DEF Asks, RemindsNow
  <2>4. CASE Asks(w) /\ Goes(w, q)
    <3>1. q \in WorkRecords /\ Equipped(q)
        BY <1>0, <2>2, <2>3, <2>4, <1>11 DEF ClaimsMail, WorkRecords, Equipped, WorkSteps, DraftSteps
    <3> QED BY <1>0, <1>e, <2>4, <3>1, <1>11 DEF ClaimsMail, Goes, providerVars
  <2>5. CASE RemindsNow(w) /\ Goes(w, r)
    <3>1. r \in WorkRecords /\ Equipped(r)
        BY <1>0, <2>2, <2>3, <2>5, <1>11 DEF ClaimsMail, WorkRecords, Equipped, WorkSteps, DraftSteps
    <3> QED BY <1>0, <1>e, <2>5, <3>1, <1>11 DEF ClaimsMail, Goes, providerVars
  <2> QED BY <2>4, <2>5, <1>11 DEF ClaimsMail
<1>12. CASE SkipsMail(w)
  <2>1. Seen(w) \in {row, work[w].draft} /\ Seen(w).link \in Numbers /\ (Seen(w) # row => work[w].drafted)
      BY <1>l DEF Seen
  <2>2. known' \subseteq 1..MaxInvoices
      BY <1>0, <1>n, <2>1, <1>12 DEF SkipsMail
  <2> QED BY <1>0, <1>r, <1>e, <2>1, <2>2, <1>12 DEF SkipsMail, Ends, Goes, providerVars
<1>m. ASSUME Mails(w) PROVE known' \subseteq 1..MaxInvoices /\ asks' \in Nat
  <2>1. work[w].link \in 1..MaxInvoices
      BY <1>0, <1>n, <1>m DEF Mails, Equipped
  <2>2. asks' = asks + 1 \/ asks' = asks + 0
      BY <1>m DEF Mails
  <2>3. asks' \in Nat
      BY <1>0, <2>2
  <2>4. known' = known \cup {work[w].link}
      BY <1>m DEF Mails
  <2> QED BY <1>0, <2>1, <2>3, <2>4
<1>13. CASE Sends(w)
  <2> DEFINE r == [work[w] EXCEPT !.step = "commit"]
  <2>1. r \in WorkRecords /\ Equipped(r)
      BY <1>0, <1>13 DEF Sends, Mails, WorkRecords, Equipped, WorkSteps, DraftSteps
  <2> QED BY <1>0, <1>e, <1>m, <2>1, <1>13 DEF Sends, Goes, providerVars
<1>14. CASE SendFails(w)
    BY <1>0, <1>r, <1>e, <1>m, <1>14 DEF SendFails, Fault, RollsBack, Ends, Goes, providerVars
<1>15. CASE Commits(w)
  <2>1. known' \subseteq 1..MaxInvoices
      BY <1>0, <1>n, <1>l, <1>15 DEF Commits
  <2> QED BY <1>0, <1>r, <1>e, <2>1, <1>15 DEF Commits, Ends, Goes, providerVars, Equipped, DraftSteps
<1>16. CASE WorkerDies(w)
    BY <1>0, <1>r, <1>e, <1>16 DEF WorkerDies, Fault, RollsBack, Ends, Goes, providerVars
<1> HIDE DEF WorkerEffect
<1> QED BY <1>1, <1>2, <1>3, <1>4, <1>5, <1>6, <1>7, <1>8, <1>9, <1>10, <1>11, <1>12, <1>13,
           <1>14, <1>15, <1>16 DEF WorkerNext, Renew

-----------------------------------------------------------------------------
(* Steps of the others *)

\* The mail of a private lesson: an issued invoice has none yet, otherwise the
\* claim and the record stay, and the link does unless it is withdrawn.
MailKept ==
    \/ row'.claim = None /\ ~row'.sent
    \/ /\ row'.claim = row.claim /\ row'.sent = row.sent
       /\ row'.link \in {row.link, NoInvoice}
       /\ row'.status = "pending" => row.status = "pending" /\ row'.link = row.link

\* A step that is no worker's, as far as the workers see it: only while nobody
\* has a draft does it change more of the row than the private mail.
Quiet ==
    /\ UNCHANGED <<private, work, asks>>
    /\ sub' \in {"active", "suspended", "cancelled"} /\ (sub' # sub => SubFree)
    /\ row' \in Rows
    /\ row'.status = "creating" => row'.link = NoInvoice
    /\ row'.asked = row.asked
    /\ row'.status = "none" <=> row.status = "none"
    /\ row.status = "none" => row'.told = row.told
    /\ RowFree \/ (row'.status = row.status /\ row'.told = row.told)
    /\ created' \in Numbers
    /\ invoices' \in [1..MaxInvoices -> [state : {"none", "open", "lapsed", "paid"}, order : Nat]]
    /\ known' \subseteq 1..MaxInvoices
    /\ faults' \in {faults, faults + 1}

Requests == [step : {"idle", "provider", "store", "restore"}, invoice : Numbers]

RequestEffect(p) ==
    /\ UNCHANGED <<sub, hook, post, tellings, delivered>>
    /\ reissue' = [reissue EXCEPT ![p] = reissue'[p]]
    /\ reissue'[p] \in Requests
    /\ reissue'[p].step = "store" => reissue'[p].invoice # NoInvoice
    /\ row'.told = row.told
    /\ MailKept

HookRecords == [step : {"idle", "claim", "send", "release"}, of : Outcomes]

HookEffect(h) ==
    /\ UNCHANGED <<reissue, post, delivered>>
    /\ hook' = [hook EXCEPT ![h] = hook'[h]]
    /\ hook'[h] \in HookRecords
    /\ tellings' \in [Outcomes -> Nat]
    /\ MailKept

Posted == [step : {"idle", "reread", "send", "sent", "failed"}, link : Numbers]

PostEffect(d) ==
    /\ UNCHANGED <<sub, reissue, hook, tellings>>
    /\ post' = [post EXCEPT ![d] = post'[d]]
    /\ post'[d] \in Posted
    /\ post'[d].step \in {"send", "sent"} => post'[d].link # NoInvoice
    /\ delivered \subseteq delivered' /\ delivered' \subseteq 1..MaxInvoices
    /\ row'.told = row.told /\ row'.status = row.status /\ row'.link = row.link

RowEffect ==
    /\ UNCHANGED <<reissue, hook, post, tellings, delivered>>
    /\ row'.told = row.told
    /\ MailKept

LEMMA RowTyped ==
    ASSUME TypeOK
    PROVE  /\ row \in Rows /\ faults \in Nat /\ created \in Numbers /\ known \subseteq 1..MaxInvoices
           /\ delivered \subseteq 1..MaxInvoices /\ row.link \in Numbers /\ row.order \in Nat
           /\ row.status \in Statuses /\ row.told \subseteq Outcomes
           /\ row.status = "creating" => row.link = NoInvoice
           /\ sub \in {"active", "suspended", "cancelled"}
           /\ invoices \in [1..MaxInvoices -> [state : {"none", "open", "lapsed", "paid"}, order : Nat]]
           /\ \A i \in Numbers : i # NoInvoice => i \in 1..MaxInvoices
BY ConstantsAssumption DEF TypeOK, Rows, Numbers, NoInvoice

LEMMA RequestSteps ==
    ASSUME TypeOK, LinksAtHand, NEW p \in Parents, RequestNext(p)
    PROVE  Quiet /\ RequestEffect(p)
<1> USE RowTyped DEF Quiet, RequestEffect, MailKept, RequestKeeps, mailVars, Requests
<1>0. /\ reissue \in [Parents -> Requests]
      /\ reissue[p].step = "store" => reissue[p].invoice # NoInvoice
    BY DEF TypeOK, LinksAtHand
<1>z. NoInvoice \in Numbers
    BY ConstantsAssumption DEF NoInvoice, Numbers
<1>1. CASE ClaimsReinvoice(p)
  <2>1. Claimed(row) \in Rows
      BY <1>z DEF Rows, Claimed, Statuses
  <2> QED BY <1>0, <1>z, <2>1, <1>1
          DEF ClaimsReinvoice, To, Claimed, Rows, Reinvoicable, providerVars
<1>2. CASE GetsInvoice(p)
  <2>1. CASE Creates(row.order) /\ To(p, "store", created')
    <3>1. /\ created' \in Numbers /\ created' # NoInvoice
          /\ invoices' \in [1..MaxInvoices -> [state : {"none", "open", "lapsed", "paid"}, order : Nat]]
        BY <2>1, CreatedTyped
    <3> QED BY <1>0, <2>1, <3>1, <1>2 DEF GetsInvoice, To
  <2>2. CASE UNCHANGED providerVars /\ To(p, "restore", NoInvoice)
      BY <1>0, <1>z, <2>2, <1>2 DEF GetsInvoice, To, providerVars
  <2> QED BY <2>1, <2>2, <1>2 DEF GetsInvoice
<1>3. CASE RequestEnds(p)
  <2> DEFINE i == reissue[p].invoice
  <2>0. /\ reissue' = [reissue EXCEPT ![p] = [step |-> "idle", invoice |-> NoInvoice]]
        /\ RowFree /\ UNCHANGED <<providerVars, faults>>
        /\ UNCHANGED <<private, sub, work, hook, post, asks, tellings, delivered>>
      BY <1>3 DEF RequestEnds, To
  <2>1. CASE row' = Issued(row, i) /\ known' = known \cup {i} /\ reissue[p].step = "store"
             /\ row.status \in {"creating", "pending"}
    <3>1. Issued(row, i) \in Rows
        BY <1>0 DEF Rows, Issued, Statuses
    <3>2. known' \subseteq 1..MaxInvoices
        BY <1>0, <2>1
    <3> QED BY <1>0, <1>z, <2>0, <2>1, <3>1, <3>2 DEF Issued, Rows, providerVars
  <2>2. CASE row' = [row EXCEPT !.status = "failed"] /\ UNCHANGED known /\ row.status = "creating"
    <3>1. row' \in Rows
        BY <2>2 DEF Rows, Statuses
    <3> QED BY <1>0, <1>z, <2>0, <2>2, <3>1 DEF Rows, providerVars
  <2>3. CASE UNCHANGED <<row, known>>
      BY <1>0, <1>z, <2>0, <2>3 DEF providerVars
  <2> QED BY <2>1, <2>2, <2>3, <1>3 DEF RequestEnds
<1>4. CASE RequestDies(p)
    BY <1>0, <1>z, <1>4 DEF RequestDies, To, Fault, providerVars
<1> HIDE DEF Quiet, RequestEffect
<1> QED BY <1>1, <1>2, <1>3, <1>4 DEF RequestNext

LEMMA HookSteps ==
    ASSUME TypeOK, NEW h \in Hooks, HookNext(h)
    PROVE  Quiet /\ HookEffect(h)
<1> USE RowTyped DEF Quiet, HookEffect, MailKept, CallbackKeeps, HookKeeps, HookTo, Tells, mailVars,
        providerVars, HookRecords
<1>0. hook \in [Hooks -> HookRecords] /\ tellings \in [Outcomes -> Nat] /\ {"paid", "failed"} = Outcomes
    BY DEF TypeOK, Outcomes
<1>1. ASSUME NEW i \in 1..MaxInvoices, Succeeds(i, h) PROVE Quiet /\ HookEffect(h)
  <2>1. row' \in Rows
      BY <1>1 DEF Succeeds, Rows, Statuses
  <2> QED BY <1>0, <1>1, <2>1 DEF Succeeds, Rows, UnpaidStatuses
<1>2. ASSUME NEW i \in 1..MaxInvoices, FailsPayment(i, h) PROVE Quiet /\ HookEffect(h)
  <2>1. row' \in Rows
      BY <1>2 DEF FailsPayment, Rows, Statuses
  <2> QED BY <1>0, <1>2, <2>1 DEF FailsPayment, Rows, Fault
<1>3. CASE Repeats(h)
    BY <1>0, <1>3 DEF Repeats
<1>4. CASE ClaimsOutcome(h)
  <2>t. row.told \cup {hook[h].of} \subseteq Outcomes
      BY <1>0
  <2>1. row' \in Rows
      BY <2>t, <1>4 DEF ClaimsOutcome, Rows
  <2>2. /\ row'.asked = row.asked /\ row'.status = row.status /\ row'.link = row.link
        /\ row'.claim = row.claim /\ row'.sent = row.sent
      BY <1>4 DEF ClaimsOutcome, Rows
  <2>3. hook'[h] \in HookRecords /\ hook' = [hook EXCEPT ![h] = hook'[h]]
      BY <1>0, <1>4 DEF ClaimsOutcome
  <2>4. row.status = "none" => row' = row
      BY <1>0, <1>4 DEF ClaimsOutcome, Untold, Outcomes
  <2> QED BY <1>0, <1>4, <2>1, <2>2, <2>3, <2>4 DEF ClaimsOutcome
<1>5. CASE SendsOutcome(h)
    BY <1>0, <1>5 DEF SendsOutcome, Fault
<1>6. CASE ReleasesOutcome(h)
  <2>1. row' \in Rows
      BY <1>0, <1>6 DEF ReleasesOutcome, Rows
  <2> QED BY <1>0, <1>6, <2>1 DEF ReleasesOutcome, Rows
<1>7. CASE HookDies(h)
    BY <1>0, <1>7 DEF HookDies, Fault
<1> HIDE DEF Quiet, HookEffect
<1> QED BY <1>1, <1>2, <1>3, <1>4, <1>5, <1>6, <1>7 DEF HookNext

LEMMA PostSteps ==
    ASSUME TypeOK, LinksAtHand, NEW d \in Dispatchers, Dispatch(d) \/ PostFails(d) \/ DispatcherDies(d)
    PROVE  Quiet /\ PostEffect(d)
<1> USE RowTyped DEF Quiet, PostEffect, PostKeeps, PostTo, providerVars, Posted
<1>0. /\ post \in [Dispatchers -> Posted]
      /\ post[d].step \in {"send", "sent"} => post[d].link # NoInvoice
    BY DEF TypeOK, LinksAtHand
<1>z. NoInvoice \in Numbers
    BY ConstantsAssumption DEF NoInvoice, Numbers
<1>1. CASE ClaimsPost(d)
  <2>1. row' \in Rows
      BY <1>1 DEF ClaimsPost, Rows
  <2> QED BY <1>0, <1>z, <1>1, <2>1 DEF ClaimsPost, Rows
<1>2. CASE Rereads(d)
    BY <1>0, <1>z, <1>2 DEF Rereads, Postable
<1>3. CASE Posts(d)
    BY <1>0, <1>z, <1>3 DEF Posts
<1>4. CASE PostFails(d)
    BY <1>0, <1>z, <1>4 DEF PostFails
<1>5. CASE FinishesPost(d)
  <2> DEFINE s == post[d].step = "sent"
  <2>1. row' \in {row, [row EXCEPT !.claim = None, !.late = FALSE, !.sent = s]} /\ s \in BOOLEAN
      BY <1>5 DEF FinishesPost
  <2> HIDE DEF s
  <2>2. row' \in Rows
      BY <2>1 DEF Rows
  <2>3. row'.told = row.told /\ row'.status = row.status /\ row'.link = row.link /\ row'.asked = row.asked
      BY <2>1 DEF Rows
  <2> QED BY <1>0, <1>z, <1>5, <2>2, <2>3 DEF FinishesPost
<1>6. CASE DispatcherDies(d)
    BY <1>0, <1>z, <1>6 DEF DispatcherDies, Fault
<1> HIDE DEF Quiet, PostEffect
<1> QED BY <1>1, <1>2, <1>3, <1>4, <1>5, <1>6 DEF Dispatch

LEMMA RowSteps ==
    ASSUME TypeOK, RowNext
    PROVE  Quiet /\ RowEffect
<1> USE RowTyped DEF Quiet, RowEffect, MailKept, RowStepKeeps, mailVars, Becomes, Grows
<1>1. CASE Expires
  <2>1. row' \in Rows
      BY <1>1 DEF Expires, Rows, Statuses
  <2> QED BY <1>1, <2>1 DEF Expires, Rows
<1>2. CASE Cancels
  <2>1. row' \in Rows
      BY <1>2 DEF Cancels, Rows, Statuses
  <2> QED BY <1>2, <2>1 DEF Cancels, Rows, UnpaidStatuses
<1>3. CASE Refunds
  <2>1. row' \in Rows /\ row'.status \in {"refunded", "cancelled", row.status}
      BY <1>3 DEF Refunds, Rows, Statuses
  <2> QED BY <1>3, <2>1 DEF Refunds, Rows, UnpaidStatuses
<1>4. CASE ClaimAges
  <2>1. row' \in Rows
      BY <1>4 DEF ClaimAges, Rows
  <2> QED BY <1>4, <2>1 DEF ClaimAges, Rows
<1>5. CASE PostClaimAges
  <2>1. row' \in Rows
      BY <1>5 DEF PostClaimAges, Rows
  <2> QED BY <1>5, <2>1 DEF PostClaimAges, Rows, Fault
<1>6. CASE ReminderDue
  <2>1. row' \in Rows
      BY <1>6 DEF ReminderDue, Rows
  <2> QED BY <1>6, <2>1 DEF ReminderDue, Rows
<1>7. ASSUME NEW i \in 1..MaxInvoices, InvoiceLapses(i) PROVE Quiet /\ RowEffect
    BY <1>7 DEF InvoiceLapses
<1>8. ASSUME NEW i \in 1..MaxInvoices, Pays(i) PROVE Quiet /\ RowEffect
    BY <1>8 DEF Pays, CallbackKeeps
<1> HIDE DEF Quiet, RowEffect
<1> QED BY <1>1, <1>2, <1>3, <1>4, <1>5, <1>6, <1>7, <1>8 DEF RowNext

LEMMA TypesKept ==
    ASSUME TypeOK, LinksAtHand, [Next]_vars
    PROVE  TypeOK' /\ LinksAtHand'
<1> USE DEF NoInvoice
<1>s. CASE UNCHANGED vars
    BY <1>s DEF TypeOK, LinksAtHand, vars, providerVars, mailVars
<1>1. ASSUME NEW w \in Workers, WorkerNext(w) PROVE TypeOK' /\ LinksAtHand'
  <2>1. WorkerEffect(w)
      BY <1>1, WorkerSteps
  <2>2. /\ work \in [Workers -> WorkRecords] /\ \A v \in Workers : Equipped(work[v])
        /\ row \in Rows /\ work[w].draft \in Rows
      BY WorkTyped DEF TypeOK, WorkRecords
  <2>3. work' \in [Workers -> WorkRecords] /\ \A v \in Workers : Equipped(work'[v])
      BY <2>1, <2>2 DEF WorkerEffect
  <2>4. row' \in Rows /\ (row'.status = "creating" => row'.link = NoInvoice)
      BY <2>1, <2>2 DEF WorkerEffect, TypeOK, Equipped
  <2>f. faults' \in Nat
      BY <2>1 DEF WorkerEffect, TypeOK
  <2>5. TypeOK'
      BY <2>1, <2>3, <2>4, <2>f DEF TypeOK, WorkerEffect, WorkerKeeps, WorkRecords, Equipped
  <2>6. LinksAtHand'
      BY <2>1, <2>3 DEF LinksAtHand, WorkerEffect, WorkerKeeps, Equipped
  <2> QED BY <2>5, <2>6
<1>2. ASSUME NEW p \in Parents, RequestNext(p) PROVE TypeOK' /\ LinksAtHand'
  <2>1. Quiet /\ RequestEffect(p)
      BY <1>2, RequestSteps
  <2>2. faults' \in Nat
      BY <2>1 DEF Quiet, TypeOK
  <2>3. TypeOK'
      BY <2>1, <2>2 DEF TypeOK, Quiet, RequestEffect, Requests
  <2>4. LinksAtHand'
      BY <2>1 DEF TypeOK, LinksAtHand, Quiet, RequestEffect
  <2> QED BY <2>3, <2>4
<1>3. ASSUME NEW h \in Hooks, HookNext(h) PROVE TypeOK' /\ LinksAtHand'
  <2>1. Quiet /\ HookEffect(h)
      BY <1>3, HookSteps
  <2>2. faults' \in Nat
      BY <2>1 DEF Quiet, TypeOK
  <2>3. TypeOK'
      BY <2>1, <2>2 DEF TypeOK, Quiet, HookEffect, HookRecords
  <2>4. LinksAtHand'
      BY <2>1 DEF LinksAtHand, Quiet, HookEffect
  <2> QED BY <2>3, <2>4
<1>4. ASSUME NEW d \in Dispatchers, Dispatch(d) \/ PostFails(d) \/ DispatcherDies(d)
      PROVE  TypeOK' /\ LinksAtHand'
  <2>1. Quiet /\ PostEffect(d)
      BY <1>4, PostSteps
  <2>2. faults' \in Nat
      BY <2>1 DEF Quiet, TypeOK
  <2>3. TypeOK'
      BY <2>1, <2>2 DEF TypeOK, Quiet, PostEffect, Posted
  <2>4. LinksAtHand'
      BY <2>1 DEF TypeOK, LinksAtHand, Quiet, PostEffect
  <2> QED BY <2>3, <2>4
<1>5. ASSUME RowNext PROVE TypeOK' /\ LinksAtHand'
  <2>1. Quiet /\ RowEffect
      BY <1>5, RowSteps
  <2>2. faults' \in Nat
      BY <2>1 DEF Quiet, TypeOK
  <2>3. TypeOK'
      BY <2>1, <2>2 DEF TypeOK, Quiet, RowEffect
  <2>4. LinksAtHand'
      BY <2>1 DEF LinksAtHand, Quiet, RowEffect
  <2> QED BY <2>3, <2>4
<1> QED BY <1>s, <1>1, <1>2, <1>3, <1>4, <1>5 DEF Next

LEMMA InitTyped == Init => TypeOK /\ LinksAtHand
<1> SUFFICES ASSUME Init PROVE TypeOK /\ LinksAtHand
    OBVIOUS
<1>1. [NoRow EXCEPT !.status = "pending", !.order = 1] \in Rows /\ NoRow \in Rows
    BY BlankRow DEF Rows, NoRow, Statuses
<1>2. 0 \in Numbers /\ NoRow.link = 0
    BY ConstantsAssumption DEF Numbers, NoRow, NoInvoice
<1>3. row \in Rows /\ row.status # "creating"
    BY <1>1 DEF Init, NoRow
<1>4. work \in [Workers -> WorkRecords] /\ \A w \in Workers : work[w] = AtRest
    BY RestTyped DEF Init
<1>5. TypeOK
    BY <1>2, <1>3, <1>4, RestTyped
       DEF Init, TypeOK, WorkRecords, DraftSteps, Silent, Outcomes, NoInvoice
<1>6. LinksAtHand
    BY <1>4, RestTyped DEF Init, LinksAtHand
<1> QED BY <1>5, <1>6

-----------------------------------------------------------------------------
(* Locks and drafts *)

LocksHold ==
    /\ OneGuard
    /\ DraftsAreCopies
    /\ NewRowIsBlank
    /\ Separate

LEMMA InitLocks == Init => LocksHold
<1> SUFFICES ASSUME Init PROVE LocksHold
    OBVIOUS
<1>1. \A w \in Workers : work[w] = AtRest
    BY DEF Init
<1>2. ~ AtRest.drafted /\ AtRest.step = "idle"
    BY RestTyped
<1> QED BY <1>1, <1>2
    DEF Init, LocksHold, OneGuard, DraftsAreCopies, NewRowIsBlank, Separate, Guarded, NoRow

\* Nobody is inside a lock that a quiet step finds free.
LEMMA QuietLocks ==
    ASSUME TypeOK, LocksHold, Quiet,
           private \/ (post' = post /\ row'.claim = None /\ ~row'.sent)
    PROVE  LocksHold'
<1> USE DEF LocksHold
<1>1. OneGuard'
    BY DEF Quiet, OneGuard, Guarded
<1>2. DraftsAreCopies'
  <2> SUFFICES ASSUME NEW w \in Workers
               PROVE  /\ Guarded(w)' => sub' # "cancelled"
                      /\ work'[w].drafted =>
                            /\ Guarded(w)' /\ work'[w].step # "guarded"
                            /\ work'[w].draft.status \in DraftStatus(w)'
                            /\ work'[w].draft.told = row'.told
                            /\ row'.asked => work'[w].draft.asked
                            /\ row'.status \notin {"paid", "cancelled", "refunded"}
      BY DEF DraftsAreCopies
  <2>1. work' = work
      BY DEF Quiet
  <2>2. Guarded(w) => sub' = sub
      BY DEF Quiet, Guarded, SubFree
  <2>3. work[w].drafted => row'.status = row.status /\ row'.told = row.told /\ row'.asked = row.asked
      BY DEF Quiet, RowFree
  <2> QED BY <2>1, <2>2, <2>3 DEF DraftsAreCopies, Guarded, DraftStatus
<1>3. NewRowIsBlank'
    BY DEF NewRowIsBlank, Quiet
<1>4. Separate'
    BY DEF Separate, Quiet
<1> QED BY <1>1, <1>2, <1>3, <1>4

\* What a worker's own record must be like after its step.
Draws(w) ==
    /\ Guarded(w)' => sub' # "cancelled" /\ (Guarded(w) \/ SubFree)
    /\ Guarded(w)' /\ ~Guarded(w) => row' = row
    /\ work'[w].drafted =>
        /\ Guarded(w)' /\ work'[w].step # "guarded"
        /\ row' = row
        /\ work'[w].draft.status \in DraftStatus(w)'
        /\ work'[w].draft.told = row.told
        /\ row.asked => work'[w].draft.asked
        /\ row.status \notin {"paid", "cancelled", "refunded"}
        /\ ~private => ~work'[w].draft.sent /\ work'[w].draft.claim = None
    /\ work'[w].step # "idle" => ~private
    /\ sub' # sub => sub' # "cancelled"

LEMMA DrawsKeepsLocks ==
    ASSUME TypeOK, LinksAtHand, LocksHold, NEW w \in Workers, WorkerEffect(w), Draws(w)
    PROVE  LocksHold'
<1> USE DEF LocksHold
<1>1. \A v \in Workers : v # w => work'[v] = work[v]
    BY DEF WorkerEffect, TypeOK
<1>2. \A v \in Workers : v # w /\ Guarded(v) => ~Guarded(w) /\ ~Guarded(w)' /\ row' = row
  <2> SUFFICES ASSUME NEW v \in Workers, v # w, Guarded(v)
               PROVE  ~Guarded(w) /\ ~Guarded(w)' /\ row' = row
      OBVIOUS
  <2>1. ~Guarded(w)
      BY DEF OneGuard
  <2>2. ~Guarded(w)'
      BY <2>1 DEF Draws, SubFree, Guarded
  <2>3. row' = row
      BY <2>1 DEF WorkerEffect, DraftsAreCopies
  <2> QED BY <2>1, <2>2, <2>3
<1>3. OneGuard'
  <2> SUFFICES ASSUME NEW u \in Workers, NEW v \in Workers, Guarded(u)', Guarded(v)'
               PROVE  u = v
      BY DEF OneGuard
  <2> QED BY <1>1, <1>2 DEF OneGuard, Guarded
<1>4. \A v \in Workers : v # w =>
        /\ Guarded(v)' = Guarded(v) /\ work'[v].drafted = work[v].drafted
        /\ DraftStatus(v)' = DraftStatus(v)
    BY <1>1 DEF Guarded, DraftStatus
<1>5. DraftsAreCopies'
  <2> SUFFICES ASSUME NEW v \in Workers
               PROVE  /\ Guarded(v)' => sub' # "cancelled"
                      /\ work'[v].drafted =>
                            /\ Guarded(v)' /\ work'[v].step # "guarded"
                            /\ work'[v].draft.status \in DraftStatus(v)'
                            /\ work'[v].draft.told = row'.told
                            /\ row'.asked => work'[v].draft.asked
                            /\ row'.status \notin {"paid", "cancelled", "refunded"}
      BY DEF DraftsAreCopies
  <2>1. CASE v = w
      BY <2>1 DEF Draws
  <2>2. CASE v # w /\ Guarded(v)
      BY <1>1, <1>2, <1>4, <2>2 DEF DraftsAreCopies, Draws
  <2>3. CASE v # w /\ ~Guarded(v)
      BY <1>1, <1>4, <2>3 DEF DraftsAreCopies
  <2> QED BY <2>1, <2>2, <2>3
<1>6. row' # row =>
        /\ work[w].draft.status = "pending"
        /\ row' = work[w].draft
        /\ ~private => ~row'.sent /\ row'.claim = None
    BY DEF WorkerEffect, DraftsAreCopies, DraftStatus, Separate
<1>7. NewRowIsBlank'
    BY <1>6 DEF NewRowIsBlank
<1>8. private' = private /\ post' = post
    BY DEF WorkerEffect, WorkerKeeps
<1>9. Separate'
  <2>1. private => \A v \in Workers : work'[v].step = "idle"
      BY <1>1 DEF Draws, Separate
  <2>2. ~private => \A v \in Workers :
            work'[v].drafted => ~work'[v].draft.sent /\ work'[v].draft.claim = None
      BY <1>1 DEF Draws, Separate
  <2> QED BY <1>6, <1>8, <2>1, <2>2 DEF Separate
<1> QED BY <1>3, <1>5, <1>7, <1>9

LEMMA WorkerDraws ==
    ASSUME TypeOK, LinksAtHand, LocksHold, NEW w \in Workers, WorkerNext(w)
    PROVE  Draws(w)
<1> USE DEF Draws, OthersKept, Guarded
<1>0. /\ WorkerEffect(w)
      /\ work[w] \in WorkRecords /\ row \in Rows /\ work[w].draft \in Rows
      /\ \A r \in WorkRecords : \A f : f = [work EXCEPT ![w] = r] => f[w] = r
    BY WorkerSteps, WorkTyped DEF TypeOK, WorkRecords
<1>e. \A r : work' = [work EXCEPT ![w] = r] => work'[w] = r
    BY DEF TypeOK
<1>l. /\ Guarded(w) => sub # "cancelled"
      /\ work[w].drafted =>
            /\ Guarded(w) /\ work[w].step # "guarded"
            /\ work[w].draft.status \in DraftStatus(w)
            /\ work[w].draft.told = row.told
            /\ row.asked => work[w].draft.asked
            /\ row.status \notin {"paid", "cancelled", "refunded"}
            /\ ~work[w].draft.sent /\ work[w].draft.claim = None
      /\ work[w].step # "idle" => ~private
      /\ ~private => ~row.sent /\ row.claim = None
      /\ row.status = "none" => ~row.asked /\ row.told = {}
      /\ work[w].step \in DraftSteps => work[w].drafted
    BY WorkTyped DEF LocksHold, DraftsAreCopies, Separate, NewRowIsBlank, Equipped
<1>r. /\ AtRest.step = "idle" /\ ~AtRest.drafted
      /\ AtRest = [step |-> "idle", drafted |-> FALSE, draft |-> NoRow, link |-> NoInvoice, asked |-> FALSE]
    BY DEF AtRest
<1>a. ASSUME work' = [work EXCEPT ![w] = AtRest], UNCHANGED <<sub, private>> PROVE Draws(w)
    BY <1>a, <1>e, <1>r
<1>1. CASE Lists(w)
  <2>1. work'[w] = [AtRest EXCEPT !.step = "listed"]
      BY <1>e, <1>1 DEF Lists, Goes
  <2>2. work'[w].step = "listed" /\ ~work'[w].drafted
      BY <1>r, <2>1
  <2> QED BY <2>2, <1>1 DEF Lists
<1>2. CASE Suspends(w)
    BY <1>e, <1>r, <1>2 DEF Suspends, Ends, Goes
<1>3. CASE Guards(w)
    BY <1>e, <1>l, <1>r, <1>3 DEF Guards, Goes
<1>4. CASE Inserts(w)
  <2> DEFINE d == [NoRow EXCEPT !.status = "creating", !.order = created + 1]
  <2>1. d.status = "creating" /\ d.told = {} /\ ~d.asked /\ ~d.sent /\ d.claim = None
      BY DEF NoRow
  <2>2. work'[w] = [AtRest EXCEPT !.step = "provider", !.drafted = TRUE, !.draft = d]
      BY <1>e, <1>4 DEF Inserts, Goes
  <2> HIDE DEF d
  <2>3. work'[w].step = "provider" /\ work'[w].draft = d
      BY <2>2, <1>r
  <2> QED BY <1>l, <1>4, <2>1, <2>3 DEF Inserts, DraftStatus
<1>5. CASE ClaimsInvoice(w)
  <2> DEFINE d == Claimed(row)
  <2>0. CASE ~Claimable(row)
      BY <2>0, <1>a, <1>5 DEF ClaimsInvoice, Goes
  <2>1. d.status = "creating" /\ d.told = row.told /\ d.asked = row.asked /\ d.sent = row.sent /\ d.claim = row.claim
      BY <1>0 DEF Rows, Claimed
  <2>2. CASE Claimable(row)
    <3>1. work'[w] = [AtRest EXCEPT !.step = "provider", !.drafted = TRUE, !.draft = d, !.asked = row.asked]
        BY <1>e, <1>5, <2>2 DEF ClaimsInvoice, Goes
    <3> HIDE DEF d
    <3>2. work'[w].step = "provider" /\ work'[w].draft = d
        BY <3>1, <1>r
    <3> QED BY <1>l, <1>5, <2>1, <2>2, <3>2 DEF ClaimsInvoice, Claimable, DraftStatus
  <2> QED BY <2>0, <2>2
<1>6. CASE ReadsLink(w)
  <2>1. work'[w] = [AtRest EXCEPT !.step = "mail", !.link = row.link, !.asked = row.asked]
      BY <1>e, <1>6 DEF ReadsLink, Goes
  <2> QED BY <1>l, <1>r, <1>6, <2>1 DEF ReadsLink
<1>7. CASE FindsPaid(w)
    BY <1>a, <1>7 DEF FindsPaid, RollsBack, Ends, Goes
<1>8. CASE Invoices(w)
  <2>1. work'[w] = [work[w] EXCEPT !.step = "store", !.link = created']
      BY <1>e, <1>8 DEF Invoices, Goes
  <2>2. work'[w].step = "store" /\ work'[w].draft = work[w].draft /\ work'[w].drafted = work[w].drafted
      BY <1>0, <2>1 DEF WorkRecords
  <2> QED BY <1>l, <1>8, <2>2 DEF Invoices, DraftStatus, DraftSteps
<1>9. CASE InvoiceRefused(w)
    BY <1>a, <1>9 DEF InvoiceRefused, RollsBack, Ends, Goes
<1>10. CASE Stores(w)
  <2> DEFINE d == Issued(work[w].draft, work[w].link)
  <2>1. /\ d.status = "pending" /\ d.told = work[w].draft.told /\ d.asked = work[w].draft.asked
        /\ ~d.sent /\ d.claim = None
      BY <1>0 DEF Rows, Issued
  <2>2. work'[w] = [work[w] EXCEPT !.step = "mail", !.draft = d]
      BY <1>e, <1>10 DEF Stores, Goes
  <2> HIDE DEF d
  <2>3. work'[w].step = "mail" /\ work'[w].draft = d /\ work'[w].drafted = work[w].drafted
      BY <1>0, <2>2 DEF WorkRecords
  <2> QED BY <1>l, <1>10, <2>1, <2>3 DEF Stores, DraftStatus, DraftSteps
<1>11. CASE ClaimsMail(w)
  <2> DEFINE a == [Seen(w) EXCEPT !.asked = TRUE]
             b == [Seen(w) EXCEPT !.reminded = TRUE]
  <2>0. /\ Seen(w) \in Rows /\ Seen(w).told = row.told /\ (row.asked => Seen(w).asked)
        /\ ~Seen(w).sent /\ Seen(w).claim = None
        /\ Seen(w).status = "pending" => row.status \notin {"paid", "cancelled", "refunded"}
      BY <1>0, <1>l, <1>11 DEF Seen, ClaimsMail
  <2>1. /\ a.status = Seen(w).status /\ a.told = row.told /\ a.asked /\ ~a.sent /\ a.claim = None
        /\ b.status = Seen(w).status /\ b.told = row.told /\ b.asked = Seen(w).asked
        /\ ~b.sent /\ b.claim = None
      BY <2>0 DEF Rows
  <2>2. Seen(w).status = "pending"
      BY <1>11 DEF ClaimsMail, Asks, RemindsNow
  <2>3. \/ work'[w] = [work[w] EXCEPT !.step = "send", !.drafted = TRUE, !.draft = a]
        \/ work'[w] = [work[w] EXCEPT !.step = "remind", !.drafted = TRUE, !.draft = b]
      BY <1>e, <1>11 DEF ClaimsMail, Goes
  <2> HIDE DEF a, b
  <2>4. work'[w].step \in {"send", "remind"} /\ work'[w].draft \in {a, b} /\ work'[w].drafted
      BY <1>0, <2>3 DEF WorkRecords
  <2> QED BY <1>l, <1>11, <2>0, <2>1, <2>2, <2>4 DEF ClaimsMail, DraftStatus
<1>12. CASE SkipsMail(w)
    BY <1>a, <1>12 DEF SkipsMail, Ends, Goes
<1>13. CASE Sends(w)
  <2>1. work'[w] = [work[w] EXCEPT !.step = "commit"]
      BY <1>e, <1>13 DEF Sends, Goes
  <2>2. work'[w].step = "commit" /\ work'[w].draft = work[w].draft /\ work'[w].drafted = work[w].drafted
      BY <1>0, <2>1 DEF WorkRecords
  <2> QED BY <1>l, <1>13, <2>2 DEF Sends, Mails, DraftStatus, DraftSteps
<1>14. CASE SendFails(w)
    BY <1>a, <1>14 DEF SendFails, RollsBack, Ends, Goes
<1>15. CASE Commits(w)
    BY <1>a, <1>15 DEF Commits, Ends, Goes
<1>16. CASE WorkerDies(w)
    BY <1>a, <1>16 DEF WorkerDies, RollsBack, Ends, Goes
<1> HIDE DEF Draws
<1> QED BY <1>1, <1>2, <1>3, <1>4, <1>5, <1>6, <1>7, <1>8, <1>9, <1>10, <1>11, <1>12, <1>13,
           <1>14, <1>15, <1>16 DEF WorkerNext, Renew

LEMMA LocksKept ==
    ASSUME TypeOK, LinksAtHand, LocksHold, [Next]_vars
    PROVE  LocksHold'
<1>s. CASE UNCHANGED vars
    BY <1>s DEF vars, LocksHold, OneGuard, DraftsAreCopies, DraftStatus, NewRowIsBlank, Separate, Guarded
<1>1. ASSUME NEW w \in Workers, WorkerNext(w) PROVE LocksHold'
    BY <1>1, WorkerSteps, WorkerDraws, DrawsKeepsLocks
<1>m. ASSUME MailKept, ~private PROVE row'.claim = None /\ ~row'.sent
    BY <1>m DEF MailKept, LocksHold, Separate
<1>2. ASSUME NEW p \in Parents, RequestNext(p) PROVE LocksHold'
    BY <1>2, <1>m, RequestSteps, QuietLocks DEF RequestEffect
<1>3. ASSUME NEW h \in Hooks, HookNext(h) PROVE LocksHold'
    BY <1>3, <1>m, HookSteps, QuietLocks DEF HookEffect
<1>4. ASSUME NEW d \in Dispatchers, Dispatch(d) \/ PostFails(d) \/ DispatcherDies(d) PROVE LocksHold'
  <2>1. private
      BY <1>4 DEF Dispatch, ClaimsPost, PostClaimable, Postable, Rereads, Posts, FinishesPost, PostFails,
                  DispatcherDies, LocksHold, Separate
  <2> QED BY <1>4, <2>1, PostSteps, QuietLocks
<1>5. ASSUME RowNext PROVE LocksHold'
    BY <1>5, <1>m, RowSteps, QuietLocks DEF RowEffect
<1> QED BY <1>s, <1>1, <1>2, <1>3, <1>4, <1>5 DEF Next

-----------------------------------------------------------------------------
(* Announcements of a renewal *)

\* The part of AnnouncementsCounted that is about one worker.
AskedApart(w) ==
    /\ work[w].step = "send" => ~row.asked /\ work[w].draft.asked
    /\ work[w].step = "mail" /\ work[w].drafted => (work[w].draft.asked <=> row.asked)
    /\ work[w].step \in {"provider", "store"} => (work[w].draft.asked <=> row.asked)

Budget == faults + (IF Announced THEN 1 ELSE 0)

LEMMA BudgetIs ==
    /\ Announced => Budget = faults + 1
    /\ ~Announced => Budget = faults + 0
BY DEF Budget

LEMMA NextBudgetIs ==
    /\ Announced' => Budget' = faults' + 1
    /\ ~Announced' => Budget' = faults' + 0
BY DEF Budget

\* A worker's step, as far as announcements go.
LEMMA WorkerAnnounces ==
    ASSUME TypeOK, LinksAtHand, LocksHold, AnnouncementsCounted, NEW w \in Workers, WorkerNext(w)
    PROVE  AskedApart(w)' /\ asks' <= Budget'
<1> USE DEF AskedApart, OthersKept
<1>0. /\ WorkerEffect(w) /\ Draws(w)
      /\ work[w] \in WorkRecords /\ row \in Rows /\ work[w].draft \in Rows
      /\ asks \in Nat /\ faults \in Nat
    BY WorkerSteps, WorkerDraws, WorkTyped DEF TypeOK, WorkRecords
<1>e. \A r : work' = [work EXCEPT ![w] = r] => work'[w] = r
    BY DEF TypeOK
<1>o. \A v \in Workers : v # w => work'[v] = work[v]
    BY <1>0 DEF WorkerEffect, TypeOK
<1>l. /\ AskedApart(w) /\ asks <= Budget
      /\ work[w].drafted => Guarded(w) /\ (row.asked => work[w].draft.asked)
      /\ row.status = "none" => ~row.asked
      /\ Guarded(w) => \A v \in Workers : work[v].step = "commit" => v = w
      /\ work[w].step \in DraftSteps => work[w].drafted
    BY WorkTyped
       DEF AnnouncementsCounted, Budget, LocksHold, DraftsAreCopies, NewRowIsBlank, OneGuard, Guarded, Equipped
<1>r. /\ AtRest.step = "idle" /\ ~AtRest.drafted
      /\ AtRest = [step |-> "idle", drafted |-> FALSE, draft |-> NoRow, link |-> NoInvoice, asked |-> FALSE]
    BY DEF AtRest
<1>b. asks \in Nat /\ faults \in Nat /\ asks <= Budget
    BY <1>0, <1>l
\* The announcement, if there is one, stays where it is.
<1>q. ASSUME row' = row, work[w].step # "commit", asks' = asks, faults' \in {faults, faults + 1}
      PROVE  asks' <= Budget'
  <2>1. Announced => Announced'
      BY <1>o, <1>q DEF Announced
  <2> QED BY <1>b, <1>q, <2>1, BudgetIs, NextBudgetIs
<1>a. ASSUME work' = [work EXCEPT ![w] = AtRest] PROVE AskedApart(w)'
    BY <1>a, <1>e, <1>r
<1>1. CASE Lists(w)
  <2>1. work'[w].step = "listed"
      BY <1>e, <1>r, <1>1 DEF Lists, Goes
  <2> QED BY <2>1, <1>q, <1>1 DEF Lists
<1>2. CASE Suspends(w)
    BY <1>a, <1>q, <1>2 DEF Suspends, Ends, Goes
<1>3. CASE Guards(w)
  <2>1. work'[w].step \in {"idle", "guarded"}
      BY <1>e, <1>r, <1>3 DEF Guards, Goes
  <2> QED BY <2>1, <1>q, <1>3 DEF Guards
<1>4. CASE Inserts(w)
  <2> DEFINE d == [NoRow EXCEPT !.status = "creating", !.order = created + 1]
  <2>1. ~d.asked
      BY DEF NoRow
  <2>2. work'[w] = [AtRest EXCEPT !.step = "provider", !.drafted = TRUE, !.draft = d]
      BY <1>e, <1>4 DEF Inserts, Goes
  <2> HIDE DEF d
  <2>3. work'[w].step = "provider" /\ work'[w].draft = d
      BY <2>2, <1>r
  <2> QED BY <1>l, <1>q, <1>4, <2>1, <2>3 DEF Inserts
<1>5. CASE ClaimsInvoice(w)
  <2> DEFINE d == Claimed(row)
  <2>1. d.asked = row.asked
      BY <1>0 DEF Rows, Claimed
  <2>2. CASE work' = [work EXCEPT ![w] = AtRest]
      BY <1>a, <1>q, <2>2, <1>5 DEF ClaimsInvoice
  <2>3. CASE work'[w] = [AtRest EXCEPT !.step = "provider", !.drafted = TRUE, !.draft = d, !.asked = row.asked]
    <3> HIDE DEF d
    <3>1. work'[w].step = "provider" /\ work'[w].draft = d
        BY <2>3, <1>r
    <3> QED BY <1>q, <1>5, <2>1, <3>1 DEF ClaimsInvoice
  <2> QED BY <1>e, <2>2, <2>3, <1>5 DEF ClaimsInvoice, Goes
<1>6. CASE ReadsLink(w)
  <2>1. work'[w] = [AtRest EXCEPT !.step = "mail", !.link = row.link, !.asked = row.asked]
      BY <1>e, <1>6 DEF ReadsLink, Goes
  <2>2. work'[w].step = "mail" /\ ~work'[w].drafted
      BY <2>1, <1>r
  <2> QED BY <1>q, <1>6, <2>2 DEF ReadsLink
<1>7. CASE FindsPaid(w)
    BY <1>a, <1>q, <1>7 DEF FindsPaid, RollsBack, Ends, Goes
<1>8. CASE Invoices(w)
  <2>1. work'[w] = [work[w] EXCEPT !.step = "store", !.link = created']
      BY <1>e, <1>8 DEF Invoices, Goes
  <2>2. work'[w].step = "store" /\ work'[w].draft = work[w].draft
      BY <1>0, <2>1 DEF WorkRecords
  <2> QED BY <1>l, <1>q, <1>8, <2>2 DEF Invoices
<1>9. CASE InvoiceRefused(w)
    BY <1>a, <1>q, <1>9 DEF InvoiceRefused, RollsBack, Ends, Goes
<1>10. CASE Stores(w)
  <2> DEFINE d == Issued(work[w].draft, work[w].link)
  <2>1. d.asked = work[w].draft.asked
      BY <1>0 DEF Rows, Issued
  <2>2. work'[w] = [work[w] EXCEPT !.step = "mail", !.draft = d]
      BY <1>e, <1>10 DEF Stores, Goes
  <2> HIDE DEF d
  <2>3. work'[w].step = "mail" /\ work'[w].draft = d
      BY <1>0, <2>2 DEF WorkRecords
  <2> QED BY <1>l, <1>q, <1>10, <2>1, <2>3 DEF Stores
<1>11. CASE ClaimsMail(w)
  <2> DEFINE a == [Seen(w) EXCEPT !.asked = TRUE]
             b == [Seen(w) EXCEPT !.reminded = TRUE]
  <2>0. Seen(w) \in Rows /\ (work[w].step = "mail" => (Seen(w).asked <=> row.asked))
      BY <1>0, <1>l DEF Seen
  <2>1. a.asked
      BY <2>0 DEF Rows
  <2>2. CASE Asks(w) /\ work'[w] = [work[w] EXCEPT !.step = "send", !.drafted = TRUE, !.draft = a]
    <3> HIDE DEF a
    <3>1. work'[w].step = "send" /\ work'[w].draft = a
        BY <1>0, <2>2 DEF WorkRecords
    <3> QED BY <1>q, <1>11, <2>0, <2>1, <2>2, <3>1 DEF ClaimsMail, Asks
  <2>3. CASE work'[w] = [work[w] EXCEPT !.step = "remind", !.drafted = TRUE, !.draft = b]
    <3> HIDE DEF b
    <3>1. work'[w].step = "remind"
        BY <1>0, <2>3 DEF WorkRecords
    <3> QED BY <1>q, <1>11, <3>1 DEF ClaimsMail
  <2> QED BY <1>e, <2>2, <2>3, <1>11 DEF ClaimsMail, Goes
\* The draft, with the announcement it records, becomes the row.
<1>c. ASSUME row' \in {row, work[w].draft}, asks' = asks, faults' = faults, Guarded(w),
             work[w].step = "commit" /\ work[w].draft.asked => row'.asked,
             row.asked => row'.asked
      PROVE  asks' <= Budget'
  <2>1. Announced => Announced'
      BY <1>c, <1>l DEF Announced
  <2> QED BY <1>0, <1>l, <1>c, <2>1 DEF Budget
<1>12. CASE SkipsMail(w)
  <2>1. row' = Seen(w) /\ work[w].step = "mail" /\ Guarded(w)
      BY <1>12 DEF SkipsMail, Ends, Guarded
  <2>2. row' \in {row, work[w].draft} /\ (row.asked => row'.asked)
      BY <1>l, <2>1 DEF Seen
  <2> QED BY <1>a, <1>c, <1>12, <2>1, <2>2 DEF SkipsMail, Ends, Goes
<1>13. CASE Sends(w)
  <2>1. work'[w] = [work[w] EXCEPT !.step = "commit"] /\ row' = row
      BY <1>e, <1>13 DEF Sends, Goes
  <2>2. work'[w].step = "commit" /\ work'[w].draft = work[w].draft
      BY <1>0, <2>1 DEF WorkRecords
  <2>3. CASE work[w].step = "send"
    <3>1. ~Announced
        BY <1>l, <2>3 DEF Announced, Guarded
    <3>2. Announced'
        BY <1>l, <2>2, <2>3 DEF Announced
    <3>3. asks' = asks + 1 /\ faults' = faults
        BY <2>3, <1>13 DEF Sends, Mails
    <3> QED BY <1>0, <1>l, <2>2, <3>1, <3>2, <3>3 DEF Budget
  <2>4. CASE work[w].step = "remind"
    <3>1. asks' = asks /\ faults' = faults
        BY <1>0, <2>4, <1>13 DEF Sends, Mails
    <3> QED BY <1>q, <2>1, <2>2, <2>4, <3>1
  <2> QED BY <2>3, <2>4, <1>13 DEF Sends, Mails
<1>14. CASE SendFails(w)
  <2>1. row' = row /\ work' = [work EXCEPT ![w] = AtRest] /\ faults' = faults + 1
      BY <1>14 DEF SendFails, RollsBack, Ends, Goes, Fault
  <2>2. asks' \in {asks, asks + 1} /\ (asks' = asks + 1 => work[w].step = "send") /\ work[w].step # "commit"
      BY <1>0, <1>14 DEF SendFails, Mails
  <2>3. CASE asks' = asks
      BY <1>a, <1>q, <2>1, <2>2, <2>3
  <2>4. CASE work[w].step = "send" /\ asks' = asks + 1
    <3>1. ~Announced
        BY <1>l, <2>4 DEF Announced, Guarded
    <3> QED BY <1>0, <1>a, <1>l, <2>1, <2>4, <3>1 DEF Budget
  <2> QED BY <2>2, <2>3, <2>4
<1>15. CASE Commits(w)
  <2>1. row' = work[w].draft /\ work[w].step = "commit" /\ Guarded(w)
      BY <1>15 DEF Commits, Ends, Guarded
  <2>2. row.asked => row'.asked
      BY <1>l, <2>1 DEF DraftSteps
  <2> QED BY <1>a, <1>c, <1>15, <2>1, <2>2 DEF Commits, Ends, Goes
<1>16. CASE WorkerDies(w)
  <2>1. row' = row /\ work' = [work EXCEPT ![w] = AtRest] /\ faults' = faults + 1 /\ asks' = asks
      BY <1>16 DEF WorkerDies, RollsBack, Ends, Goes, Fault
  <2> QED BY <1>0, <1>a, <1>l, <2>1 DEF Budget
<1> HIDE DEF AskedApart
<1> QED BY <1>1, <1>2, <1>3, <1>4, <1>5, <1>6, <1>7, <1>8, <1>9, <1>10, <1>11, <1>12, <1>13,
           <1>14, <1>15, <1>16 DEF WorkerNext, Renew

LEMMA AnnouncementsKept ==
    ASSUME TypeOK, LinksAtHand, LocksHold, AnnouncementsCounted, [Next]_vars
    PROVE  AnnouncementsCounted'
<1>1. ASSUME NEW w \in Workers, WorkerNext(w) PROVE AnnouncementsCounted'
  <2>1. WorkerEffect(w) /\ AskedApart(w)' /\ asks' <= Budget'
      BY <1>1, WorkerSteps, WorkerAnnounces
  <2>2. ASSUME NEW v \in Workers, v # w PROVE AskedApart(v)'
    <3>1. work'[v] = work[v]
        BY <2>1, <2>2 DEF WorkerEffect, TypeOK
    <3>2. CASE row' = row
        BY <3>1, <3>2 DEF AnnouncementsCounted, AskedApart
    <3>3. CASE row' # row
      <4>1. Guarded(w)
          BY <2>1, <3>3 DEF WorkerEffect, Guarded
      <4>2. ~Guarded(v) /\ ~work[v].drafted
          BY <2>2, <4>1 DEF LocksHold, OneGuard, DraftsAreCopies
      <4> QED BY <3>1, <4>2 DEF AskedApart, Guarded
    <3> QED BY <3>2, <3>3
  <2> QED BY <2>1, <2>2 DEF AnnouncementsCounted, AskedApart, Budget
<1>2. ASSUME Quiet PROVE AnnouncementsCounted'
  <2>1. (Announced' <=> Announced) /\ asks' = asks /\ faults' \in {faults, faults + 1}
      BY <1>2 DEF Quiet, Announced
  <2>0. asks \in Nat /\ faults \in Nat /\ asks <= Budget
      BY DEF TypeOK, AnnouncementsCounted, Budget
  <2>2. asks' <= Budget'
      BY <2>0, <2>1, BudgetIs, NextBudgetIs
  <2>3. \A v \in Workers : AskedApart(v)'
      BY <1>2 DEF Quiet, AnnouncementsCounted, AskedApart
  <2> QED BY <2>2, <2>3 DEF AnnouncementsCounted, AskedApart, Budget
<1>3. CASE UNCHANGED vars
    BY <1>3 DEF vars, mailVars, AnnouncementsCounted, Announced
<1> QED BY <1>1, <1>2, <1>3, RequestSteps, HookSteps, PostSteps, RowSteps DEF Next

-----------------------------------------------------------------------------
(* Outcome mails *)

\* An outcome whose mail is recorded, and no longer on its way.
Recorded(s) == s \in row.told /\ ~ (\E h \in Hooks : Holds(h, s))

OutcomeBudget(s) == faults + (IF Recorded(s) THEN 1 ELSE 0)

LEMMA OutcomeBudgetIs ==
    ASSUME NEW s
    PROVE  /\ Recorded(s) => OutcomeBudget(s) = faults + 1
           /\ ~Recorded(s) => OutcomeBudget(s) = faults + 0
           /\ Recorded(s)' => OutcomeBudget(s)' = faults' + 1
           /\ ~Recorded(s)' => OutcomeBudget(s)' = faults' + 0
BY DEF OutcomeBudget

OneHolder(s) ==
    /\ \A h \in Hooks : Holds(h, s) => s \in row.told
    /\ \A g, h \in Hooks : Holds(g, s) /\ Holds(h, s) => g = h

LEMMA OutcomesAre ==
    /\ OutcomesCounted <=> \A s \in Outcomes : OneHolder(s) /\ tellings[s] <= OutcomeBudget(s)
    /\ OutcomesCounted' <=> \A s \in Outcomes : OneHolder(s)' /\ tellings'[s] <= OutcomeBudget(s)'
BY DEF OutcomesCounted, OneHolder, OutcomeBudget, Recorded

\* A step that neither sends, records nor forgets an outcome mail.
LEMMA OutcomesUntouched ==
    ASSUME TypeOK, OutcomesCounted, tellings' = tellings, faults' \in {faults, faults + 1},
           row'.told = row.told,
           \A g \in Hooks, s \in Outcomes : Holds(g, s)' <=> Holds(g, s)
    PROVE  OutcomesCounted'
<1> SUFFICES ASSUME NEW s \in Outcomes PROVE OneHolder(s)' /\ tellings'[s] <= OutcomeBudget(s)'
    BY OutcomesAre
<1>1. OneHolder(s) /\ tellings[s] <= OutcomeBudget(s) /\ tellings[s] \in Nat /\ faults \in Nat
    BY OutcomesAre DEF TypeOK
<1>2. OneHolder(s)'
    BY <1>1 DEF OneHolder
<1>3. Recorded(s)' <=> Recorded(s)
    BY DEF Recorded
<1>4. tellings'[s] <= OutcomeBudget(s)'
    BY <1>1, <1>3, OutcomeBudgetIs
<1> QED BY <1>2, <1>4

LEMMA HooksCount ==
    ASSUME TypeOK, OutcomesCounted, NEW h \in Hooks, HookNext(h)
    PROVE  OutcomesCounted'
<1> USE DEF HookKeeps, HookTo, HookRecords
<1>0. /\ Quiet /\ HookEffect(h) /\ hook \in [Hooks -> HookRecords] /\ row \in Rows
      /\ tellings \in [Outcomes -> Nat] /\ faults \in Nat
    BY HookSteps DEF TypeOK
<1>g. \A g \in Hooks, s \in Outcomes : g # h => (Holds(g, s)' <=> Holds(g, s))
    BY <1>0 DEF HookEffect, Holds
<1>1. ASSUME hook[h].step \notin {"send", "release"}, hook'[h].step \notin {"send", "release"},
             row'.told = row.told, tellings' = tellings
      PROVE  OutcomesCounted'
  <2>1. \A s \in Outcomes : ~Holds(h, s) /\ ~Holds(h, s)'
      BY <1>1 DEF Holds
  <2> QED BY <1>0, <1>1, <1>g, <2>1, OutcomesUntouched DEF Quiet
<1>2. ASSUME NEW i \in 1..MaxInvoices, Succeeds(i, h) \/ FailsPayment(i, h) PROVE OutcomesCounted'
  <2>1. hook[h].step = "idle" /\ hook'[h].step = "claim" /\ tellings' = tellings
      BY <1>0, <1>2 DEF Succeeds, FailsPayment, Free, Tells, CallbackKeeps, mailVars
  <2>2. row'.told = row.told
      BY <1>0, <1>2 DEF Succeeds, FailsPayment, Rows
  <2> QED BY <1>1, <2>1, <2>2
<1>3. CASE Repeats(h)
  <2>1. /\ hook[h].step = "idle" /\ hook'[h].step = "claim"
        /\ UNCHANGED <<tellings, row>>
      BY <1>0, <1>3 DEF Repeats, Free, Tells, CallbackKeeps, mailVars
  <2> QED BY <1>1, <2>1
<1>4. CASE ClaimsOutcome(h)
  <2> DEFINE o == hook[h].of
  <2>0. o \in Outcomes /\ hook[h].step = "claim" /\ UNCHANGED <<tellings, faults>>
      BY <1>0, <1>4 DEF ClaimsOutcome
  <2>1. CASE ~Untold(o)
    <3>1. hook'[h].step = "idle" /\ row' = row
        BY <1>0, <1>4, <2>1 DEF ClaimsOutcome
    <3> QED BY <1>1, <2>0, <3>1
  <2>2. CASE Untold(o)
    <3>1. hook'[h] = [step |-> "send", of |-> o] /\ row'.told = row.told \cup {o} /\ o \notin row.told
        BY <1>0, <1>4, <2>2 DEF ClaimsOutcome, Untold, Rows
    <3> SUFFICES ASSUME NEW s \in Outcomes PROVE OneHolder(s)' /\ tellings'[s] <= OutcomeBudget(s)'
        BY OutcomesAre
    <3>2. OneHolder(s) /\ tellings[s] <= OutcomeBudget(s) /\ tellings[s] \in Nat
        BY <1>0, OutcomesAre
    <3>3. CASE s = o
      <4>1. \A g \in Hooks : Holds(g, s)' <=> g = h
          BY <1>g, <3>1, <3>2, <3>3 DEF OneHolder, Holds
      <4>2. OneHolder(s)'
          BY <3>1, <3>3, <4>1 DEF OneHolder
      <4>3. ~Recorded(s) /\ ~Recorded(s)'
          BY <3>1, <3>3, <4>1 DEF Recorded
      <4> QED BY <1>0, <2>0, <3>2, <4>2, <4>3, OutcomeBudgetIs
    <3>4. CASE s # o
      <4>1. \A g \in Hooks : Holds(g, s)' <=> Holds(g, s)
          BY <1>g, <2>0, <3>1, <3>4 DEF Holds
      <4>2. OneHolder(s)' /\ (Recorded(s)' <=> Recorded(s))
          BY <3>1, <3>2, <3>4, <4>1 DEF OneHolder, Recorded
      <4> QED BY <1>0, <2>0, <3>2, <4>2, OutcomeBudgetIs
    <3> QED BY <3>3, <3>4
  <2> QED BY <2>1, <2>2
<1>5. CASE SendsOutcome(h)
  <2> DEFINE o == hook[h].of
  <2>0. /\ o \in Outcomes /\ Holds(h, o) /\ row' = row /\ hook'[h].of = o
        /\ \/ hook'[h].step = "idle" /\ tellings' = [tellings EXCEPT ![o] = @ + 1] /\ faults' = faults
           \/ /\ hook'[h].step = "release" /\ faults' = faults + 1
              /\ tellings' \in {tellings, [tellings EXCEPT ![o] = @ + 1]}
      BY <1>0, <1>5 DEF SendsOutcome, Holds, Fault
  <2> SUFFICES ASSUME NEW s \in Outcomes PROVE OneHolder(s)' /\ tellings'[s] <= OutcomeBudget(s)'
      BY OutcomesAre
  <2>1. OneHolder(s) /\ tellings[s] <= OutcomeBudget(s) /\ tellings[s] \in Nat
      BY <1>0, OutcomesAre
  <2>2. CASE s # o
    <3>1. \A g \in Hooks : Holds(g, s)' <=> Holds(g, s)
        BY <1>g, <2>0, <2>2 DEF Holds
    <3>2. OneHolder(s)' /\ (Recorded(s)' <=> Recorded(s))
        BY <2>0, <2>1, <3>1 DEF OneHolder, Recorded
    <3>3. tellings'[s] = tellings[s] /\ faults' \in {faults, faults + 1}
        BY <1>0, <2>0, <2>2
    <3> QED BY <1>0, <2>1, <3>2, <3>3, OutcomeBudgetIs
  <2>3. CASE s = o
    <3>1. ~Recorded(s)
        BY <2>0, <2>3 DEF Recorded
    <3>2. tellings[s] <= faults
        BY <1>0, <2>1, <3>1, OutcomeBudgetIs
    <3>3. \A g \in Hooks : Holds(g, s) <=> g = h
        BY <2>0, <2>1, <2>3 DEF OneHolder
    <3>4. s \in row'.told
        BY <2>0, <2>1, <2>3 DEF OneHolder
    <3>5. \A g \in Hooks : Holds(g, s)' => g = h
        BY <1>g, <3>3
    <3>6. OneHolder(s)'
        BY <3>4, <3>5 DEF OneHolder
    <3>7. CASE hook'[h].step = "idle" /\ tellings' = [tellings EXCEPT ![o] = @ + 1] /\ faults' = faults
      <4>1. Recorded(s)'
          BY <3>4, <3>5, <3>7 DEF Recorded, Holds
      <4>2. tellings'[s] = tellings[s] + 1
          BY <1>0, <2>3, <3>7
      <4> QED BY <1>0, <2>1, <3>2, <3>6, <3>7, <4>1, <4>2, OutcomeBudgetIs
    <3>8. CASE faults' = faults + 1 /\ tellings' \in {tellings, [tellings EXCEPT ![o] = @ + 1]}
      <4>1. tellings'[s] \in {tellings[s], tellings[s] + 1}
          BY <1>0, <2>3, <3>8
      <4> QED BY <1>0, <2>1, <3>2, <3>6, <3>8, <4>1, OutcomeBudgetIs
    <3> QED BY <2>0, <3>7, <3>8
  <2> QED BY <2>2, <2>3
\* The claim of h ends; its record may be taken back.
<1>e. ASSUME Holds(h, hook[h].of), ~Holds(h, hook[h].of)', hook'[h].of = hook[h].of,
             tellings' = tellings, row'.told \in {row.told, row.told \ {hook[h].of}},
             faults' \in {faults, faults + 1}
      PROVE  OutcomesCounted'
  <2> DEFINE o == hook[h].of
  <2> SUFFICES ASSUME NEW s \in Outcomes PROVE OneHolder(s)' /\ tellings'[s] <= OutcomeBudget(s)'
      BY OutcomesAre
  <2>1. OneHolder(s) /\ tellings[s] <= OutcomeBudget(s) /\ tellings[s] \in Nat
      BY <1>0, OutcomesAre
  <2>2. CASE s # o
    <3>1. \A g \in Hooks : Holds(g, s)' <=> Holds(g, s)
        BY <1>g, <1>e, <2>2 DEF Holds
    <3>2. s \in row'.told <=> s \in row.told
        BY <1>e, <2>2
    <3>3. OneHolder(s)' /\ (Recorded(s)' <=> Recorded(s))
        BY <2>1, <3>1, <3>2 DEF OneHolder, Recorded
    <3> QED BY <1>0, <1>e, <2>1, <3>3, OutcomeBudgetIs
  <2>3. CASE s = o
    <3>1. ~Recorded(s)
        BY <1>e, <2>3 DEF Recorded
    <3>2. \A g \in Hooks : ~Holds(g, s)'
        BY <1>g, <1>e, <2>1, <2>3 DEF OneHolder
    <3>3. OneHolder(s)'
        BY <3>2 DEF OneHolder
    <3> QED BY <1>0, <1>e, <2>1, <3>1, <3>3, OutcomeBudgetIs
  <2> QED BY <2>2, <2>3
<1>6. CASE ReleasesOutcome(h)
  <2>1. /\ Holds(h, hook[h].of) /\ hook'[h].of = hook[h].of /\ hook'[h].step = "idle"
        /\ tellings' = tellings /\ faults' = faults
      BY <1>0, <1>6 DEF ReleasesOutcome, Holds
  <2>2. row'.told \in {row.told, row.told \ {hook[h].of}}
      BY <1>0, <1>6 DEF ReleasesOutcome, Rows
  <2>3. ~Holds(h, hook[h].of)'
      BY <2>1 DEF Holds
  <2> QED BY <1>e, <2>1, <2>2, <2>3
<1>7. CASE HookDies(h)
  <2>1. /\ hook'[h].step = "idle" /\ hook'[h].of = hook[h].of
        /\ row' = row /\ tellings' = tellings /\ faults' = faults + 1
      BY <1>0, <1>7 DEF HookDies, Fault
  <2>2. CASE hook[h].step \in {"send", "release"}
    <3>1. Holds(h, hook[h].of) /\ ~Holds(h, hook[h].of)'
        BY <2>1, <2>2 DEF Holds
    <3> QED BY <1>e, <2>1, <3>1
  <2> QED BY <1>1, <2>1, <2>2
<1> QED BY <1>2, <1>3, <1>4, <1>5, <1>6, <1>7 DEF HookNext

LEMMA OutcomesKept ==
    ASSUME TypeOK, LinksAtHand, LocksHold, OutcomesCounted, [Next]_vars
    PROVE  OutcomesCounted'
<1>0. ASSUME hook' = hook, tellings' = tellings, faults' \in {faults, faults + 1}, row'.told = row.told
      PROVE  OutcomesCounted'
  <2>1. \A g \in Hooks, s \in Outcomes : Holds(g, s)' <=> Holds(g, s)
      BY <1>0 DEF Holds
  <2> QED BY <1>0, <2>1, OutcomesUntouched
<1>1. ASSUME NEW w \in Workers, WorkerNext(w) PROVE OutcomesCounted'
  <2>1. WorkerEffect(w)
      BY <1>1, WorkerSteps
  <2>2. row'.told = row.told
      BY <2>1 DEF WorkerEffect, LocksHold, DraftsAreCopies
  <2> QED BY <1>0, <2>1, <2>2 DEF WorkerEffect, WorkerKeeps
<1>2. ASSUME NEW p \in Parents, RequestNext(p) PROVE OutcomesCounted'
    BY <1>0, <1>2, RequestSteps DEF Quiet, RequestEffect
<1>3. ASSUME NEW d \in Dispatchers, Dispatch(d) \/ PostFails(d) \/ DispatcherDies(d) PROVE OutcomesCounted'
    BY <1>0, <1>3, PostSteps DEF Quiet, PostEffect
<1>4. CASE RowNext
    BY <1>0, <1>4, RowSteps DEF Quiet, RowEffect
<1>5. CASE UNCHANGED vars
    BY <1>0, <1>5 DEF vars, mailVars
<1> QED BY <1>1, <1>2, <1>3, <1>4, <1>5, HooksCount DEF Next

-----------------------------------------------------------------------------
(* Private payment mails *)

PostsCounted == PostsAreCurrent /\ SentMeansMailed

LEMMA WorkersPost ==
    ASSUME TypeOK, LinksAtHand, LocksHold, PostsCounted, NEW w \in Workers, WorkerNext(w)
    PROVE  PostsCounted'
<1>0. WorkerEffect(w)
    BY WorkerSteps
<1>1. ~private
    BY WorkerDraws DEF LocksHold, Separate, WorkerNext, Renew, Lists, Suspends, Guards, Inserts, ClaimsInvoice,
       ReadsLink, FindsPaid, Invoices, InvoiceRefused, Stores, ClaimsMail, SkipsMail, Sends, Mails,
       SendFails, Commits, WorkerDies
<1>2. \A d \in Dispatchers : post'[d].step = "idle"
    BY <1>0, <1>1 DEF WorkerEffect, WorkerKeeps, LocksHold, Separate
<1>3. ~row'.sent
    BY <1>0, <1>1 DEF WorkerEffect, LocksHold, Separate
<1> QED BY <1>2, <1>3 DEF PostsCounted, PostsAreCurrent, SentMeansMailed

\* A step that leaves the dispatchers alone keeps their mails apart.
LEMMA MailKeptPosts ==
    ASSUME TypeOK, PostsCounted, MailKept, post' = post, delivered' = delivered
    PROVE  PostsCounted'
<1>1. PostsAreCurrent'
  <2> SUFFICES ASSUME NEW d \in Dispatchers
               PROVE  /\ post[d].step = "sent" => post[d].link \in delivered
                      /\ row'.claim = d /\ row'.status = "pending" /\ post[d].step \in {"send", "sent"} =>
                             post[d].link = row'.link
      BY DEF PostsAreCurrent
  <2> QED BY ConstantsAssumption DEF PostsCounted, PostsAreCurrent, MailKept
<1>2. SentMeansMailed'
    BY DEF PostsCounted, SentMeansMailed, MailKept
<1> QED BY <1>1, <1>2 DEF PostsCounted

LEMMA DispatchersPost ==
    ASSUME TypeOK, LinksAtHand, PostsCounted, NEW d \in Dispatchers,
           Dispatch(d) \/ PostFails(d) \/ DispatcherDies(d)
    PROVE  PostsCounted'
<1> USE DEF PostKeeps, PostTo
<1>0. PostEffect(d) /\ post \in [Dispatchers -> Posted] /\ row \in Rows /\ d # None
    BY PostSteps, ConstantsAssumption DEF TypeOK, Posted
\* What remains to be shown of the dispatcher that moves.
<1>1. ASSUME post'[d].step = "sent" => post'[d].link \in delivered',
             row'.claim = d /\ row.status = "pending" /\ post'[d].step \in {"send", "sent"} =>
                 post'[d].link = row.link,
             row'.claim \in {row.claim, d, None},
             row'.sent => row.sent \/ row.link = NoInvoice \/ row.link \in delivered'
      PROVE  PostsCounted'
  <2>1. ASSUME NEW e \in Dispatchers
        PROVE  /\ post'[e].step = "sent" => post'[e].link \in delivered'
               /\ row'.claim = e /\ row'.status = "pending" /\ post'[e].step \in {"send", "sent"} =>
                      post'[e].link = row'.link
    <3>1. CASE e = d
        BY <1>0, <1>1, <3>1 DEF PostEffect
    <3>2. CASE e # d
      <4>1. post'[e] = post[e]
          BY <1>0, <3>2 DEF PostEffect
      <4>2. row'.claim = e => row.claim = e
          BY <1>1, <3>2, ConstantsAssumption
      <4> QED BY <1>0, <4>1, <4>2 DEF PostEffect, PostsCounted, PostsAreCurrent
    <3> QED BY <3>1, <3>2
  <2>2. SentMeansMailed'
      BY <1>0, <1>1 DEF PostEffect, PostsCounted, SentMeansMailed
  <2> QED BY <2>1, <2>2 DEF PostsCounted, PostsAreCurrent
<1>p. /\ post[d].step = "sent" => post[d].link \in delivered
      /\ row.claim = d /\ row.status = "pending" /\ post[d].step \in {"send", "sent"} =>
             post[d].link = row.link
    BY DEF PostsCounted, PostsAreCurrent
<1>2. CASE ClaimsPost(d)
  <2>1. post'[d].step = "reread"
      BY <1>0, <1>2 DEF ClaimsPost
  <2>2. row'.claim = d /\ row'.sent = row.sent
      BY <1>0, <1>2 DEF ClaimsPost, Rows
  <2> QED BY <1>1, <2>1, <2>2
<1>3. CASE Rereads(d)
  <2>1. row' = row /\ (post'[d] = [step |-> "send", link |-> row.link] \/ post'[d].step = "failed")
      BY <1>0, <1>3 DEF Rereads
  <2> QED BY <1>1, <2>1
<1>4. CASE Posts(d)
  <2>1. row' = row /\ post'[d] = [step |-> "sent", link |-> post[d].link] /\ post[d].step = "send"
        /\ post[d].link \in delivered'
      BY <1>0, <1>4 DEF Posts
  <2> QED BY <1>1, <1>p, <2>1
<1>5. CASE PostFails(d)
  <2>1. row' = row /\ post'[d].step = "failed"
      BY <1>0, <1>5 DEF PostFails
  <2> QED BY <1>1, <2>1
<1>6. CASE FinishesPost(d)
  <2>1. post'[d].step = "idle" /\ delivered' = delivered
      BY <1>0, <1>6 DEF FinishesPost
  <2>2. CASE row.status = "pending" /\ row.claim = d
    <3> DEFINE s == post[d].step = "sent"
    <3>1. row' = [row EXCEPT !.claim = None, !.late = FALSE, !.sent = s]
        BY <1>6, <2>2 DEF FinishesPost
    <3> HIDE DEF s
    <3>2. row'.claim = None /\ row'.sent = s
        BY <1>0, <3>1 DEF Rows
    <3>3. s => row.link \in delivered'
        BY <1>p, <2>1, <2>2 DEF s
    <3> QED BY <1>1, <2>1, <3>2, <3>3
  <2>3. CASE ~ (row.status = "pending" /\ row.claim = d)
    <3>1. row' = row
        BY <1>6, <2>3 DEF FinishesPost
    <3> QED BY <1>1, <2>1, <3>1
  <2> QED BY <2>2, <2>3
<1>7. CASE DispatcherDies(d)
  <2>1. row' = row /\ post'[d].step = "idle"
      BY <1>0, <1>7 DEF DispatcherDies
  <2> QED BY <1>1, <2>1
<1> QED BY <1>2, <1>3, <1>4, <1>5, <1>6, <1>7 DEF Dispatch

LEMMA PostsKept ==
    ASSUME TypeOK, LinksAtHand, LocksHold, PostsCounted, [Next]_vars
    PROVE  PostsCounted'
<1>1. CASE UNCHANGED vars
    BY <1>1 DEF vars, mailVars, PostsCounted, PostsAreCurrent, SentMeansMailed
<1>2. ASSUME NEW p \in Parents, RequestNext(p) PROVE PostsCounted'
    BY <1>2, RequestSteps, MailKeptPosts DEF RequestEffect
<1>3. ASSUME NEW h \in Hooks, HookNext(h) PROVE PostsCounted'
    BY <1>3, HookSteps, MailKeptPosts DEF HookEffect
<1>4. CASE RowNext
    BY <1>4, RowSteps, MailKeptPosts DEF RowEffect
<1> QED BY <1>1, <1>2, <1>3, <1>4, WorkersPost, DispatchersPost DEF Next

-----------------------------------------------------------------------------
(* Invoices that can be paid *)

\* Links a worker has in hand; they are not on the row before it commits.
Hand == {work[w].link : w \in {v \in Workers : work[v].step \in {"store", "mail", "send", "remind", "commit"}}}

\* What the next claim of the invoice would add to: links given out or in hand
\* that can be paid, requests that have claimed the row, a worker that has.
Out == {i \in known \cup Hand : invoices[i].state \in {"open", "paid"}}

Asking == {p \in Parents : reissue[p].step # "idle"}

Claiming == {w \in Workers : work[w].step = "provider"}

Load == ({"out"} \X Out) \cup ({"asking"} \X Asking) \cup ({"claiming"} \X Claiming)

\* No link, or one that cannot be paid any more.
Dead(i) == i = NoInvoice \/ Lapsed(i)

\* The row may be invoiced again.
Vacant ==
    \/ row.status = "none"
    \/ row.status \in {"pending", "failed", "expired"} /\ Dead(row.link)
    \/ row.status = "creating" /\ Asking = {}

\* A worker's draft will be vacant when it is committed.
VacantDraft(w) ==
    /\ work[w].drafted
    /\ \/ work[w].step \notin {"provider", "store"} /\ Dead(work[w].draft.link)
       \/ work[w].step = "store" /\ Dead(work[w].link)

\* Every link but one is paid for by a fault, and that one too if the row may be
\* invoiced again.
LoadIsBounded ==
    /\ Cardinality(Load) <= 1 + faults
    /\ RowFree /\ Vacant => Cardinality(Load) <= faults
    /\ \A w \in Workers : VacantDraft(w) => Cardinality(Load) <= faults

\* Which invoices may be where.
LinksKnown ==
    /\ known \cup Hand \subseteq 1..created
    /\ row.link # NoInvoice => row.link \in known
    /\ \A w \in Workers : work[w].drafted /\ work[w].draft.link # NoInvoice =>
           work[w].draft.link \in known \cup {work[w].link}
    /\ \A w \in Workers : work[w].drafted /\ work[w].draft.link # NoInvoice =>
           work[w].step \in {"mail", "send", "remind", "commit"}
    /\ \A p \in Parents : reissue[p].invoice \in 0..created

\* A claim that may be taken over has been given up, and an expired link is dead.
ClaimsAbandoned ==
    /\ row.status = "creating" /\ row.old => Asking = {}
    /\ row.status = "expired" => Dead(row.link)

InvoicesCounted == LoadIsBounded /\ LinksKnown /\ ClaimsAbandoned

LEMMA LoadFinite ==
    ASSUME TypeOK, LinksKnown
    PROVE  IsFiniteSet(Load) /\ Cardinality(Load) \in Nat
<1>1. created \in Nat
    BY ConstantsAssumption DEF TypeOK, Numbers
<1>2. IsFiniteSet(1..created)
    BY <1>1, FS_Interval
<1>3. Out \subseteq 1..created
    BY DEF Out, LinksKnown
<1>4. IsFiniteSet(Out)
    BY <1>2, <1>3, FS_Subset
<1>5. IsFiniteSet(Asking)
    BY ConstantsAssumption, FS_Subset DEF Asking
<1>6. IsFiniteSet(Claiming)
    BY ConstantsAssumption, FS_Subset DEF Claiming
<1>7. \A x : IsFiniteSet({x})
    BY FS_Singleton
<1>8. /\ IsFiniteSet({"out"} \X Out) /\ IsFiniteSet({"asking"} \X Asking)
      /\ IsFiniteSet({"claiming"} \X Claiming)
    BY <1>4, <1>5, <1>6, <1>7, FS_Product
<1>9. IsFiniteSet(Load)
    BY <1>8, FS_Union DEF Load
<1> QED BY <1>9, FS_CardinalityType

LEMMA Subset ==
    ASSUME NEW L, IsFiniteSet(L), NEW M \in SUBSET L
    PROVE  Cardinality(M) \in Nat /\ Cardinality(M) <= Cardinality(L)
BY FS_Subset, FS_CardinalityType

LEMMA Gains ==
    ASSUME NEW L, IsFiniteSet(L), NEW x, NEW M \in SUBSET (L \cup {x})
    PROVE  Cardinality(M) \in Nat /\ Cardinality(M) <= Cardinality(L) + 1
<1>0. Cardinality(L) \in Nat
    BY FS_CardinalityType
<1>a. IsFiniteSet(L \cup {x}) /\ Cardinality(L \cup {x}) = IF x \in L THEN Cardinality(L) ELSE Cardinality(L) + 1
    BY FS_AddElement
<1>1. IsFiniteSet(L \cup {x}) /\ Cardinality(L \cup {x}) <= Cardinality(L) + 1
    BY <1>0, <1>a
<1> QED BY <1>1, Subset, FS_CardinalityType

LEMMA Losing ==
    ASSUME NEW L, IsFiniteSet(L), NEW y \in L, NEW M \in SUBSET (L \ {y})
    PROVE  Cardinality(M) \in Nat /\ Cardinality(M) + 1 <= Cardinality(L)
<1>1. IsFiniteSet(L \ {y}) /\ Cardinality(L \ {y}) = Cardinality(L) - 1
    BY FS_RemoveElement
<1> QED BY <1>1, Subset, FS_CardinalityType

LEMMA Swaps ==
    ASSUME NEW L, IsFiniteSet(L), NEW y \in L, NEW x, NEW M \in SUBSET ((L \ {y}) \cup {x})
    PROVE  Cardinality(M) \in Nat /\ Cardinality(M) <= Cardinality(L)
<1> DEFINE K == L \ {y}
<1>1. IsFiniteSet(K) /\ Cardinality(K) = Cardinality(L) - 1 /\ M \in SUBSET (K \cup {x})
    BY FS_RemoveElement
<1> HIDE DEF K
<1>2. Cardinality(M) \in Nat /\ Cardinality(M) <= Cardinality(K) + 1
    BY <1>1, Gains
<1> QED BY <1>1, <1>2, FS_CardinalityType

\* How a step may change the load.
LEMMA LoadShrinks ==
    ASSUME TypeOK, LinksKnown, Out' \subseteq Out, Asking' \subseteq Asking, Claiming' \subseteq Claiming
    PROVE  Cardinality(Load') \in Nat /\ Cardinality(Load') <= Cardinality(Load)
<1>1. Load' \subseteq Load
    BY DEF Load
<1> QED BY <1>1, LoadFinite, Subset

LEMMA LoadLoses ==
    ASSUME TypeOK, LinksKnown, Out' \subseteq Out, Asking' \subseteq Asking, Claiming' \subseteq Claiming,
           ~ (Out \subseteq Out' /\ Asking \subseteq Asking' /\ Claiming \subseteq Claiming')
    PROVE  Cardinality(Load') \in Nat /\ Cardinality(Load') + 1 <= Cardinality(Load)
<1>1. PICK y \in Load : y \notin Load'
  <2>1. CASE \E i \in Out : i \notin Out'
    <3>1. PICK i \in Out : i \notin Out'
        BY <2>1
    <3>2. <<"out", i>> \in Load /\ <<"out", i>> \notin Load'
        BY <3>1 DEF Load
    <3> QED BY <3>2
  <2>2. CASE \E p \in Asking : p \notin Asking'
    <3>1. PICK p \in Asking : p \notin Asking'
        BY <2>2
    <3>2. <<"asking", p>> \in Load /\ <<"asking", p>> \notin Load'
        BY <3>1 DEF Load
    <3> QED BY <3>2
  <2>3. CASE \E w \in Claiming : w \notin Claiming'
    <3>1. PICK w \in Claiming : w \notin Claiming'
        BY <2>3
    <3>2. <<"claiming", w>> \in Load /\ <<"claiming", w>> \notin Load'
        BY <3>1 DEF Load
    <3> QED BY <3>2
  <2> QED BY <2>1, <2>2, <2>3
<1>2. Load' \subseteq Load \ {y}
    BY <1>1 DEF Load
<1> QED BY <1>2, LoadFinite, Losing

LEMMA LoadGains ==
    ASSUME TypeOK, LinksKnown, Out' \subseteq Out, NEW x,
           \/ Asking' \subseteq Asking \cup {x} /\ Claiming' \subseteq Claiming
           \/ Asking' \subseteq Asking /\ Claiming' \subseteq Claiming \cup {x}
    PROVE  Cardinality(Load') \in Nat /\ Cardinality(Load') <= Cardinality(Load) + 1
<1>1. CASE Asking' \subseteq Asking \cup {x} /\ Claiming' \subseteq Claiming
  <2>1. Load' \subseteq Load \cup {<<"asking", x>>}
      BY <1>1 DEF Load
  <2> QED BY <2>1, LoadFinite, Gains
<1>2. CASE Asking' \subseteq Asking /\ Claiming' \subseteq Claiming \cup {x}
  <2>1. Load' \subseteq Load \cup {<<"claiming", x>>}
      BY <1>2 DEF Load
  <2> QED BY <2>1, LoadFinite, Gains
<1> QED BY <1>1, <1>2

LEMMA LoadSwaps ==
    ASSUME TypeOK, LinksKnown, NEW i, Out' \subseteq Out \cup {i}, NEW y,
           \/ y \in Asking /\ Asking' \subseteq Asking \ {y} /\ Claiming' \subseteq Claiming
           \/ y \in Claiming /\ Asking' \subseteq Asking /\ Claiming' \subseteq Claiming \ {y}
    PROVE  Cardinality(Load') \in Nat /\ Cardinality(Load') <= Cardinality(Load)
<1>1. CASE y \in Asking /\ Asking' \subseteq Asking \ {y} /\ Claiming' \subseteq Claiming
  <2> DEFINE b == <<"asking", y>>
             a == <<"out", i>>
  <2>1. b \in Load /\ Load' \in SUBSET ((Load \ {b}) \cup {a})
      BY <1>1 DEF Load
  <2> HIDE DEF a, b
  <2>2. IsFiniteSet(Load)
      BY LoadFinite
  <2> QED BY <2>1, <2>2, Swaps
<1>2. CASE y \in Claiming /\ Asking' \subseteq Asking /\ Claiming' \subseteq Claiming \ {y}
  <2> DEFINE b == <<"claiming", y>>
             a == <<"out", i>>
  <2>1. b \in Load /\ Load' \in SUBSET ((Load \ {b}) \cup {a})
      BY <1>2 DEF Load
  <2> HIDE DEF a, b
  <2>2. IsFiniteSet(Load)
      BY LoadFinite
  <2> QED BY <2>1, <2>2, Swaps
<1> QED BY <1>1, <1>2

LEMMA WorkUnchanged ==
    ASSUME work' = work
    PROVE  Hand' = Hand /\ Claiming' = Claiming /\ RowFree' = RowFree
BY DEF Hand, Claiming, RowFree

LEMMA LinkTyped ==
    ASSUME TypeOK, LinksKnown
    PROVE  /\ created \in 0..MaxInvoices /\ created \in Nat
           /\ known \cup Hand \subseteq 1..MaxInvoices
           /\ \A w \in Workers : work[w].draft.link \in 0..MaxInvoices /\ work[w].link \in 0..MaxInvoices
           /\ row.link \in 0..MaxInvoices
<1>1. created \in 0..MaxInvoices /\ created \in Nat
    BY ConstantsAssumption DEF TypeOK, Numbers
<1>2. known \cup Hand \subseteq 1..MaxInvoices
    BY <1>1, ConstantsAssumption DEF LinksKnown
<1>3. \A w \in Workers : work[w].draft.link \in Numbers /\ work[w].link \in Numbers
    BY DEF TypeOK, Rows
<1> QED BY <1>1, <1>2, <1>3, RowTyped DEF Numbers

\* A step that changes neither the load nor any link.
LEMMA Uncounted ==
    ASSUME TypeOK, LinksAtHand, InvoicesCounted,
           UNCHANGED <<work, known, created, reissue>>,
           \A i \in 1..MaxInvoices :
               /\ invoices'[i].state \in {"open", "paid"} <=> invoices[i].state \in {"open", "paid"}
               /\ invoices'[i].state = "lapsed" <=> invoices[i].state = "lapsed",
           faults' \in {faults, faults + 1},
           row'.link = row.link,
           RowFree /\ Vacant' => Vacant \/ faults' = faults + 1,
           ClaimsAbandoned'
    PROVE  InvoicesCounted'
<1> USE DEF InvoicesCounted
<1>1. Hand' = Hand /\ Claiming' = Claiming /\ RowFree' = RowFree /\ Asking' = Asking
    BY WorkUnchanged DEF Asking
<1>2. Out' = Out
    BY <1>1, LinkTyped DEF Out
<1>3. Load' = Load
    BY <1>1, <1>2 DEF Load
<1>4. \A i \in 0..MaxInvoices : Dead(i)' <=> Dead(i)
    BY ConstantsAssumption DEF Dead, Lapsed, NoInvoice
<1>5. \A w \in Workers : VacantDraft(w)' <=> VacantDraft(w)
    BY <1>4, LinkTyped DEF VacantDraft
<1>6. Cardinality(Load) \in Nat /\ faults \in Nat
    BY LoadFinite DEF TypeOK
<1>7. LoadIsBounded'
    BY <1>1, <1>3, <1>5, <1>6 DEF LoadIsBounded
<1>8. LinksKnown'
    BY <1>1 DEF LinksKnown
<1> QED BY <1>7, <1>8

LEMMA AbandonedKept ==
    ASSUME TypeOK, ClaimsAbandoned, reissue' = reissue, row'.link = row.link,
           \A i \in 0..MaxInvoices : Dead(i) => Dead(i)',
           row'.status = "creating" /\ row'.old => (row.status = "creating" /\ row.old) \/ Asking = {},
           row'.status = "expired" => row.status = "expired" \/ Dead(row.link)
    PROVE  ClaimsAbandoned'
<1>1. row.link \in 0..MaxInvoices
    BY RowTyped DEF Numbers
<1>2. Asking' = Asking
    BY DEF Asking
<1> QED BY <1>1, <1>2 DEF ClaimsAbandoned, Dead

LEMMA HooksInvoice ==
    ASSUME TypeOK, LinksAtHand, InvoicesCounted, NEW h \in Hooks, HookNext(h)
    PROVE  InvoicesCounted'
<1> USE RowTyped DEF CallbackKeeps, HookKeeps, providerVars
<1>0. Quiet /\ HookEffect(h)
    BY HookSteps
<1>1. UNCHANGED <<work, known, created, reissue, invoices>> /\ row'.link = row.link /\ row'.old = row.old
    BY <1>0 DEF Quiet, HookEffect, HookNext, Succeeds, FailsPayment, Repeats, ClaimsOutcome, SendsOutcome,
       ReleasesOutcome, HookDies, Rows
<1>2. \/ row'.status = "paid" \/ row'.status = row.status
      \/ \E i \in 1..MaxInvoices : FailsPayment(i, h)
    BY DEF HookNext, Succeeds, Repeats, ClaimsOutcome, SendsOutcome, ReleasesOutcome, HookDies, Rows
<1>3. ASSUME NEW i \in 1..MaxInvoices, FailsPayment(i, h)
      PROVE  /\ row'.status = "failed"
             /\ Vacant' => Vacant \/ faults' = faults + 1
  <2>1. row'.status = "failed" /\ row.status \in {"pending", "creating"} /\ (i = row.link \/ faults' = faults + 1)
      BY <1>3 DEF FailsPayment, Rows, Fault
  <2>2. i = row.link => row.status = "pending"
      BY <2>1, ConstantsAssumption DEF NoInvoice
  <2> QED BY <1>1, <2>1, <2>2 DEF Vacant, Dead, Lapsed
<1>4. Asking' = Asking /\ \A i : Dead(i)' <=> Dead(i)
    BY <1>1 DEF Asking, Dead, Lapsed
<1>5. Vacant' => Vacant \/ faults' = faults + 1
    BY <1>1, <1>2, <1>3, <1>4 DEF Vacant
<1>6. ClaimsAbandoned'
    BY <1>1, <1>2, <1>3, <1>4, AbandonedKept DEF InvoicesCounted
<1> QED BY <1>0, <1>1, <1>5, <1>6, Uncounted DEF Quiet

LEMMA DispatchersInvoice ==
    ASSUME TypeOK, LinksAtHand, InvoicesCounted, NEW d \in Dispatchers,
           Dispatch(d) \/ PostFails(d) \/ DispatcherDies(d)
    PROVE  InvoicesCounted'
<1>0. Quiet /\ PostEffect(d)
    BY PostSteps
<1>1. UNCHANGED <<work, known, created, reissue, invoices>> /\ row'.link = row.link /\ row'.old = row.old
      /\ row'.status = row.status
    BY <1>0, RowTyped DEF Quiet, PostEffect, PostKeeps, providerVars, Dispatch, ClaimsPost, Rereads, Posts, PostFails,
       FinishesPost, DispatcherDies, Rows
<1>4. Asking' = Asking /\ \A i : Dead(i)' <=> Dead(i)
    BY <1>1 DEF Asking, Dead, Lapsed
<1>5. Vacant' => Vacant
    BY <1>1, <1>4 DEF Vacant
<1>6. ClaimsAbandoned'
    BY <1>1, <1>4, AbandonedKept DEF InvoicesCounted
<1> QED BY <1>0, <1>1, <1>5, <1>6, Uncounted DEF Quiet

\* An invoice lapses: it is no longer counted, wherever it is.
LEMMA LapseCounted ==
    ASSUME TypeOK, LinksAtHand, InvoicesCounted, NEW i \in 1..MaxInvoices, InvoiceLapses(i)
    PROVE  InvoicesCounted'
<1> USE DEF InvoicesCounted, InvoiceLapses, RowStepKeeps
<1>1. Hand' = Hand /\ Claiming' = Claiming /\ RowFree' = RowFree /\ Asking' = Asking
      /\ UNCHANGED <<row, work, known, created, reissue, faults>>
    BY WorkUnchanged DEF Asking
<1>2. /\ \A j \in 1..MaxInvoices : j # i => invoices'[j] = invoices[j]
      /\ invoices[i].state = "open" /\ invoices'[i].state = "lapsed"
    BY DEF TypeOK
<1>3. Out' \subseteq Out /\ i \notin Out' /\ (i \in known \cup Hand => i \in Out)
    BY <1>1, <1>2, LinkTyped DEF Out
<1>4. Cardinality(Load) \in Nat /\ faults \in Nat
    BY LoadFinite DEF TypeOK
<1>5. \A j \in 0..MaxInvoices : j # i => (Dead(j)' <=> Dead(j))
    BY <1>2, ConstantsAssumption DEF Dead, Lapsed, NoInvoice
<1>6. Dead(i)' /\ i # NoInvoice
    BY <1>2, ConstantsAssumption DEF Dead, Lapsed, NoInvoice
<1>7. LinksKnown'
    BY <1>1 DEF LinksKnown
<1>8. ClaimsAbandoned'
  <2>1. \A j \in 0..MaxInvoices : Dead(j) => Dead(j)'
      BY <1>5, <1>6
  <2> QED BY <1>1, <2>1, AbandonedKept
<1>9. CASE i \in known \cup Hand
  <2>1. Cardinality(Load') \in Nat /\ Cardinality(Load') + 1 <= Cardinality(Load)
      BY <1>1, <1>3, <1>9, LoadLoses
  <2> QED BY <1>1, <1>4, <1>7, <1>8, <2>1 DEF LoadIsBounded
<1>10. CASE i \notin known \cup Hand
  <2>1. Cardinality(Load') \in Nat /\ Cardinality(Load') <= Cardinality(Load)
      BY <1>1, <1>3, LoadShrinks
  <2>2. row.link # i
      BY <1>6, <1>10 DEF LinksKnown
  <2>3. Vacant' <=> Vacant
      BY <1>1, <1>5, <2>2, LinkTyped DEF Vacant
  <2>4. ASSUME NEW w \in Workers PROVE VacantDraft(w)' => VacantDraft(w)
    <3>1. work[w].step \in {"store", "mail", "send", "remind", "commit"} => work[w].link # i
        BY <1>10 DEF Hand
    <3>2. work[w].drafted => work[w].draft.link # i
        BY <1>6, <1>10, <3>1 DEF LinksKnown
    <3> QED BY <1>1, <1>5, <3>1, <3>2, LinkTyped DEF VacantDraft
  <2> QED BY <1>1, <1>4, <1>7, <1>8, <2>1, <2>3, <2>4 DEF LoadIsBounded
<1> QED BY <1>9, <1>10

LEMMA RowsInvoice ==
    ASSUME TypeOK, LinksAtHand, InvoicesCounted, RowNext
    PROVE  InvoicesCounted'
<1> USE RowTyped DEF RowStepKeeps, CallbackKeeps, Becomes, Grows
<1>0. Quiet /\ RowEffect
    BY RowSteps
<1>1. CASE \E i \in 1..MaxInvoices : InvoiceLapses(i)
    BY <1>1, LapseCounted
<1>2. ASSUME NEW i \in 1..MaxInvoices, Pays(i) PROVE InvoicesCounted'
  <2>1. UNCHANGED <<work, known, created, reissue, row, faults>>
      BY <1>2 DEF Pays
  <2>2. \A j \in 1..MaxInvoices :
            /\ invoices'[j].state \in {"open", "paid"} <=> invoices[j].state \in {"open", "paid"}
            /\ invoices'[j].state = "lapsed" <=> invoices[j].state = "lapsed"
      BY <1>2 DEF Pays
  <2>3. \A j \in 0..MaxInvoices : Dead(j)' <=> Dead(j)
      BY <2>2, ConstantsAssumption DEF Dead, Lapsed, NoInvoice
  <2>4. Vacant' => Vacant
      BY <2>1, <2>3, LinkTyped DEF Vacant, Asking, InvoicesCounted
  <2>5. ClaimsAbandoned'
      BY <2>1, <2>3, AbandonedKept DEF InvoicesCounted
  <2> QED BY <2>1, <2>2, <2>4, <2>5, Uncounted
<1>3. ASSUME Expires \/ Cancels \/ Refunds \/ ClaimAges \/ PostClaimAges \/ ReminderDue
      PROVE  InvoicesCounted'
  <2>1. UNCHANGED <<work, known, created, reissue, invoices>> /\ row'.link = row.link
      BY <1>3 DEF Expires, Cancels, Refunds, ClaimAges, PostClaimAges, ReminderDue, Rows
  <2>2. \/ row'.status = row.status
        \/ row'.status \in {"cancelled", "refunded"}
        \/ row'.status = "expired" /\ row.status = "pending" /\ Dead(row.link)
      BY <1>3 DEF Expires, Cancels, Refunds, ClaimAges, PostClaimAges, ReminderDue, Rows, Dead
  <2>3. row'.old => row.old \/ Asking = {}
    <3>1. CASE ClaimAges
        BY <3>1 DEF ClaimAges, Asking
    <3>2. CASE Expires \/ Cancels \/ Refunds \/ PostClaimAges \/ ReminderDue
        BY <3>2 DEF Expires, Cancels, Refunds, PostClaimAges, ReminderDue, Rows
    <3> QED BY <1>3, <3>1, <3>2
  <2>4. Asking' = Asking /\ \A i : Dead(i)' <=> Dead(i)
      BY <2>1 DEF Asking, Dead, Lapsed
  <2>5. Vacant' => Vacant
      BY <2>1, <2>2, <2>4 DEF Vacant
  <2>6. ClaimsAbandoned'
      BY <2>1, <2>2, <2>3, <2>4, AbandonedKept DEF InvoicesCounted
  <2> QED BY <1>0, <2>1, <2>5, <2>6, Uncounted DEF Quiet
<1> QED BY <1>1, <1>2, <1>3 DEF RowNext

\* The provider's answer: a number that is nowhere yet.
LEMMA NewInvoice ==
    ASSUME TypeOK, LinksKnown, NEW o, Creates(o)
    PROVE  /\ created' = created + 1 /\ created' \in 1..MaxInvoices /\ created' \notin known \cup Hand
           /\ \A j \in 1..MaxInvoices : j # created' => invoices'[j] = invoices[j]
           /\ invoices'[created'].state = "open"
           /\ \A j \in 0..MaxInvoices : j # created' => (Dead(j)' <=> Dead(j))
<1>1. created \in Nat /\ created < MaxInvoices /\ MaxInvoices \in Nat /\ created' = created + 1
    BY LinkTyped, ConstantsAssumption DEF Creates
<1>2. created' \in 1..MaxInvoices /\ created' \notin known \cup Hand
    BY <1>1 DEF LinksKnown
<1>3. /\ \A j \in 1..MaxInvoices : j # created' => invoices'[j] = invoices[j]
      /\ invoices'[created'].state = "open"
    BY <1>1, <1>2 DEF Creates, TypeOK
<1>4. \A j \in 0..MaxInvoices : j # created' => (Dead(j)' <=> Dead(j))
    BY <1>2, <1>3, ConstantsAssumption DEF Dead, Lapsed, NoInvoice
<1> QED BY <1>1, <1>2, <1>3, <1>4

LEMMA RequestsInvoice ==
    ASSUME TypeOK, LinksAtHand, InvoicesCounted, NEW p \in Parents, RequestNext(p)
    PROVE  InvoicesCounted'
<1> USE RowTyped, LinkTyped DEF InvoicesCounted, RequestKeeps, mailVars, Requests
<1>0. /\ Quiet /\ RequestEffect(p) /\ reissue \in [Parents -> Requests]
      /\ Hand' = Hand /\ Claiming' = Claiming /\ RowFree' = RowFree /\ work' = work
    BY RequestSteps, WorkUnchanged DEF TypeOK, Quiet
<1>1. Cardinality(Load) \in Nat /\ faults \in Nat
    BY LoadFinite DEF TypeOK
<1>2. ASSUME RowFree PROVE \A w \in Workers : ~work[w].drafted /\ ~VacantDraft(w)'
    BY <1>0, <1>2 DEF RowFree, VacantDraft
<1>3. CASE ClaimsReinvoice(p)
  <2>1. /\ row' = Claimed(row) /\ UNCHANGED <<created, invoices, known, faults>> /\ RowFree
        /\ reissue[p].step = "idle" /\ reissue' = [reissue EXCEPT ![p] = [step |-> "provider", invoice |-> NoInvoice]]
      BY <1>3 DEF ClaimsReinvoice, To, providerVars
  <2>2. row'.status = "creating" /\ row'.link = NoInvoice /\ ~row'.old
      BY <2>1 DEF Claimed, Rows
  <2>3. Vacant
      BY <1>3 DEF ClaimsReinvoice, Reinvoicable, ClaimsAbandoned, Vacant, Dead
  <2>4. Asking' \subseteq Asking \cup {p} /\ p \in Asking'
      BY <1>0, <2>1 DEF Asking
  <2>5. Out' = Out
      BY <1>0, <2>1 DEF Out
  <2>6. Cardinality(Load') \in Nat /\ Cardinality(Load') <= Cardinality(Load) + 1
      BY <1>0, <2>4, <2>5, LoadGains
  <2>7. ~Vacant'
      BY <2>2, <2>4 DEF Vacant
  <2>8. LoadIsBounded'
      BY <1>1, <1>2, <2>1, <2>3, <2>6, <2>7 DEF LoadIsBounded
  <2>9. LinksKnown'
      BY <1>0, <1>2, <2>1, <2>2, ConstantsAssumption DEF LinksKnown, NoInvoice
  <2> QED BY <2>2, <2>8, <2>9 DEF ClaimsAbandoned
<1>4. CASE GetsInvoice(p)
  <2>1. reissue[p].step = "provider" /\ UNCHANGED <<row, known, faults>>
      BY <1>4 DEF GetsInvoice
  <2>2. CASE UNCHANGED providerVars /\ reissue' = [reissue EXCEPT ![p] = [step |-> "restore", invoice |-> NoInvoice]]
    <3>1. Asking' = Asking
        BY <1>0, <2>1, <2>2 DEF Asking
    <3>2. Out' = Out /\ \A j : Dead(j)' <=> Dead(j)
        BY <1>0, <2>1, <2>2 DEF Out, Dead, Lapsed, providerVars
    <3>3. Load' = Load
        BY <1>0, <3>1, <3>2 DEF Load
    <3>4. (Vacant' <=> Vacant) /\ \A w \in Workers : VacantDraft(w)' <=> VacantDraft(w)
        BY <1>0, <2>1, <3>1, <3>2 DEF Vacant, VacantDraft
    <3>5. LinksKnown'
        BY <1>0, <2>1, <2>2, ConstantsAssumption DEF LinksKnown, providerVars, NoInvoice
    <3> QED BY <1>0, <1>1, <2>1, <3>1, <3>2, <3>3, <3>4, <3>5 DEF LoadIsBounded, ClaimsAbandoned
  <2>3. CASE Creates(row.order) /\ reissue' = [reissue EXCEPT ![p] = [step |-> "store", invoice |-> created']]
    <3>1. Asking' = Asking
        BY <1>0, <2>1, <2>3 DEF Asking
    <3>2. /\ created' = created + 1 /\ created' \in 1..MaxInvoices /\ created' \notin known \cup Hand
          /\ \A j \in 1..MaxInvoices : j # created' => invoices'[j] = invoices[j]
          /\ \A j \in 0..MaxInvoices : j # created' => (Dead(j)' <=> Dead(j))
        BY <2>3, NewInvoice
    <3>3. Out' = Out
        BY <1>0, <2>1, <3>2 DEF Out
    <3>4. Load' = Load
        BY <1>0, <3>1, <3>3 DEF Load
    <3>5. row.link # created'
        BY <3>2, ConstantsAssumption DEF LinksKnown, NoInvoice
    <3>6. Vacant' <=> Vacant
        BY <2>1, <3>1, <3>2, <3>5 DEF Vacant
    <3>7. ASSUME NEW w \in Workers PROVE VacantDraft(w)' <=> VacantDraft(w)
      <4>1. work[w].step = "store" => work[w].link # created'
          BY <3>2 DEF Hand
      <4>2. work[w].drafted => work[w].draft.link # created'
          BY <3>2, ConstantsAssumption DEF LinksKnown, Hand, NoInvoice
      <4> QED BY <1>0, <3>2, <4>1, <4>2 DEF VacantDraft
    <3>8. LinksKnown'
        BY <1>0, <2>1, <2>3, <3>2 DEF LinksKnown
    <3> QED BY <1>0, <1>1, <2>1, <3>1, <3>2, <3>4, <3>5, <3>6, <3>7, <3>8 DEF LoadIsBounded, ClaimsAbandoned
  <2> QED BY <2>2, <2>3, <1>4 DEF GetsInvoice, To
\* The request ends, with or without its invoice.
<1>5. ASSUME reissue[p].step # "idle", reissue' = [reissue EXCEPT ![p] = [step |-> "idle", invoice |-> NoInvoice]],
             UNCHANGED <<created, invoices>>
      PROVE  /\ p \in Asking /\ Asking' \subseteq Asking \ {p}
             /\ \A j : Dead(j)' <=> Dead(j)
             /\ \A q \in Parents : reissue'[q].invoice \in 0..created
    BY <1>0, <1>5, ConstantsAssumption DEF Asking, Dead, Lapsed, LinksKnown, NoInvoice
<1>6. CASE RequestEnds(p)
  <2> DEFINE i == reissue[p].invoice
  <2>1. /\ reissue[p].step # "idle"
        /\ reissue' = [reissue EXCEPT ![p] = [step |-> "idle", invoice |-> NoInvoice]]
        /\ RowFree /\ UNCHANGED <<created, invoices, faults>>
      BY <1>6 DEF RequestEnds, To, providerVars
  <2>2. CASE row' = Issued(row, i) /\ known' = known \cup {i} /\ reissue[p].step = "store"
    <3>1. i \in 1..created
        BY <2>2 DEF LinksKnown, LinksAtHand, NoInvoice
    <3>2. row'.status = "pending" /\ row'.link = i
        BY <2>2 DEF Issued, Rows
    <3>3. Out' \subseteq Out \cup {i} /\ (Dead(i) => Out' \subseteq Out)
        BY <1>0, <2>1, <2>2, <3>1 DEF Out, Dead, Lapsed, NoInvoice
    <3>4. Cardinality(Load') \in Nat /\ Cardinality(Load') <= Cardinality(Load)
        BY <1>0, <1>5, <2>1, <3>3, LoadSwaps
    <3>5. Dead(i) => Cardinality(Load') + 1 <= Cardinality(Load)
        BY <1>0, <1>5, <2>1, <3>3, LoadLoses
    <3>6. Vacant' => Dead(i)
        BY <1>5, <2>1, <3>2 DEF Vacant
    <3>7. LoadIsBounded'
        BY <1>1, <1>2, <2>1, <3>4, <3>5, <3>6 DEF LoadIsBounded
    <3>8. LinksKnown'
        BY <1>0, <1>2, <1>5, <2>1, <2>2, <3>1, <3>2 DEF LinksKnown
    <3> QED BY <3>2, <3>7, <3>8 DEF ClaimsAbandoned
  <2>3. CASE /\ known' = known /\ row'.link = row.link /\ row'.status \in {row.status, "failed"}
             /\ row'.old = row.old
    <3>1. Out' = Out
        BY <1>0, <2>1, <2>3 DEF Out
    <3>2. Cardinality(Load') \in Nat /\ Cardinality(Load') + 1 <= Cardinality(Load)
        BY <1>0, <1>5, <2>1, <3>1, LoadLoses
    <3>3. LoadIsBounded'
        BY <1>1, <1>2, <2>1, <3>2 DEF LoadIsBounded
    <3>4. LinksKnown'
        BY <1>0, <1>2, <1>5, <2>1, <2>3 DEF LinksKnown
    <3>5. ClaimsAbandoned'
        BY <1>5, <2>1, <2>3 DEF ClaimsAbandoned
    <3> QED BY <3>3, <3>4, <3>5
  <2> QED BY <2>2, <2>3, <1>6 DEF RequestEnds, Rows
<1>7. CASE RequestDies(p)
  <2>1. /\ reissue[p].step # "idle"
        /\ reissue' = [reissue EXCEPT ![p] = [step |-> "idle", invoice |-> NoInvoice]]
        /\ UNCHANGED <<row, created, invoices, known>> /\ faults' = faults + 1
      BY <1>7 DEF RequestDies, To, providerVars, Fault
  <2>2. Out' = Out
      BY <1>0, <2>1 DEF Out
  <2>3. Cardinality(Load') \in Nat /\ Cardinality(Load') + 1 <= Cardinality(Load)
      BY <1>0, <1>5, <2>1, <2>2, LoadLoses
  <2>4. LoadIsBounded'
      BY <1>1, <2>1, <2>3 DEF LoadIsBounded
  <2>5. LinksKnown'
      BY <1>0, <1>5, <2>1 DEF LinksKnown
  <2>6. ClaimsAbandoned'
      BY <1>5, <2>1 DEF ClaimsAbandoned
  <2> QED BY <2>4, <2>5, <2>6
<1> QED BY <1>3, <1>4, <1>6, <1>7 DEF RequestNext

HandSteps == {"store", "mail", "send", "remind", "commit"}

\* What a worker adds to Hand and to Claiming.
HandOf(r) == IF r.step \in HandSteps THEN {r.link} ELSE {}

ClaimOf(w, r) == IF r.step = "provider" THEN {w} ELSE {}

\* While a worker is guarded, the others have no part in the load.
LEMMA GuardedView ==
    ASSUME TypeOK, LocksHold, LocksHold', NEW w \in Workers, WorkerEffect(w), Guarded(w)
    PROVE  /\ RowFree <=> ~work[w].drafted
           /\ RowFree' <=> ~work'[w].drafted
           /\ Hand = HandOf(work[w]) /\ Hand' = HandOf(work'[w])
           /\ Claiming = ClaimOf(w, work[w]) /\ Claiming' = ClaimOf(w, work'[w])
           /\ Asking' = Asking
           /\ \A v \in Workers : v # w => ~work'[v].drafted
<1>1. \A v \in Workers : v # w =>
        work'[v] = work[v] /\ work[v].step \in {"idle", "listed"} /\ ~work[v].drafted
    BY DEF WorkerEffect, TypeOK, LocksHold, OneGuard, DraftsAreCopies, Guarded
<1>2. (RowFree <=> ~work[w].drafted) /\ (RowFree' <=> ~work'[w].drafted)
    BY <1>1 DEF RowFree
<1>3. Hand = HandOf(work[w])
    BY <1>1 DEF Hand, HandOf, HandSteps
<1>4. Hand' = HandOf(work'[w])
    BY <1>1 DEF Hand, HandOf, HandSteps
<1>5. Claiming = ClaimOf(w, work[w]) /\ Claiming' = ClaimOf(w, work'[w])
    BY <1>1 DEF Claiming, ClaimOf
<1>6. Asking' = Asking
    BY DEF WorkerEffect, WorkerKeeps, Asking
<1> QED BY <1>1, <1>2, <1>3, <1>4, <1>5, <1>6

\* Steps outside the lock, or that find nothing to do in it.
LEMMA NothingInHand ==
    ASSUME TypeOK, LinksAtHand, LocksHold, InvoicesCounted, NEW w \in Workers, WorkerEffect(w),
           work[w].step \in {"idle", "listed", "guarded"},
           work'[w].step \in {"idle", "listed", "guarded"}, ~work'[w].drafted,
           UNCHANGED <<row, known, created, invoices>>
    PROVE  InvoicesCounted'
<1> USE DEF InvoicesCounted
<1>0. ~work[w].drafted
    BY DEF LocksHold, DraftsAreCopies, Guarded
<1>1. \A v \in Workers : v # w => work'[v] = work[v]
    BY DEF WorkerEffect, TypeOK
<1>2. RowFree' <=> RowFree
    BY <1>0, <1>1 DEF RowFree
<1>3. Claiming' = Claiming /\ Asking' = Asking
    BY <1>1 DEF Claiming, Asking, WorkerEffect, WorkerKeeps
<1>4. Hand' = Hand
  <2>1. {v \in Workers : work'[v].step \in HandSteps} = {v \in Workers : work[v].step \in HandSteps}
      BY <1>1 DEF HandSteps
  <2>2. \A v \in Workers : work[v].step \in HandSteps => work'[v].link = work[v].link
      BY <1>1 DEF HandSteps
  <2> QED BY <2>1, <2>2 DEF Hand, HandSteps
<1>5. Out' = Out
    BY <1>4 DEF Out
<1>6. Load' = Load
    BY <1>3, <1>5 DEF Load
<1>7. \A j : Dead(j)' <=> Dead(j)
    BY DEF Dead, Lapsed
<1>8. (Vacant' <=> Vacant) /\ \A v \in Workers : VacantDraft(v)' => VacantDraft(v)
    BY <1>0, <1>1, <1>3, <1>7 DEF Vacant, VacantDraft
<1>9. Cardinality(Load) \in Nat /\ faults \in Nat /\ faults' \in {faults, faults + 1}
    BY LoadFinite DEF TypeOK, WorkerEffect
<1>10. LoadIsBounded'
    BY <1>2, <1>6, <1>8, <1>9 DEF LoadIsBounded
<1>11. LinksKnown'
    BY <1>0, <1>1, <1>4 DEF LinksKnown, WorkerEffect, WorkerKeeps
<1>12. ClaimsAbandoned'
    BY <1>3, <1>7 DEF ClaimsAbandoned
<1> QED BY <1>10, <1>11, <1>12

LEMMA WorkersAbandon ==
    ASSUME TypeOK, LinksAtHand, LocksHold, InvoicesCounted, NEW w \in Workers, WorkerEffect(w),
           \A j \in 0..MaxInvoices : Dead(j) => Dead(j)' \/ j \notin 0..created
    PROVE  ClaimsAbandoned'
<1>1. row' # row => row'.status = "pending"
    BY DEF WorkerEffect, LocksHold, DraftsAreCopies, DraftStatus
<1>2. Asking' = Asking
    BY DEF WorkerEffect, WorkerKeeps, Asking
<1>3. row.link \in 0..created /\ row.link \in 0..MaxInvoices
    BY LinkTyped DEF InvoicesCounted, LinksKnown, NoInvoice
<1> QED BY <1>1, <1>2, <1>3 DEF ClaimsAbandoned, InvoicesCounted

LEMMA WorkersInvoice ==
    ASSUME TypeOK, LinksAtHand, LocksHold, LocksHold', InvoicesCounted, NEW w \in Workers, WorkerNext(w)
    PROVE  InvoicesCounted'
<1> USE DEF InvoicesCounted, OthersKept
<1>0. /\ WorkerEffect(w) /\ Draws(w) /\ Cardinality(Load) \in Nat /\ faults \in Nat
      /\ work[w] \in WorkRecords /\ row \in Rows /\ work[w].draft \in Rows
    BY WorkerSteps, WorkerDraws, LoadFinite, WorkTyped DEF TypeOK, WorkRecords
<1>e. \A r : work' = [work EXCEPT ![w] = r] => work'[w] = r
    BY DEF TypeOK
<1>o. \A v \in Workers : v # w => work'[v] = work[v]
    BY <1>0 DEF WorkerEffect, TypeOK
<1>r. /\ AtRest.step = "idle" /\ ~AtRest.drafted
      /\ AtRest = [step |-> "idle", drafted |-> FALSE, draft |-> NoRow, link |-> NoInvoice, asked |-> FALSE]
    BY DEF AtRest
<1>d. work[w].step \in DraftSteps => work[w].drafted
    BY WorkTyped DEF Equipped
<1>v. ASSUME Guarded(w)
      PROVE  /\ RowFree <=> ~work[w].drafted
             /\ RowFree' <=> ~work'[w].drafted
             /\ Hand = HandOf(work[w]) /\ Hand' = HandOf(work'[w])
             /\ Claiming = ClaimOf(w, work[w]) /\ Claiming' = ClaimOf(w, work'[w])
             /\ Asking' = Asking
             /\ \A v \in Workers : v # w => ~work'[v].drafted
    BY <1>0, <1>v, GuardedView
<1>l. /\ known \cup Hand \subseteq 1..created
      /\ row.link # NoInvoice => row.link \in known
      /\ work[w].drafted /\ work[w].draft.link # NoInvoice =>
             /\ work[w].draft.link \in known \cup {work[w].link}
             /\ work[w].step \in {"mail", "send", "remind", "commit"}
      /\ work[w].step \in HandSteps => work[w].link \in Hand
    BY DEF LinksKnown, Hand, HandSteps
\* The links of the next state, given those of w.
<1>k. ASSUME Guarded(w), known' \cup Hand' \subseteq 1..created',
             row'.link # NoInvoice => row'.link \in known',
             work'[w].drafted /\ work'[w].draft.link # NoInvoice =>
                 /\ work'[w].draft.link \in known' \cup {work'[w].link}
                 /\ work'[w].step \in {"mail", "send", "remind", "commit"},
             created' \in {created, created + 1}
      PROVE  LinksKnown'
  <2>1. \A p \in Parents : reissue'[p].invoice \in 0..created'
      BY <1>0, <1>k, LinkTyped DEF LinksKnown, WorkerEffect, WorkerKeeps
  <2> QED BY <1>k, <1>v, <2>1 DEF LinksKnown
\* The bound of the next state, given that of w.
<1>b. ASSUME Guarded(w), Cardinality(Load') \in Nat, Cardinality(Load') <= 1 + faults',
             ~work'[w].drafted /\ Vacant' => Cardinality(Load') <= faults',
             VacantDraft(w)' => Cardinality(Load') <= faults'
      PROVE  LoadIsBounded'
  <2>1. \A v \in Workers : VacantDraft(v)' => v = w
      BY <1>b, <1>v DEF VacantDraft
  <2> QED BY <1>b, <1>v, <2>1 DEF LoadIsBounded
<1>i. ASSUME UNCHANGED <<created, invoices>>
      PROVE  ClaimsAbandoned' /\ \A j : Dead(j)' <=> Dead(j)
  <2>1. \A j : Dead(j)' <=> Dead(j)
      BY <1>i DEF Dead, Lapsed
  <2> QED BY <1>0, <2>1, WorkersAbandon
<1>1. CASE Lists(w)
  <2>1. work'[w] = [AtRest EXCEPT !.step = "listed"] /\ UNCHANGED <<row, known, created, invoices>>
      BY <1>e, <1>1 DEF Lists, Goes, providerVars
  <2> QED BY <1>0, <1>r, <2>1, <1>1, NothingInHand DEF Lists
<1>2. CASE Suspends(w)
  <2>1. work'[w] = AtRest /\ UNCHANGED <<row, known, created, invoices>>
      BY <1>e, <1>2 DEF Suspends, Ends, Goes, providerVars
  <2> QED BY <1>0, <1>r, <2>1, <1>2, NothingInHand DEF Suspends
<1>3. CASE Guards(w)
  <2>1. work'[w] \in {AtRest, [AtRest EXCEPT !.step = "guarded"]} /\ UNCHANGED <<row, known, created, invoices>>
      BY <1>e, <1>3 DEF Guards, Goes, providerVars
  <2> QED BY <1>0, <1>r, <2>1, <1>3, NothingInHand DEF Guards
<1>7. CASE FindsPaid(w)
  <2>1. work'[w] = AtRest /\ UNCHANGED <<row, known, created, invoices>>
      BY <1>e, <1>7 DEF FindsPaid, RollsBack, Ends, Goes, providerVars
  <2> QED BY <1>0, <1>r, <2>1, <1>7, NothingInHand DEF FindsPaid
\* The worker claims the invoice, of a row that may have it.
<1>c. ASSUME work[w].step = "guarded", Vacant, work'[w].step = "provider", work'[w].drafted,
             work'[w].draft.link = NoInvoice, UNCHANGED <<row, known, created, invoices, faults>>
      PROVE  InvoicesCounted'
  <2>0. Guarded(w) /\ ~work[w].drafted /\ RowFree
      BY <1>0, <1>c, <1>v DEF Guarded, LocksHold, DraftsAreCopies
  <2>1. Hand = {} /\ Hand' = {} /\ Claiming = {} /\ Claiming' = {w} /\ Asking' = Asking
      BY <1>c, <1>v, <2>0 DEF HandOf, ClaimOf, HandSteps
  <2>2. Out' = Out
      BY <1>c, <2>1 DEF Out
  <2>3. Cardinality(Load') \in Nat /\ Cardinality(Load') <= Cardinality(Load) + 1
      BY <2>1, <2>2, LoadGains
  <2>4. ~VacantDraft(w)'
      BY <1>c DEF VacantDraft, Dead
  <2>5. Cardinality(Load) <= faults
      BY <1>c, <2>0 DEF LoadIsBounded
  <2>6. LoadIsBounded'
      BY <1>0, <1>b, <1>c, <2>0, <2>3, <2>4, <2>5
  <2>7. LinksKnown'
      BY <1>c, <1>k, <1>l, <2>0, <2>1
  <2> QED BY <1>c, <1>i, <2>6, <2>7
<1>4. CASE Inserts(w)
  <2> DEFINE d == [NoRow EXCEPT !.status = "creating", !.order = created + 1]
  <2>1. work'[w] = [AtRest EXCEPT !.step = "provider", !.drafted = TRUE, !.draft = d] /\ d.link = NoInvoice
      BY <1>e, <1>4 DEF Inserts, Goes, NoRow
  <2> HIDE DEF d
  <2>2. work'[w].step = "provider" /\ work'[w].drafted /\ work'[w].draft = d
      BY <1>r, <2>1
  <2>3. Vacant /\ UNCHANGED <<row, known, created, invoices, faults>>
      BY <1>4 DEF Inserts, Vacant, providerVars
  <2> QED BY <1>c, <1>4, <2>1, <2>2, <2>3 DEF Inserts
<1>5. CASE ClaimsInvoice(w)
  <2>0. work[w].step = "guarded" /\ UNCHANGED <<row, known, created, invoices, faults>>
      BY <1>5 DEF ClaimsInvoice, providerVars
  <2>1. CASE ~Claimable(row)
    <3>1. work'[w] = AtRest
        BY <1>e, <1>5, <2>1 DEF ClaimsInvoice, Goes
    <3> QED BY <1>0, <1>r, <2>0, <3>1, NothingInHand
  <2>2. CASE Claimable(row)
    <3> DEFINE d == Claimed(row)
    <3>1. work'[w] = [AtRest EXCEPT !.step = "provider", !.drafted = TRUE, !.draft = d, !.asked = row.asked]
        BY <1>e, <1>5, <2>2 DEF ClaimsInvoice, Goes
    <3>2. d.link = NoInvoice
        BY <1>0 DEF Claimed, Rows
    <3> HIDE DEF d
    <3>3. work'[w].step = "provider" /\ work'[w].drafted /\ work'[w].draft = d
        BY <1>r, <3>1
    <3>4. Vacant
        BY <2>2 DEF Claimable, ClaimsAbandoned, Vacant, Dead
    <3> QED BY <1>c, <2>0, <3>2, <3>3, <3>4
  <2> QED BY <2>1, <2>2
<1>6. CASE ReadsLink(w)
  <2>0. /\ work[w].step = "guarded" /\ Guarded(w) /\ ~work[w].drafted /\ row.link # NoInvoice
        /\ UNCHANGED <<row, known, created, invoices, faults>>
        /\ work'[w] = [AtRest EXCEPT !.step = "mail", !.link = row.link, !.asked = row.asked]
      BY <1>0, <1>e, <1>6 DEF ReadsLink, Goes, providerVars, Guarded, LocksHold, DraftsAreCopies
  <2>1. work'[w].step = "mail" /\ ~work'[w].drafted /\ work'[w].link = row.link
      BY <1>r, <2>0
  <2>2. Hand = {} /\ Hand' = {row.link} /\ Claiming = {} /\ Claiming' = {} /\ Asking' = Asking
      BY <1>v, <2>0, <2>1 DEF HandOf, ClaimOf, HandSteps
  <2>3. Out' = Out
      BY <1>l, <2>0, <2>2 DEF Out
  <2>4. Load' = Load
      BY <2>2, <2>3 DEF Load
  <2>5. (Vacant' <=> Vacant) /\ ~VacantDraft(w)' /\ RowFree
      BY <1>i, <1>v, <2>0, <2>1, <2>2 DEF Vacant, VacantDraft
  <2>6. LoadIsBounded'
      BY <1>0, <1>b, <2>0, <2>4, <2>5 DEF LoadIsBounded
  <2>7. LinksKnown'
      BY <1>k, <1>l, <2>0, <2>1, <2>2
  <2> QED BY <1>i, <2>0, <2>6, <2>7
<1>8. CASE Invoices(w)
  <2>0. /\ work[w].step = "provider" /\ Guarded(w) /\ work[w].drafted
        /\ UNCHANGED <<row, known, faults>>
        /\ work'[w] = [work[w] EXCEPT !.step = "store", !.link = created']
      BY <1>0, <1>e, <1>d, <1>8 DEF Invoices, Goes, Guarded, DraftSteps
  <2>1. /\ work'[w].step = "store" /\ work'[w].drafted /\ work'[w].link = created'
        /\ work'[w].draft = work[w].draft
      BY <1>0, <2>0 DEF WorkRecords
  <2>2. /\ created' = created + 1 /\ created' \in 1..MaxInvoices /\ created' \notin known \cup Hand
        /\ \A j \in 1..MaxInvoices : j # created' => invoices'[j] = invoices[j]
        /\ invoices'[created'].state = "open"
        /\ \A j \in 0..MaxInvoices : j # created' => (Dead(j)' <=> Dead(j))
      BY <1>8, NewInvoice DEF Invoices
  <2>3. Hand = {} /\ Hand' = {created'} /\ Claiming = {w} /\ Claiming' = {} /\ Asking' = Asking
      BY <1>v, <2>0, <2>1 DEF HandOf, ClaimOf, HandSteps
  <2>4. Out' \subseteq Out \cup {created'}
      BY <2>0, <2>2, <2>3, LinkTyped DEF Out
  <2>5. Cardinality(Load') \in Nat /\ Cardinality(Load') <= Cardinality(Load)
    <3> DEFINE i == created'
    <3>1. Out' \subseteq Out \cup {i}
        BY <2>4
    <3> HIDE DEF i
    <3> QED BY <2>3, <3>1, LoadSwaps
  <2>6. ~VacantDraft(w)'
      BY <2>1, <2>2, ConstantsAssumption DEF VacantDraft, Dead, Lapsed, NoInvoice
  <2>7. LoadIsBounded'
      BY <1>0, <1>b, <2>0, <2>1, <2>5, <2>6 DEF LoadIsBounded
  <2>8. work[w].draft.link = NoInvoice
      BY <1>l, <2>0
  <2>9. known' \cup Hand' \subseteq 1..created'
      BY <1>l, <2>0, <2>2, <2>3, LinkTyped
  <2>10. LinksKnown'
      BY <1>k, <1>l, <2>0, <2>1, <2>2, <2>8, <2>9
  <2>11. ClaimsAbandoned'
    <3>1. \A j \in 0..MaxInvoices : Dead(j) => Dead(j)' \/ j \notin 0..created
        BY <2>2, LinkTyped
    <3> QED BY <1>0, <3>1, WorkersAbandon
  <2> QED BY <2>7, <2>10, <2>11
\* The worker is done; what it had in hand is given out or forgotten.
<1>f. ASSUME Guarded(w), work'[w] = AtRest, UNCHANGED <<created, invoices>>,
             known \subseteq known', known' \subseteq known \cup Hand,
             row'.link # NoInvoice => row'.link \in known',
             \/ faults' = faults + 1
             \/ work[w].step = "provider"
             \/ faults' = faults /\ (Vacant' => VacantDraft(w) \/ (RowFree /\ Vacant))
      PROVE  InvoicesCounted'
  <2>1. Hand' = {} /\ Claiming' = {} /\ Asking' = Asking /\ ~work'[w].drafted
      BY <1>f, <1>r, <1>v DEF HandOf, ClaimOf, HandSteps
  <2>2. Out' \subseteq Out
      BY <1>f, <2>1 DEF Out
  <2>3. Cardinality(Load') \in Nat /\ Cardinality(Load') <= Cardinality(Load)
      BY <2>1, <2>2, LoadShrinks
  <2>4. work[w].step = "provider" => Cardinality(Load') + 1 <= Cardinality(Load)
    <3>1. work[w].step = "provider" => w \in Claiming
        BY DEF Claiming
    <3> QED BY <2>1, <2>2, <3>1, LoadLoses
  <2>5. faults' \in {faults, faults + 1} /\ ~VacantDraft(w)'
      BY <1>0, <2>1 DEF WorkerEffect, VacantDraft
  <2>6. LoadIsBounded'
      BY <1>0, <1>b, <1>f, <2>3, <2>4, <2>5 DEF LoadIsBounded
  <2>7. LinksKnown'
      BY <1>f, <1>k, <1>l, <2>1
  <2> QED BY <1>f, <1>i, <2>6, <2>7
<1>9. CASE InvoiceRefused(w)
  <2>1. work'[w] = AtRest /\ UNCHANGED <<row, known, created, invoices>> /\ work[w].step = "provider"
      BY <1>e, <1>9 DEF InvoiceRefused, RollsBack, Ends, Goes, providerVars
  <2> QED BY <1>f, <1>l, <2>1 DEF Guarded
\* The worker moves on with the link it has in hand.
<1>h. ASSUME Guarded(w), work[w].step \in HandSteps, work'[w].step \in HandSteps,
             work'[w].link = work[w].link, UNCHANGED <<row, created, invoices, faults>>,
             known \subseteq known', known' \subseteq known \cup Hand, work'[w].drafted,
             work'[w].draft.link # NoInvoice =>
                 /\ work'[w].draft.link \in known' \cup {work'[w].link}
                 /\ work'[w].step \in {"mail", "send", "remind", "commit"},
             VacantDraft(w)' => VacantDraft(w) \/ (RowFree /\ Vacant)
      PROVE  InvoicesCounted'
  <2>1. Hand' = {work[w].link} /\ Hand = {work[w].link} /\ Claiming' = Claiming /\ Asking' = Asking
      BY <1>h, <1>v DEF HandOf, ClaimOf, HandSteps
  <2>2. Out' = Out
      BY <1>h, <2>1 DEF Out
  <2>3. Load' = Load
      BY <2>1, <2>2 DEF Load
  <2>6. LoadIsBounded'
      BY <1>0, <1>b, <1>h, <2>3 DEF LoadIsBounded
  <2>7. LinksKnown'
      BY <1>h, <1>k, <1>l, <2>1
  <2> QED BY <1>h, <1>i, <2>6, <2>7
<1>10. CASE Stores(w)
  <2> DEFINE d == Issued(work[w].draft, work[w].link)
  <2>0. /\ work[w].step = "store" /\ Guarded(w) /\ work[w].drafted
        /\ UNCHANGED <<row, known, created, invoices, faults>>
        /\ work'[w] = [work[w] EXCEPT !.step = "mail", !.draft = d]
      BY <1>0, <1>e, <1>d, <1>10 DEF Stores, Goes, Guarded, DraftSteps, providerVars
  <2>1. d.link = work[w].link
      BY <1>0 DEF Rows, Issued
  <2> HIDE DEF d
  <2>2. work'[w].step = "mail" /\ work'[w].draft = d /\ work'[w].drafted /\ work'[w].link = work[w].link
      BY <1>0, <2>0 DEF WorkRecords
  <2>3. VacantDraft(w)' => VacantDraft(w)
      BY <1>i, <2>0, <2>1, <2>2 DEF VacantDraft
  <2> QED BY <1>h, <2>0, <2>1, <2>2, <2>3 DEF HandSteps
<1>11. CASE ClaimsMail(w)
  <2> DEFINE a == [Seen(w) EXCEPT !.asked = TRUE]
             b == [Seen(w) EXCEPT !.reminded = TRUE]
  <2>0. /\ work[w].step = "mail" /\ Guarded(w)
        /\ UNCHANGED <<row, known, created, invoices, faults>>
        /\ Seen(w) \in Rows /\ Seen(w).status = "pending"
      BY <1>0, <1>11 DEF ClaimsMail, Guarded, providerVars, Seen, Asks, RemindsNow
  <2>1. a.link = Seen(w).link /\ b.link = Seen(w).link
      BY <2>0 DEF Rows
  <2>2. \/ work'[w] = [work[w] EXCEPT !.step = "send", !.drafted = TRUE, !.draft = a]
        \/ work'[w] = [work[w] EXCEPT !.step = "remind", !.drafted = TRUE, !.draft = b]
      BY <1>e, <1>11 DEF ClaimsMail, Goes
  <2> HIDE DEF a, b
  <2>3. /\ work'[w].step \in {"send", "remind"} /\ work'[w].drafted /\ work'[w].link = work[w].link
        /\ work'[w].draft.link = Seen(w).link
      BY <1>0, <2>1, <2>2 DEF WorkRecords
  <2>4. Seen(w).link # NoInvoice => Seen(w).link \in known \cup {work[w].link}
      BY <1>l DEF Seen
  <2>5. VacantDraft(w)' => Dead(Seen(w).link)
    <3>1. VacantDraft(w)' => Dead(work'[w].draft.link)
        BY <2>0, <2>3 DEF VacantDraft, Dead, Lapsed
    <3> QED BY <2>3, <3>1
  <2>6. VacantDraft(w)' => VacantDraft(w) \/ (RowFree /\ Vacant)
      BY <1>v, <2>0, <2>5 DEF Seen, VacantDraft, Vacant
  <2> QED BY <1>h, <2>0, <2>3, <2>4, <2>6 DEF HandSteps
<1>12. CASE SkipsMail(w)
  <2>0. /\ work[w].step = "mail" /\ Guarded(w) /\ work'[w] = AtRest /\ row' = Seen(w)
        /\ UNCHANGED <<created, invoices, faults>>
        /\ known' = known \cup ({Seen(w).link} \ {NoInvoice})
      BY <1>e, <1>12 DEF SkipsMail, Ends, Goes, Guarded, providerVars
  <2>1. Seen(w).link # NoInvoice => Seen(w).link \in known \cup Hand
      BY <1>l, <2>0 DEF Seen, HandSteps
  <2>2. known \subseteq known' /\ known' \subseteq known \cup Hand /\ (row'.link # NoInvoice => row'.link \in known')
      BY <2>0, <2>1
  <2>3. CASE work[w].drafted
    <3>1. row' = work[w].draft /\ row'.status = "pending"
        BY <2>0, <2>3 DEF Seen, LocksHold, DraftsAreCopies, DraftStatus
    <3>2. Vacant' => VacantDraft(w)
        BY <1>i, <2>0, <2>3, <3>1 DEF Vacant, VacantDraft
    <3> QED BY <1>f, <2>0, <2>2, <3>2
  <2>4. CASE ~work[w].drafted
    <3>1. row' = row /\ RowFree /\ (Vacant' => Vacant)
        BY <1>i, <1>v, <2>0, <2>4 DEF Seen, Vacant
    <3> QED BY <1>f, <2>0, <2>2, <3>1
  <2> QED BY <2>3, <2>4
<1>13. CASE Sends(w)
  <2>0. /\ work[w].step \in {"send", "remind"} /\ Guarded(w) /\ work[w].drafted
        /\ UNCHANGED <<row, created, invoices, faults>> /\ known' = known \cup {work[w].link}
        /\ work'[w] = [work[w] EXCEPT !.step = "commit"]
      BY <1>e, <1>d, <1>13 DEF Sends, Mails, Goes, Guarded, DraftSteps, providerVars
  <2>1. work'[w].step = "commit" /\ work'[w].draft = work[w].draft /\ work'[w].drafted /\ work'[w].link = work[w].link
      BY <1>0, <2>0 DEF WorkRecords
  <2>2. VacantDraft(w)' => VacantDraft(w)
      BY <1>i, <2>0, <2>1 DEF VacantDraft
  <2>3. work[w].link \in Hand
      BY <1>l, <2>0 DEF HandSteps
  <2> QED BY <1>h, <1>l, <2>0, <2>1, <2>2, <2>3 DEF HandSteps
<1>14. CASE SendFails(w)
  <2>0. /\ work[w].step \in {"send", "remind"} /\ Guarded(w) /\ work'[w] = AtRest
        /\ UNCHANGED <<row, created, invoices>> /\ faults' = faults + 1
        /\ known' \in {known, known \cup {work[w].link}}
      BY <1>e, <1>14 DEF SendFails, Mails, RollsBack, Ends, Goes, Guarded, Fault, providerVars
  <2>1. work[w].link \in Hand
      BY <1>l, <2>0 DEF HandSteps
  <2> QED BY <1>f, <1>l, <2>0, <2>1
<1>15. CASE Commits(w)
  <2>0. /\ work[w].step = "commit" /\ Guarded(w) /\ work'[w] = AtRest /\ row' = work[w].draft
        /\ UNCHANGED <<created, invoices, faults>> /\ work[w].drafted
        /\ known' = known \cup ({work[w].draft.link} \ {NoInvoice})
      BY <1>e, <1>d, <1>15 DEF Commits, Ends, Goes, Guarded, DraftSteps, providerVars
  <2>1. work[w].draft.link # NoInvoice => work[w].draft.link \in known \cup Hand
      BY <1>l, <2>0 DEF HandSteps
  <2>2. row'.status = "pending"
      BY <2>0 DEF LocksHold, DraftsAreCopies, DraftStatus
  <2>3. Vacant' => VacantDraft(w)
      BY <1>i, <2>0, <2>2 DEF Vacant, VacantDraft
  <2> QED BY <1>f, <2>0, <2>1, <2>3
<1>16. CASE WorkerDies(w)
  <2>0. /\ work[w].step # "idle" /\ work'[w] = AtRest
        /\ UNCHANGED <<row, known, created, invoices>> /\ faults' = faults + 1
      BY <1>e, <1>16 DEF WorkerDies, RollsBack, Ends, Goes, Fault, providerVars
  <2>1. CASE Guarded(w)
      BY <1>f, <1>l, <2>0, <2>1
  <2>2. CASE ~Guarded(w)
      BY <1>0, <1>r, <2>0, <2>2, NothingInHand DEF Guarded
  <2> QED BY <2>1, <2>2
<1> HIDE DEF InvoicesCounted
<1> QED BY <1>1, <1>2, <1>3, <1>4, <1>5, <1>6, <1>7, <1>8, <1>9, <1>10, <1>11, <1>12, <1>13,
           <1>14, <1>15, <1>16 DEF WorkerNext, Renew

-----------------------------------------------------------------------------
(* Theorems *)

IInv ==
    /\ TypeOK
    /\ LinksAtHand
    /\ LocksHold
    /\ AnnouncementsCounted
    /\ OutcomesCounted
    /\ PostsCounted
    /\ InvoicesCounted

LEMMA InitInvoices == Init => InvoicesCounted
<1> SUFFICES ASSUME Init PROVE InvoicesCounted
    OBVIOUS
<1>0. TypeOK
    BY InitTyped
<1>1. \A w \in Workers : work[w].step = "idle" /\ ~work[w].drafted
    BY RestTyped DEF Init
<1>2. Hand = {} /\ Claiming = {} /\ Asking = {} /\ Out = {}
    BY <1>1 DEF Init, Hand, Claiming, Asking, Out
<1>3. Load = {}
    BY <1>2 DEF Load
<1>4. Cardinality(Load) = 0
    BY <1>3, FS_EmptySet
<1>5. LoadIsBounded
    BY <1>1, <1>4 DEF Init, LoadIsBounded, VacantDraft
<1>6. row.link = NoInvoice /\ row.status \in {"none", "pending"}
    BY DEF Init, NoRow
<1>7. LinksKnown
    BY <1>1, <1>2, <1>6 DEF Init, LinksKnown, NoInvoice
<1>8. ClaimsAbandoned
    BY <1>6 DEF ClaimsAbandoned
<1> QED BY <1>5, <1>7, <1>8 DEF InvoicesCounted

LEMMA InitCounts == Init => AnnouncementsCounted /\ OutcomesCounted /\ PostsCounted
<1> SUFFICES ASSUME Init PROVE AnnouncementsCounted /\ OutcomesCounted /\ PostsCounted
    OBVIOUS
<1>1. \A w \in Workers : work[w].step = "idle" /\ ~work[w].drafted
    BY RestTyped DEF Init
<1>2. ~row.asked /\ row.told = {} /\ ~row.sent
    BY DEF Init, NoRow
<1>3. AnnouncementsCounted
    BY <1>1, <1>2 DEF Init, AnnouncementsCounted, Announced
<1>4. OutcomesCounted
    BY <1>2 DEF Init, OutcomesCounted, Holds, Silent
<1>5. PostsCounted
    BY <1>2 DEF Init, PostsCounted, PostsAreCurrent, SentMeansMailed
<1> QED BY <1>3, <1>4, <1>5

LEMMA InvoicesKept ==
    ASSUME TypeOK, LinksAtHand, LocksHold, LocksHold', InvoicesCounted, [Next]_vars
    PROVE  InvoicesCounted'
<1>1. CASE UNCHANGED vars
  <2>1. UNCHANGED <<work, known, created, reissue, row, invoices, faults>>
      BY <1>1 DEF vars, providerVars
  <2>2. Vacant' => Vacant
      BY <2>1 DEF Vacant, Dead, Lapsed, Asking
  <2>3. ClaimsAbandoned'
      BY <2>1 DEF InvoicesCounted, ClaimsAbandoned, Dead, Lapsed, Asking
  <2>4. faults' \in {faults, faults + 1}
      BY <2>1
  <2> QED BY <2>1, <2>2, <2>3, <2>4, Uncounted
<1> QED BY <1>1, WorkersInvoice, RequestsInvoice, HooksInvoice, DispatchersInvoice, RowsInvoice DEF Next

\* The inductive invariant holds in every reachable state.
THEOREM Invariance == Spec => []IInv
<1>1. Init => IInv
    BY InitTyped, InitLocks, InitCounts, InitInvoices DEF IInv
<1>2. IInv /\ [Next]_vars => IInv'
  <2> SUFFICES ASSUME IInv, [Next]_vars PROVE IInv'
      OBVIOUS
  <2>1. TypeOK' /\ LinksAtHand' /\ LocksHold'
      BY TypesKept, LocksKept DEF IInv
  <2>2. AnnouncementsCounted' /\ OutcomesCounted' /\ PostsCounted'
      BY AnnouncementsKept, OutcomesKept, PostsKept DEF IInv
  <2>3. InvoicesCounted'
      BY <2>1, InvoicesKept DEF IInv
  <2> QED BY <2>1, <2>2, <2>3 DEF IInv
<1> QED BY <1>1, <1>2, PTL DEF Spec

\* Types: a row whose invoice is being created has no link, a worker that sends
\* a link has one.
THEOREM TypeCorrect == Spec => []TypeOK
<1>1. IInv => TypeOK
    BY DEF IInv
<1> QED BY <1>1, Invariance, PTL

\* GuardSubscription and the row lock: a worker does not invoice or announce the
\* renewal of a cancelled subscription, nor of a settled or withdrawn payment.
THEOREM HoldsOff == Spec => []RenewalHoldsOff
<1>1. IInv => RenewalHoldsOff
  <2> SUFFICES ASSUME IInv, NEW w \in Workers, work[w].step \in DraftSteps
               PROVE  sub # "cancelled" /\ row.status \notin {"paid", "cancelled", "refunded"}
      BY DEF RenewalHoldsOff
  <2>1. work[w].drafted /\ Guarded(w)
      BY DEF IInv, TypeOK, Guarded, DraftSteps
  <2> QED BY <2>1 DEF IInv, LocksHold, DraftsAreCopies
<1> QED BY <1>1, Invariance, PTL

\* ClaimPaymentLinkEmail inside the worker's transaction: a renewal is announced
\* once, and once more for each fault.
THEOREM Announcing == Spec => []AnnouncedOnce
<1>1. IInv => AnnouncedOnce
  <2> SUFFICES ASSUME IInv PROVE asks <= 1 + faults
      BY DEF AnnouncedOnce
  <2>1. asks <= Budget /\ asks \in Nat /\ faults \in Nat
      BY DEF IInv, TypeOK, AnnouncementsCounted, Budget
  <2> QED BY <2>1, BudgetIs
<1> QED BY <1>1, Invariance, PTL

\* ClaimOutcomeEmail and its release: an outcome is told once, and once more for
\* each fault, however often the provider repeats its callback.
THEOREM Telling == Spec => []OutcomeToldOnce
<1>1. IInv => OutcomeToldOnce
  <2> SUFFICES ASSUME IInv, NEW s \in Outcomes PROVE tellings[s] <= 1 + faults
      BY DEF OutcomeToldOnce
  <2>1. tellings[s] <= OutcomeBudget(s) /\ tellings[s] \in Nat /\ faults \in Nat
      BY OutcomesAre DEF IInv, TypeOK
  <2> QED BY <2>1, OutcomeBudgetIs
<1> QED BY <1>1, Invariance, PTL

\* FinishPrivatePaymentEmail matches the claim: an invoice recorded as mailed was
\* mailed with the link it has.
THEOREM Mailing == Spec => []SentMeansMailed
<1>1. IInv => SentMeansMailed
    BY DEF IInv, PostsCounted
<1> QED BY <1>1, Invariance, PTL

\* ClaimInvoice and ClaimReinvoice: of the links given to the parent no more than
\* one can be paid or has been, and one more for each fault.
THEOREM OnePayable == Spec => []OnePayableInvoice
<1>1. IInv => OnePayableInvoice
  <2> SUFFICES ASSUME IInv
               PROVE  Cardinality({i \in known : invoices[i].state \in {"open", "paid"}}) <= 1 + faults
      BY DEF OnePayableInvoice
  <2> DEFINE P == {i \in known : invoices[i].state \in {"open", "paid"}}
  <2>0. TypeOK /\ LinksKnown /\ Cardinality(Load) <= 1 + faults /\ faults \in Nat
      BY DEF IInv, InvoicesCounted, LoadIsBounded, TypeOK
  <2>1. IsFiniteSet(Load) /\ Cardinality(Load) \in Nat
      BY <2>0, LoadFinite
  <2>2. {"out"} \X P \subseteq Load
      BY DEF Load, Out
  <2>3. IsFiniteSet({"out"} \X P) /\ Cardinality({"out"} \X P) <= Cardinality(Load)
      BY <2>1, <2>2, FS_Subset
  <2>4. IsFiniteSet(P)
    <3>1. IsFiniteSet(1..MaxInvoices)
        BY ConstantsAssumption, FS_Interval
    <3>2. P \subseteq 1..MaxInvoices
        BY <2>0, RowTyped
    <3> QED BY <3>1, <3>2, FS_Subset
  <2>5. IsFiniteSet({"out"}) /\ Cardinality({"out"}) = 1
      BY FS_Singleton
  <2> HIDE DEF P
  <2>6. Cardinality({"out"} \X P) = 1 * Cardinality(P)
      BY <2>4, <2>5, FS_Product
  <2>7. Cardinality(P) \in Nat
      BY <2>4, FS_CardinalityType
  <2>8. Cardinality(P) <= 1 + faults
      BY <2>0, <2>1, <2>3, <2>6, <2>7
  <2> QED BY <2>8 DEF P
<1> QED BY <1>1, Invariance, PTL

=============================================================================
