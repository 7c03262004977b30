# Verification of kelolakelas-billing-service

TLA+ models of the billing service (Go, PostgreSQL, GORM), their TLC runs, and
TLAPS proofs. Paths below are relative to the repository; `usecase/`,
`repository/` and `domain/` stand for `internal/usecase/` and so on.

## 1. The system

The service bills course enrollments. A parent asks for a payment link; the
provider (Duitku) creates an invoice and later calls back; a paid transaction
activates a subscription, credits the tenant's wallet and owes the Academic
service an activation; unpaid transactions expire or are cancelled and owe it a
release of the seat. Paid transactions may be refunded. Subscriptions are renewed,
suspended and resumed; their links, and the outcome of each payment, are mailed. Checkouts
may redeem vouchers; a platform fee is taken from what is paid. Tenants withdraw their balance to
a bank account, and read, export and refund what is theirs through the HTTP interface.

Several replicas may run: HTTP handlers and four periodic workers share nothing
but the database. The code therefore relies on conditional updates, row locks,
unique indexes, claims with a timeout, and job rows that are retried.

| Component | State | Operations | Hard behaviours |
|---|---|---|---|
| Initial payment (`usecase/transaction_usecase.go`, `repository/transaction_repository.go`) | the transactions row: status, link, reference, expiry, claim | GenerateSubscriptionPayment (two claims, one provider call, up to five statements), CancelEnrollmentPayment, ExpireDue | claims that outlive their timeout, a re-issue racing a payment, a cancellation, an expiry or a crash |
| Webhook settlement (`usecase/transaction_usecase.go:932`) | the same row, its subscription, the wallet, the job row | success, failure, replay | duplicates, late callbacks for replaced invoices, several rows written together |
| Reconciliation workers (`usecase/reconciliation_worker.go`, `repository/payment_reconciliation_repository.go`) | one payment_reconciliations row per transaction | ClaimDue, MarkActive, MarkRetry, RequeueTerminalFailed, conversion, withdrawal | leases that expire under a live worker, conversions under a call in flight, late requests |
| Refunds (`repository/refund_repository.go`, `pkg/academic/refund.go`) | the transactions, subscriptions and refund job rows | RecordRefund, ProcessRefund | a refund racing an activation; three calls to Academic that may each fail |
| Suspension and resumption (`repository/subscription_lifecycle_repository.go`) | subscriptions.status, next_billing_date, one desired action per subscription | SuspendOverdue, ResumePaid, ClaimLifecycle, FinishLifecycle | a payment overtaking a sweep, a suspend overtaken by a resume, a claim recognised by its timestamp |
| Renewal invoicing (`usecase/subscription_worker.go`) | a transactions row per period, the subscription's lock | ListDueForRenewal, GuardSubscription, processInvoice, reminders | a provider call and a mail inside a database transaction; two replicas, and a request of the parent for the same period |
| Wallet and withdrawals (`usecase/withdrawal_usecase.go`, `usecase/platform_withdrawal.go`) | wallet balances, ledger, withdrawals | credit, RequestWithdrawal, CancelWithdrawal, Decide | lost updates, two requests or two decisions at once, retries |
| Bank accounts (`usecase/bank_account_usecase.go`) | accounts, the primary flag | Create, Update, Delete, SetPrimary | a destination changed or deleted under a request, lock order |
| Vouchers (`usecase/voucher_usecase.go`, `repository/voucher_reservation.go`, the accounting trigger of `migrations/`) | code, terms, current_uses; the use each transaction holds | reserve, create, rename, edit, delete; every status change gives back or takes a use | concurrent checkouts and edits at the quota, whole-row saves, codes that differ by case |
| Platform fee and discount (`domain/platform_fee.go`, `domain/voucher_redemption.go`) | none; a snapshot on the row | Fee, ComputePlatformFee, ComputeVoucherDiscount | overflow and rounding |
| Emails (`usecase/private_payment_email.go`, `usecase/transaction_usecase.go:809`) | claim columns of the transactions row | claim, send, finish or release | a crash between claim and send, a lost answer, a send that outlives its claim |
| HTTP routes and guards (`cmd/server/routes.go`, `delivery/http/`) | none of their own | role, factor and scope checks of every route | a token that outlives the rights it was issued with |
| Listing, export, summary (`repository/transaction_repository.go:73`) | none; an export reads batches | List, IterateExport, SummarizePaid | a table that changes between two batches |
| Timeouts (`config/config.go`) | the settings in force | defaults, the check against the write timeout | sums that exceed a duration |
| Server process, database, request ids, migrations, tools, documentation | none the parts share | | I/O |

What makes each correct: a payment is recorded once, only if real, and never
reopened; a link that can still be paid is not replaced; a seat is activated or
given back as the payment says; no enrollment of a refunded payment is activated;
a subscription is suspended only while it is overdue; balances match the ledger
and nothing is held or paid out twice; a voucher is used no more often than it may be and its
counter is exact; a period has one invoice the parent can pay and a mail is not repeated; nobody is
shown what is not theirs. The hazards behind these are listed in
`PROJECT.json` at the line where each bites.

Components meet in the database. The transactions row is written by requests,
callbacks, the expiry worker and refunds; each of these also writes the job row
(`ReconciliationRow`) which the workers consume, and its trigger moves a voucher's counter. A
callback moves the subscription and the wallet in its transaction, which is why `RenewalPaid` of
`SubscriptionLifecycle`, `Credits` of `Withdrawals`, `PaidCallback` of `InvoiceIssuing`, `Pays` of
`Vouchers`, `Succeeds` of `InvoiceMail` and `Commits` of `TenantApi` are views of the same
handler, each of the rows its component owns.

## 2. Modules

| Module | What it is |
|---|---|
| `ReconciliationRow` | what the statements EnsureActivation, EnqueueRelease, CancelPendingRelease and the refund's deletion do to a job row |
| `PaymentOutcome` | abstract specification: a payment is open, withdrawn, settled once, refunded |
| `InvoiceIssuing` | one payment under concurrent requests, callbacks, cancellation, expiry, refund; implements `PaymentOutcome` |
| `Reconciliation` | the workers over one job row, Academic, the refund job |
| `SubscriptionLifecycle` | suspension, resumption and end of one subscription |
| `Withdrawals` | the wallet, ledger, withdrawals and bank accounts of one tenant; implements `TenantBalance` |
| `TenantBalance` | abstract specification: payments are added once, one amount at a time is set aside and paid out or given back |
| `Vouchers` | the vouchers of a tenant, the checkouts that redeem them and the accounting of their uses; implements `UsageQuota` |
| `UsageQuota` | abstract specification: enrollments take and give back the uses of each voucher under its cap |
| `Pricing` | discount, platform fee and stored amounts as operators, with the width of the integers |
| `InvoiceMail` | one row whose link is mailed, a renewal's or a private lesson's: workers, requests, dispatchers, outcome mails |
| `TenantApi` | the routes, their guards, lists, exports and summaries over the rows of several tenants |
| `RequestTimeouts` | the timeouts read at startup and the check that refuses some; extended by `TenantApi` |
| `MC...` | symmetry sets and constant values for TLC |
| `...Proofs` | theorems about the module of the same name |

Definitions under a comment that begins with "Mutant:" are plausible bugs, one for
each property a run checks; the specifications never use them.

### InvoiceIssuing

State: the columns of one transactions row that decide control, the
subscription it opens, the count of its payment_received entries, its job row;
for each call its next statement (`pc`) and its local variables; what the provider
knows. One action is one database statement or provider call, named for the
statement (`Claim`, `Reinvoice`, `MarkIssued`, `WithdrawRelease`, ...); handlers
that run in one transaction under the row lock are one action.

- Ordinary enrollments insert their row in prepareVoucherCheckout (`Begin`),
  private ones (`Private`) after fetching the subscription (`Create`).
- The initial payment only; renewals use the same two claims and are in `InvoiceMail`.
- Amounts always match and the sandbox branch, which credits nothing, is left out.
- The parent can pay only an invoice whose link was stored at some time.
- `JobStep` stands for the workers and is the weakest thing they do: they claim the
  row and write a status. `Reconciliation` has them in full.
- `Timely`: a call answers before its claim times out. The provider client has
  an HTTP timeout of seconds; the claim times out after 10 minutes
  (`domain/transaction.go:85`). Where it is TRUE, `Tick` does not pass a call that is
  about to outlive its claim. Where it is FALSE calls may stall.
- `FailureCallbacks`: a failure callback is not compared with the reference of the
  row (`usecase/transaction_usecase.go:1103`), so one for a replaced invoice fails a row that
  another call is issuing for, and lets a third claim it. Exclusivity of the claim
  is therefore shown without them, everything else with them.
- The lookup of the subscription and its creation are one step; the
  conflict of two creations is resolved by re-reading in the code.
- A crash needs `ClaimTimeout` ticks left, so that every abandoned claim can go stale
  before the clock's bound.

### Reconciliation

State: one job row (`ReconciliationRow`) with its attempts and claim time, the
transaction's status as far as the job depends on it, each worker's claimed row
and next step, the refund job, the seat at Academic and the requests still under
way to it (`wire`).

- `creating` and `failed` count as `expired`: the job row is the same in all three. A payment is
  `ended` once the refund of a renewal has cancelled its subscription, which the guard of an activation sees.
- A re-issue of an expired row asks the provider, stores its link or finds that it may not, and then
  withdraws a pending release either way (`reissuing`). Re-issues of a row nobody withdrew touch no job and
  are in `InvoiceIssuing` only.
- Due times are abstracted: a pending row may be claimed at any time. Attempts
  saturate at the limit, which is all the code compares them with.
- Rows are numbered, since a deleted row and its successor differ by id and the
  workers write by id.
- The lease is 5 minutes and an Academic call times out after 10 seconds, which
  justifies `Timely` in the runs that assume it: an attempt is recorded within its lease
  and leaves no request travelling.
- GuardActivation and RecordRefund exclude each other by the subscription and transaction locks
  (`Unlocked`). The guard counts as done for a refunded payment or a cancelled subscription, and may fail.
- Academic is external: `Accepts` and `Effect` follow the answers the client treats
  as success or conflict. The suspended state of a seat is left to
  `SubscriptionLifecycle`.

### SubscriptionLifecycle

State: the subscription's status and billing period, the periods that are paid or
past their days of grace, SuspendOverdue calls in flight, the row with the desired
action, two workers, the enrollment.

- Periods are numbered; grace ends nondeterministically, in order.
- `claimedAt` is last_attempt_at in the precision of the column. A worker keeps
  the instant it read, which is a tick and a part of it (`Parts`): 0 if its clock is
  as coarse as the column. No two claims of the row fall in one tick, a microsecond.
- next_attempt_at is abstracted, attempts saturate at the limit, a renewal is a flag (`invoiced`).
- `timely` is chosen in the initial state and never changes: attempts end within the
  lease and leave nothing on the wire.

### Withdrawals

State: the wallet row, the sum of the ledger, recorded payments, withdrawals with
the number of their ledger entries, accounts and the primary flag, and what each
call in flight has read (`call`).

- A call is split where its transaction waits for a lock or has read what it later
  relies on; its writes appear with its last step, when it commits. A call that
  changes nothing takes no step: refusals, and retries answered from the stored row.
- Locks are not variables: who holds what follows from the step a call is at.
- Withdrawals are named by their idempotency key, unique within a tenant. The
  unique indexes on tenant_id of wallets and on the primary flag are modelled by the
  failure of the transaction that meets them.
- Left out: the uniqueness of the transfer reference, the minimum amount, and the
  guards against balances near 2^63; none changes what a step that succeeds does.
- `Balance` is the mapping to `TenantBalance`: recorded payments are what it received, `pending_balance` is what it
  holds, and a withdrawal is a claim without its account. What a call has read is not part of it: a call that has
  not committed has done nothing.

### Vouchers

State: the vouchers, one transactions row per enrollment with its status, its voucher, whether it
holds a use and the amounts stored, what each call in flight has read, a clock for the validity of
vouchers.

- A checkout takes the enrollment's advisory lock and reads (`CheckoutBegins`), reserves
  under the voucher's row lock and commits; a creation or rename takes the tenant's lock on codes
  before it looks for another spelling. A use is counted by the reservation; whatever changes the
  status of the row afterwards (`Claims`, `Fails`, `Expires`, `Cancels`, `Pays`, `Refunds`) does what
  the trigger of migration 20261006000000 does (`Becomes`).
- A use that a late payment takes back is marked (`late`): the trigger asks nobody then, so the
  cap is promised for the others.
- Codes are two spellings of one code; `Upper` is NormalizeVoucherCode. The unique index compares
  exactly, which is why the lock matters.
- The check constraint of migration 20260928000000 repeats the arithmetic of the fee and is left out.
- `Pricing` computes in integers of a width of `MaxInt`, wrapping where Go does, in
  hundredths where the column is numeric(15,2).

### InvoiceMail

State: the row as committed, the subscription's status, each renewal worker's step and its draft (the
row as its own transaction sees it), requests, outcome mails and dispatchers by step, the
invoices at the provider, the links the parent has, the mails delivered, and a count of faults.

- A worker is inside GuardSubscription from `Guards` to the end of its transaction; once it has
  written the row nobody else writes it (`RowFree`). `RollsBack` forgets the draft, not the
  invoice or the mail.
- A crash, a lost answer, a failure callback about a replaced invoice and a dispatcher
  overtaken by its claim's timeout are faults, counted up to `MaxFaults`; the properties say what holds
  without one and what each may cost.
- A row whose link was announced before stays announced when it is invoiced again: it gets the reminder, with the
  new link, in the same run of the worker.
- Calls answer before their invoice claim grows old; `InvoiceIssuing` has those that do not. An
  invoice lapses at the provider and by its expires_at at once.
- The private mail's idempotency key names the invoice, so that a repeated mail is
  delivered once; `delivered` is therefore a set, `asks` and `tellings` are counts.

### TenantApi and RequestTimeouts

State: status and dates of each transaction, the roles and factors as identity knows them, each request
with what it claims, asks, has read and has waited for, and what its caller could have seen meanwhile
(`watch`).

- Routes on one kind of resource under one permission are one. What they do to their rows is left to the
  component that keeps the row: here they touch a resource of a tenant.
- A token may carry any role its member ever had; identity is asked with it.
- An export reads batches by offset, each a query of its own, while callbacks, refunds and
  new transactions go on. Ids are numbers since the order breaks ties by id.
- Callbacks and payment requests (`ServiceCalls`) come without a token. A payment request may wait for the fee
  policy of identity, then for Duitku's invoice, then for the mail of a private class; what it does to its rows is
  in `InvoiceIssuing`, `Vouchers` and `InvoiceMail`. The other internal routes (the preview of a voucher,
  cancellation, the read of a private invoice, listing and re-drive of jobs) wait for no service.
- Waits count at their limit. `Second` and `MaxDuration` are small, in proportion. Waits of a request add up in
  `waited`; the ticks of the clock that dates rows are not related to them.

## 3. Runs

| Run | Configuration | Shows |
|---|---|---|
| `races` | `InvoiceIssuing_races` | two calls that may stall and die, all callbacks, cancellation, expiry, refunds and workers: a payment is recorded only if real, credited once, owed to Academic, never refused while its link is the row's, and the row implements `PaymentOutcome` |
| `timely` | `InvoiceIssuing_timely` | timely calls, no failure callbacks: the claim is exclusive, live links are kept, expired payments keep their release, and `creating` is always left again |
| `work_races` | `Reconciliation_races` | stalled workers, crashes, late requests: refunds exclude activations and free the seat |
| `work_live` | `Reconciliation_live` | within leases, two workers never release for one row; what is paid is decided, refunds take effect |
| `work_stale` | `Reconciliation_stale` | violation: a release's success is recorded on the activation that replaced it |
| `lifecycle` | `SubscriptionLifecycle_races` | sweeps, payments, refunds and two workers: suspended only while overdue, the desired action follows, no call once refunded, no stale attempt settles the row |
| `lifecycle_precision` | `SubscriptionLifecycle_precision` | violation: a clock finer than the column loses every outcome |
| `withdrawals` | `Withdrawals_races` | two calls of any kind: balances match the ledger, nothing is held or paid twice, destinations are kept, nobody waits for ever, and the whole implements `TenantBalance` |
| `vouchers` | `Vouchers_races` | checkouts, edits, renames, deletions and every status change: the counter is the number of uses held, codes stay distinct in any case, amounts add up in the width of the integers, a checkout is charged by the terms in force, and the whole implements `UsageQuota` |
| `renewals` | `InvoiceMail_renewals` | two workers, two dispatchers, a request, callbacks, expiry, refunds and a fault: one payable link per period and one announcement, and one more of each for a fault; nothing settled or cancelled is invoiced; a mail recorded as sent was sent with the present link; what is due is invoiced and mailed in the end |
| `renewal_twice` | `InvoiceMail_renewal_twice` | violation: a lost answer of the mail provider leaves two links of one period that can be paid |
| `reads` | `TenantApi_reads` | roles, factors and rows change under requests: callers get what they own and are entitled to, an export misses no row that stayed and agrees with the summary, no answer to a caller or a callback is cut off by the server, and a payment request outlasts the write timeout by less than a permission timeout |

A run checks what only TLC shows and the properties that matter most. Type invariants, and some properties
which are proved for every instance, are left to the proofs: `CreatingHasNoLink`, `SubscriptionFollowsPayment`,
`LinkStoredOnWaitingRow`, `TerminalOnlyAfterLimit`, `OvertakenCompletesNothing`, `PaysOutToPrimary`,
`QuotaHolds`, `HeldVoucherNotDeleted`; and `AtMostOneOpen` and `WalletMakesNoMoney`, which follow
from `TenantBalance`, implemented here.

Bounds. Two calls or workers suffice for every hazard listed, which are between
two actors; a third takes over what the first two left. Clocks run to the point
where a claim taken in the first ticks has gone stale and been taken over. Two
invoices (three where a replacement is replaced) make a superseded one. Three
billing periods allow two payments. In `withdrawals` a payment of 3 and requests of 2 make one
payment too little for two requests. In `vouchers` one voucher may be used once and another twice by two
enrollments, a price is below and one above what a nominal discount takes, and the larger one
overflows the fee. In `renewals` one fault and two invoices: a period invoiced again, and one invoice
replaced. In `reads` a batch is one row, so that each row begins a new query; one set of timeouts passes
the startup check narrowly, and one is so large that its sum saturates and the server refuses to start with it. In the
first a second is 4 units: the callback waits up to 20 and the permission check up to 19, the write timeout is 24, and a
payment request waits up to 35, its bound being 43. `PaymentsApart` leaves out the states in which a payment
request and a caller's request are in flight together: a payment request reads and writes no row here, so
its waits are the same without them. Symmetry is used only where no liveness
is checked.

Deadlock is checked for `InvoiceIssuing`, whose replayed callbacks and calls never
stop; the other runs switch it off because a refunded or emptied system has
nothing left to do.

Fairness. `InvoiceIssuing`: time passes and calls that have begun go on; parents
keep asking, which is what takes an abandoned claim over. `Reconciliation`: workers
are tickers and loops, and a call that may fail does not fail for ever, as the attempt
limit needs only that attempts end. `InvoiceMail`: workers, dispatchers and requests are loops and handlers
that go on, claims grow old, and the providers answer in the end, if they are asked again and again (the strong
fairness of `Invoices` and `Posts`); nobody is obliged to ask for an invoice, to pay or to cancel, and
faults are bounded. `Withdrawals`: strong fairness of the steps
that wait for locks, since PostgreSQL grants row locks in the order of the requests;
nothing is assumed of calls beginning.

## 4. Findings

Each has a run whose counterexample shows it.

1. `repository/payment_reconciliation_repository.go:167` records an outcome by the id of
   the row alone, whatever its kind has become (`work_stale`).
2. `repository/subscription_lifecycle_repository.go:137` compares an instant in nanoseconds
   with the column's microseconds (`lifecycle_precision`).
3. `usecase/subscription_worker.go:182` calls the provider and mails the link inside the database
   transaction that holds the row: an error afterwards forgets both, the next run invoices the period again under
   another merchant order, and the parent has two links (`renewal_twice`).

Observations made while modelling, which no run is devoted to:

- `usecase/transaction_usecase.go:358` withdraws a pending release whether or not the link was stored,
  and so also the one a cancellation enqueued meanwhile. A call that dies between storing the link of a re-issue
  and this statement (`:377`) leaves the release pending: the seat is given back under a link that can be paid.
- `repository/payment_reconciliation_repository.go:110` withdraws only a pending release; one in flight that
  fails comes back after the re-issue. A release converted to an activation (`:57`) keeps its attempt count.
- `repository/subscription_lifecycle_repository.go:62` rewrites a job that a worker is about to call for; with
  two workers the older call may be the last to arrive, while the newer is recorded as done.
- `usecase/transaction_usecase.go:992` refuses the confirmed payment of a link that a re-issue replaced, though
  `domain/transaction.go:19-21` and `_docs/duitku/integration.md:14` promise to honour payments made in time.
- `repository/transaction_repository.go:247` frees any creating row without a link, also one another call has
  claimed since, if the call is late.
- `usecase/subscription_worker.go:86` lists active subscriptions only: one suspended before it has a row
  for the period is not invoiced again unless the parent asks.
- `usecase/transaction_usecase.go:1065`: two first payments of a tenant both insert a wallet; one transaction
  fails on the unique index and waits for the provider's next callback.
- `usecase/transaction_usecase.go:838`: a process that dies after an outcome mail's claim leaves it unsent for good;
  that claim has no timeout.
- A request that replaces a lapsed invoice between a worker's read of the row and its mail
  makes the worker mail the replaced link (`usecase/subscription_worker.go:259`).
- A discount of the whole price makes the amount 0, which the fee refuses, although
  `domain/voucher_redemption.go:80-82` calls what is left always positive.
- `usecase/voucher_usecase.go:212`: a voucher whose uses were all given back can be deleted; a late payment
  then takes a use of a deleted voucher. A voucher that late payments carried over its cap refuses every edit that
  does not raise the cap.
- `repository/transaction_repository.go:127-165` exports by offset over a live table: a row that ceases to match
  moves the later ones up and one of them is missed; one that begins to match may repeat another.
- The startup check "requires the write timeout to exceed the longest outbound wait a request may have"
  (`config/config.go:240-241`), and LongestRequestOutboundTimeout "returns the longest time one request can wait on
  outbound calls" (`:273-274`). It counts the callback and one permission check (`:280-282`), not the payment request of
  `cmd/server/routes.go:109`, which waits for identity's fee policy (`pkg/identity/fee_policy_client.go:46`), for Duitku and,
  for a private class, for the mail. With a permission timeout of 25 s, Duitku and Resend at 10 s and a write timeout of
  31 s the process starts, and such a request may wait 35 s, or 45 s with the mail: its answer is cut off although the
  invoice exists. `CountedAnswersInTime` is therefore about the requests the function counts, and says of the payment
  request only that the overrun is less than the permission timeout. Without that allowance TLC refutes it in
  three steps: the request arrives, the fees are answered at the last moment, and so is the invoice.
- `config/config.go:282` multiplies the permission timeout without saturation. A long export may
  exceed the write timeout.

## 5. Proofs

TLAPS checks the theorems for every value of the constants, under the assumptions the modules
name (`ConstantsAssumption` in most) and nothing else unless a theorem names more. TLC was used first on each
inductive invariant. Every proof has the same outline: the initial states have
the invariant, each action keeps it (one step per action), the property follows, and a
temporal step joins them.

**`InvoiceIssuingProofs`**: types (`TypeCorrect`), then `IInv`, from which follow
`ActivationOwed`, `SingleCredit`, `RealPayment`, `SubscriptionMatches`, `NoLinkWhileCreating` and
`CurrentLinkAccepted`, and that the payment implements `PaymentOutcome` (`Refinement`). The properties
are not inductive alone: a callback settles whatever invoice the row expects, so `IInv` adds
that an unsettled row expects the invoice of its link and of no other (`IntentFollowsLink`), which is also
why a payment of the row's own link is never refused; and a refund ends whatever
subscription is linked, so that only a linked one moves (`OnlyLinkedSubscriptionMoves`). The
statements on the job row enter through the lemmas of `ReconciliationRowProofs`.

Its last part proves exclusive creation, the kept release and the kept link, under
`ClaimPremises`: timely calls, no failure callbacks, invoices payable at least as long as a
claim. `ClaimInv` says that a call that holds the claim is younger than the
timeout (`CallsAreTimely`) and owns the row, unless it was settled (`HolderOwnsRow`); a
second claim would need the row stale, and the first call too old.

**`ReconciliationProofs`**: `ActivationsExcludeRefunds` by `ActivationInv`: activation work exists only
for a payment that was made (`ActivationsArePaid`), and the lock keeps its refund away from a call
in flight.
`RefundFreesSeat`: the refund job is done only after the seat was freed, and a late
request finds a seat it cannot take back. `LimitIsRespected` by `LimitInv`: a verdict a worker still
carries was justified by the attempts of the row it claimed, and rows are numbered.
`ReleasesAreExclusive`, where attempts end within the lease (`Timely`), by `ReleaseInv`: the lease of a
claimed row runs while its worker is at work (`LeasesRun`), a release in progress is the work of the worker
whose claim the row carries (`ReleaseIsTheHolders`), and an activation never becomes a release again, so that
recording the outcome of one does not touch somebody's release (`ActivationStaysOne`).

**`SubscriptionLifecycleProofs`**: the properties of the run, by `IInv`: a sweep is under way only
for a lapsed period (`SweepsLapsed`), and claims are made at times of their own, the row's
being the last (`ClaimsApart`), so that the claim the row carries has one owner. `OutcomesAreRecorded`
proves what `lifecycle_precision` refutes, from the assumption that clocks are as coarse as the
column: precision is the whole difference.

**`WithdrawalsProofs`**: `IInv` has two halves. `MoneyInv`: one call holds the
wallet and has read it as it is (`WalletLock`), so that what a request checked still holds when it
is stored (`CheckedRequest`). `AccountInv`: one call holds each account
(`AccountLock`), each new one is inserted once (`InsertedOnce`), the flag an edit will write is
still the account's (`FlagIsCurrent`) and an account being deleted is nobody's destination
(`DeletedUnused`). `FlagIsCurrent` is what needs the lock order: a call that takes the flag from an
account waits for whoever edits it. `BalanceRefined`: each last step of a call that is not a refusal is one operation of
`TenantBalance`, because the row the call read when it took the lock is the row it writes, and the payment it has in hand
is nobody else's and not recorded (`PaymentLock`); every other step is a stutter. `NoMoneyMade` is then shown of the
operations of `TenantBalance` instead of the steps of the calls: what is available and held is at most the net amount of the
payments recorded.

**`VouchersProofs`**: `IInv` says which calls exclude each other (`Locks`), that what a call has read
under its locks still holds when it writes (`Reads`), and that a transaction's voucher exists
(`Referenced`); the counter, quota, codes and amounts follow step by step. What a step does to the uses
is one of four effects (`Same`, `Gain`, `Lose`, `Revise`), each shown once to keep the counter exact
(`CounterExact`); the same case split shows that every step is one of
`UsageQuota` or a stutter (`QuotaRefined`). No overflow is assumed away: `AmountsAddUp` rests on the check
`FeeDefined` makes.

**`InvoiceMailProofs`**: the locks first (`LocksHold`): one worker is inside GuardSubscription, and while it has a
draft the draft is the row but for what the worker itself has claimed (`DraftsAreCopies`), so that its
commit loses nobody's write. Each kind of mail then has an account: what was sent is recorded on the row or on
a draft, or still carried by a step, or a fault paid for it (`AnnouncementsCounted`, `OutcomesCounted`, `PostsCounted`).
`OnePayable` counts, in `Load`, the links the parent has or a call has in hand that can be paid or have been, and the
claims that may yet create one: a claim is taken only of a row with nothing payable, so the count grows
above one only with a fault (`LoadIsBounded`).

**`TenantApiProofs`**, from `ApiAssumption` and `TimeoutsAssumption`. `RoutesTaken` says which kind of caller is at
which step of which route; with the types it carries the rest. `AlwaysEntitled` adds that nothing is sent before a
batch is read or an answer given (`NothingSent`) and that identity consented to whatever was admitted
(`Entitlements`). `CountedInTime`: `AcceptedHasRoom` shows that the startup check, which adds with saturation,
accepts a configuration only if the true sum leaves room for the waits it counts, and `WaitsAddUp` bounds what a call
has waited at each step of its route; a payment request, which is not counted, adds the fee policy's wait to a chain
shorter than the callback's, and so keeps within the write timeout and a permission timeout together. The exports rest on a lemma about orders: the place of a row in a batch query is the number of matching
rows ahead of it (`PlaceInOrder`). `NoStayingRowLost` holds because a row that stays and was not sent has at
least as many rows ahead of it as the offset (`StaysAhead`): insertions only add to them, and a short batch
leaves none. `ExportIsTheSummary` holds because, while the same rows match, each was sent at its place
(`InPlace`).

Only model-checked: the liveness properties (`CreatingIsLeft`, `OwedIsResolved`, `RefundCompletes`, `CallsEnd`,
`PrivateMailed`, `DueIsInvoiced`), which need ENABLED. Every other property of a passing run is a
theorem. No induction over data is needed: the modules have no recursive definition.

## 6. Not modelled

- The server process, connections and request ids keep no state the components share. Migrations and command line
  tools are run by hand; the unique indexes, checks and triggers they create are part of the models that rely on them.
- API documentation is generated.
- Parsing, status codes, signatures, digests, encodings, the layout of exports and mails are data no property is
  about. The internal routes between services are calls of the components they reach; only the payment request, which
  waits for other services, is a route of `TenantApi`, and the credential that guards them is left out.
- Listing of reconciliation jobs is a query; the answers of Academic, Duitku, Resend and identity are external.
- The sandbox branch of checkout and the seed data are for development.

## 7. Plan

Done, in this order: the job row, the payment and its abstract outcome, the workers and
refunds, the lifecycle, the wallet, vouchers with their quota and prices, renewals and mails, the HTTP
interface with exports and timeouts. What is left:

1. `InvoiceMail` composed with `InvoiceIssuing`, so that calls may outlive their claims in renewals too; and
   with `SubscriptionLifecycle`, for the subscription suspended before it was invoiced.
2. The internal credential and the other internal routes in `TenantApi`.
