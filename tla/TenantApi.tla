----------------------------- MODULE TenantApi -----------------------------
(***************************************************************************)
(* The HTTP interface over the rows of several tenants: who may call it,   *)
(* what each route reads or writes, and how long a request may take.  A    *)
(* token says who a caller was when it was issued; identity is asked about *)
(* every request and knows what has changed since.  Exports read a table   *)
(* in batches while callbacks and refunds change it.  Callbacks of Duitku  *)
(* and payment requests of Academic come without a token and wait for      *)
(* other services longer than any caller does.                             *)
(*                                                                         *)
(* What the routes of other components do to their rows is left to those   *)
(* components: here such a request only touches a resource of a tenant,    *)
(* and a payment request none.  A request that is refused, or answered     *)
(* without a token, before it asks anybody takes no step.  Ids are         *)
(* numbers, because the id decides between rows of the same instant.       *)
(***************************************************************************)
EXTENDS RequestTimeouts, Sequences, FiniteSets

CONSTANTS
    Requests,     \* requests of callers in flight at a time
    ServiceCalls, \* callbacks and payment requests in flight at a time
    Members, Parents, Admins, \* callers, by the kind of their token; other parents
                              \* never call
    Home,         \* tenant of each member
    Grants,       \* permissions of each role, at identity
    Transactions, \* ids the transactions table may get
    Resources,    \* wallets, withdrawals, bank accounts and vouchers
    Kind,         \* of each resource
    Owner,        \* tenant of each transaction and resource
    Payer,        \* parent of each transaction
    Served,       \* routes that are called
    Filters,      \* what an export or a summary asks for
    Environments, \* settings the process may be started with
    BatchSize,    \* transactionExportBatchSize
    PageSize,     \* page_size
    Day,          \* clock ticks of a day
    MaxTime,      \* bound on the clock
    MaxFactor,    \* bound on the factor versions of an admin
    None

Permissions ==
    {"billing:read", "billing:refund", "billing:withdraw",
     "voucher:create", "voucher:read", "voucher:update", "voucher:delete"}

\* The routes of registerRoutes and the permission each is guarded by.  Routes
\* on one kind of resource with one permission are one: wallet is the balance and
\* the ledger, withdrawal and account all routes on those, readVoucher two.
Permission ==
    [list |-> "billing:read", get |-> "billing:read", summary |-> "billing:read",
     export |-> "billing:read", refund |-> "billing:refund", wallet |-> "billing:read",
     withdrawal |-> "billing:withdraw", account |-> "billing:withdraw",
     createVoucher |-> "voucher:create", readVoucher |-> "voucher:read",
     updateVoucher |-> "voucher:update", deleteVoucher |-> "voucher:delete"]

\* Routes a parent may take, over the parent's own transactions.
ParentRoutes == {"list", "get"}

VoucherRoutes == {"createVoucher", "readVoucher", "updateVoucher", "deleteVoucher"}

Routes == DOMAIN Permission \cup {"platform", "webhook", "payment"}

Roles == DOMAIN Grants

ASSUME ApiAssumption ==
    /\ Requests \cap ServiceCalls = {}
    /\ Members \cap Parents = {} /\ (Members \cup Parents) \cap Admins = {}
    /\ Home \in [Members -> {Owner[x] : x \in Transactions \cup Resources}]
    /\ \A r \in Roles : Grants[r] \subseteq Permissions
    /\ Transactions \subseteq Nat
    /\ IsFiniteSet(Transactions)
    /\ Kind \in [Resources -> {"wallet", "withdrawal", "account", "voucher"}]
    /\ Transactions \subseteq DOMAIN Payer
    /\ Served \subseteq Routes
    /\ Filters \subseteq [status : {"pending", "paid", "refunded"},
                          by : {"created", "paid"}, from : Nat, to : Nat]
    /\ Environments \subseteq Settings
    /\ \E e \in Environments : Accepted(LoadConfig(e))
    /\ {BatchSize, PageSize, Day} \subseteq Nat \ {0}
    /\ MaxTime \in Nat /\ MaxFactor \in Nat \ {0}

VARIABLES
    row,     \* status, created_at and paid_at of each transaction
    role,    \* current role of each member at identity
    factor,  \* current factor version of each admin, negative once revoked
    request, \* what each request in flight is doing
    watch,   \* what its caller could have observed meanwhile
    config,  \* the settings in force
    clock

vars == <<row, role, factor, request, watch, config, clock>>

Never == -1

NoTransaction == [status |-> "none", created |-> Never, paid |-> Never]

\* The service each step waits for.  A payment request asks identity for the fees,
\* Duitku for an invoice, and mails the link of a private class.
Service ==
    [identity |-> "identity", fees |-> "identity",
     duitku |-> "duitku", invoice |-> "duitku",
     resend |-> "resend", mail |-> "resend",
     academic |-> "academic"]

Waiting == DOMAIN Service

Steps == Waiting \cup {"idle", "admitted", "batches", "commit", "done", "refused"}

Idle == [step |-> "idle", route |-> None, caller |-> None, claim |-> None,
         filter |-> None, offset |-> 0, sent |-> <<>>, about |-> None, at |-> 0, waited |-> 0]

Unwatched == [entitled |-> FALSE, stayed |-> {}, left |-> FALSE, entered |-> FALSE]

Callers == Members \cup Parents \cup Admins

Claims == Roles \cup 1..MaxFactor \cup {None}

RequestRecords ==
    [step : Steps, route : Routes \cup {None}, caller : Callers \cup {None}, claim : Claims,
     filter : Filters \cup {None}, offset : Nat, sent : Seq(Transactions \cup Resources),
     about : Transactions \cup {None}, at : 0..MaxTime, waited : Nat]

\* Type correctness; an export that reads batches has a filter, a callback that is
\* being settled a transaction, and no setting is zero once the process has started.
TypeOK ==
    /\ row \in [Transactions -> [status : {"none", "pending", "paid", "refunded"},
                                 created : {Never} \cup 0..MaxTime,
                                 paid : {Never} \cup 0..MaxTime]]
    /\ role \in [Members -> Roles]
    /\ factor \in [Admins -> -MaxFactor..MaxFactor]
    /\ request \in [Requests \cup ServiceCalls -> RequestRecords]
    /\ \A q \in Requests \cup ServiceCalls :
        /\ request[q].step = "batches" => request[q].filter \in Filters
        /\ request[q].step \in {"duitku", "commit"} => request[q].about \in Transactions
    /\ watch \in [Requests -> [entitled : BOOLEAN, stayed : SUBSET Transactions,
                               left : BOOLEAN, entered : BOOLEAN]]
    /\ config \in [duitku : Nat \ {0}, resend : Nat \ {0},
                   permission : Nat \ {0}, write : Nat \ {0}]
    /\ Accepted(config)
    /\ clock \in 0..MaxTime

Init ==
    /\ row = [x \in Transactions |-> NoTransaction]
    /\ role \in [Members -> Roles]
    /\ factor = [a \in Admins |-> 1]
    /\ request = [q \in Requests \cup ServiceCalls |-> Idle]
    /\ watch = [q \in Requests |-> Unwatched]
    /\ config \in {c \in {LoadConfig(e) : e \in Environments} : Accepted(c)}
    /\ clock = 0

-----------------------------------------------------------------------------
(* Identity *)

\* A member is given another role; one that grants nothing stands for a removal.
Reassigns(u, r) ==
    /\ role' = [role EXCEPT ![u] = r]
    /\ UNCHANGED <<row, factor, request, config, clock>>

\* The assignment of an admin ends, or its second factor is replaced.
Refactors(a) ==
    /\ factor[a] > 0
    /\ \E v \in {-factor[a], factor[a] + 1} :
        /\ v <= MaxFactor
        /\ factor' = [factor EXCEPT ![a] = v]
    /\ UNCHANGED <<row, role, request, config, clock>>

\* RequireActivePlatform: the assignment is live and the factor is the one of the
\* token.
CheckActive(u, version) == factor[u] = version

\* Mutant: the role in the token is all that identity is asked about.
CheckRole(u, claim, permission) == permission \in Grants[claim]

\* The question names the membership too, so that a token of a role its member no
\* longer has is denied.
CheckPermission(u, claim, permission) == role[u] = claim /\ permission \in Grants[claim]

Allows(r) ==
    IF r.caller \in Admins THEN CheckActive(r.caller, r.claim)
                           ELSE CheckPermission(r.caller, r.claim, Permission[r.route])

-----------------------------------------------------------------------------
(* A request and the services it waits for *)

Update(q, r) == request' = [request EXCEPT ![q] = r]

Enters(q, u, route, claim, step) ==
    Update(q, [Idle EXCEPT !.step = step, !.route = route, !.caller = u, !.claim = claim])

\* RequirePermissionUnlessParent lets a parent through without asking identity.
ParentArrives(q, u, route) ==
    /\ request[q].step = "idle" /\ route \in ParentRoutes
    /\ Enters(q, u, route, None, "admitted")
    /\ UNCHANGED <<row, role, factor, config, clock>>

\* A token may be of any role its member ever had.
MemberArrives(q, u, route) ==
    /\ request[q].step = "idle" /\ route \in DOMAIN Permission
    /\ \E r \in Roles : Enters(q, u, route, r, "identity")
    /\ UNCHANGED <<row, role, factor, config, clock>>

\* It may name any version the factor of its admin ever had.
AdminArrives(q, u) ==
    /\ request[q].step = "idle" /\ "platform" \in Served
    /\ \E v \in 1..MaxFactor :
        /\ v <= factor[u] \/ v <= -factor[u]
        /\ Enters(q, u, "platform", v, "identity")
    /\ UNCHANGED <<row, role, factor, config, clock>>

\* A success callback for a pending payment.
CallbackArrives(q, x) ==
    /\ request[q].step = "idle"
    /\ row[x].status = "pending"
    /\ Update(q, [Idle EXCEPT !.step = "duitku", !.route = "webhook", !.about = x])
    /\ UNCHANGED <<row, role, factor, config, clock>>

\* A payment request of a new enrollment begins with the fees and one for another
\* invoice with Duitku; one whose link is still good may have to mail it.
PaymentArrives(q, step) ==
    /\ request[q].step = "idle" /\ step \in {"fees", "invoice", "mail"}
    /\ Update(q, [Idle EXCEPT !.step = step, !.route = "payment"])
    /\ UNCHANGED <<row, role, factor, config, clock>>

\* The steps an answer may lead to, and the one after no answer.  A payment request
\* that was overtaken ends with the link of another, or without one.
AfterAnswer(r) ==
    CASE r.step = "identity" -> {IF Allows(r) THEN "admitted" ELSE "refused"}
      [] r.step = "duitku"   -> {"commit"}
      [] r.step = "resend"   -> {"academic"}
      [] r.step = "fees"     -> {"invoice", "done", "refused"}
      [] r.step = "invoice"  -> {"mail", "done", "refused"}
      [] r.step \in {"academic", "mail"} -> {"done"}

AfterNoAnswer(r) ==
    CASE r.step = "resend" -> "academic"
      [] r.step = "mail"   -> "done"
      [] OTHER             -> "refused"

\* A request that ends with an error keeps its route and the time it took.
Proceeds(q, r, step, waited) ==
    Update(q, IF step = "refused"
              THEN [Idle EXCEPT !.step = step, !.route = r.route, !.waited = waited]
              ELSE [r EXCEPT !.step = step, !.waited = waited])

\* What the client of the service gives up after.
Patience(r) == Timeout(config, Service[r.step])

\* The answer comes at the last moment: no wait is longer.
Answers(q) ==
    /\ request[q].step \in Waiting
    /\ LET r == request[q] IN \E step \in AfterAnswer(r) :
        Proceeds(q, [r EXCEPT !.at = IF r.step = "duitku" THEN clock ELSE 0],
                 step, r.waited + Patience(r))
    /\ UNCHANGED <<row, role, factor, config, clock>>

TimesOut(q) ==
    /\ request[q].step \in Waiting
    /\ LET r == request[q] IN
        Proceeds(q, r, AfterNoAnswer(r), r.waited + Patience(r))
    /\ UNCHANGED <<row, role, factor, config, clock>>

\* The payment, with the time its transaction had read, is committed.
Commits(q) ==
    /\ request[q].step = "commit"
    /\ LET x == request[q].about IN
        row' = IF row[x].status = "pending"
               THEN [row EXCEPT ![x].status = "paid", ![x].paid = request[q].at] ELSE row
    /\ Update(q, [request[q] EXCEPT !.step = "resend", !.about = None, !.at = 0])
    /\ UNCHANGED <<role, factor, config, clock>>

-----------------------------------------------------------------------------
(* What an admitted request does *)

Exists(x) == row[x].status # "none"

\* The tenant of the token, or the parent it names.
Scoped(r, x) ==
    IF r.caller \in Parents THEN Payer[x] = r.caller ELSE Owner[x] = Home[r.caller]

Answered(q, s) == Update(q, [request[q] EXCEPT !.step = "done", !.sent = s])

\* Sequences of all elements of S that respect the pairs of an order.
Orders(S, before) ==
    {s \in [1..Cardinality(S) -> S] :
        \A i, j \in DOMAIN s : i < j => s[i] # s[j] /\ <<s[j], s[i]>> \notin before}

Piece(s, first, size) ==
    SubSeq(s, first, IF first + size - 1 < Len(s) THEN first + size - 1 ELSE Len(s))

\* The first page, newest first.
Lists(q) ==
    /\ request[q].step = "admitted" /\ request[q].route = "list"
    /\ LET newer == {p \in Transactions \X Transactions : row[p[1]].created > row[p[2]].created}
       IN \E s \in Orders({x \in Transactions : Exists(x) /\ Scoped(request[q], x)}, newer) :
            Answered(q, Piece(s, 1, PageSize))
    /\ UNCHANGED <<row, role, factor, config, clock>>

\* The row is read by its id and compared with the scope.
Gets(q, x) ==
    /\ request[q].step = "admitted" /\ request[q].route = "get"
    /\ Answered(q, IF Exists(x) /\ Scoped(request[q], x) THEN <<x>> ELSE <<>>)
    /\ UNCHANGED <<row, role, factor, config, clock>>

\* Mutant: the range ends where its last day begins.
InRangeExclusive(t, f) == f.from * Day <= t /\ t < f.to * Day

\* Every instant of the first and the last day and of those between.
InRange(t, f) == f.from * Day <= t /\ t < (f.to + 1) * Day

\* SummarizePaid counts in one statement.
Counted(tenant, f) ==
    {x \in Transactions : Owner[x] = tenant /\ row[x].status = "paid"
                          /\ row[x].paid >= f.from * Day /\ row[x].paid < (f.to + 1) * Day}

Summarises(q, f) ==
    /\ request[q].step = "admitted" /\ request[q].route = "summary"
    /\ \E s \in Orders(Counted(Home[request[q].caller], f), {}) : Answered(q, s)
    /\ UNCHANGED <<row, role, factor, config, clock>>

\* RecordRefund: only a paid row of the tenant changes, a refunded one is
\* answered again.
Refunds(q, x) ==
    /\ request[q].step = "admitted" /\ request[q].route = "refund"
    /\ Scoped(request[q], x)
    /\ row[x].status \in {"paid", "refunded"}
    /\ row' = [row EXCEPT ![x].status = "refunded"]
    /\ Answered(q, <<x>>)
    /\ UNCHANGED <<role, factor, config, clock>>

\* A route on a resource: what it does to its row, or to a new one, is left to the
\* component that keeps it, and a list stands for each of its rows.
Handles(q, routes, x) ==
    /\ request[q].step = "admitted" /\ request[q].route \in routes
    /\ Answered(q, <<x>>)
    /\ UNCHANGED <<row, role, factor, config, clock>>

\* The tenant is the one of the token, never one the request names.
ServesWallet(q, x) ==
    Handles(q, {"wallet"}, x) /\ Kind[x] = "wallet" /\ Scoped(request[q], x)

ServesAccount(q, x) ==
    Handles(q, {"account"}, x) /\ Kind[x] = "account" /\ Scoped(request[q], x)

ServesWithdrawal(q, x) ==
    Handles(q, {"withdrawal"}, x) /\ Kind[x] = "withdrawal" /\ Scoped(request[q], x)

ServesVoucher(q, x) ==
    Handles(q, VoucherRoutes, x) /\ Kind[x] = "voucher" /\ Scoped(request[q], x)

\* The queue of every tenant, and the decision on one withdrawal of it.
DecidesWithdrawal(q, x) ==
    Handles(q, {"platform"}, x) /\ Kind[x] = "withdrawal"

\* The handler refuses the input or finds nothing, or the database fails.
Refuses(q) ==
    /\ request[q].step = "admitted"
    /\ Proceeds(q, request[q], "refused", request[q].waited)
    /\ UNCHANGED <<row, role, factor, config, clock>>

\* The answer has been written.
Ends(q) ==
    /\ request[q].step \in {"done", "refused"}
    /\ Update(q, Idle)
    /\ UNCHANGED <<row, role, factor, config, clock>>

-----------------------------------------------------------------------------
(* Exports *)

Instant(x, f) == IF f.by = "paid" THEN row[x].paid ELSE row[x].created

Matching(tenant, f) ==
    {x \in Transactions :
        Owner[x] = tenant /\ row[x].status = f.status /\ InRange(Instant(x, f), f)}

\* Mutant: rows of one instant come in any order.
PrecedesByTime(x, y, f) == Instant(x, f) < Instant(y, f)

\* exportOrderBy: chronological, then by id.
Precedes(x, y, f) ==
    \/ Instant(x, f) < Instant(y, f)
    \/ Instant(x, f) = Instant(y, f) /\ x < y

\* The header is written, and the first batch will be read.
ExportBegins(q, f) ==
    /\ request[q].step = "admitted" /\ request[q].route = "export"
    /\ Update(q, [request[q] EXCEPT !.step = "batches", !.filter = f])
    /\ UNCHANGED <<row, role, factor, config, clock>>

\* Each batch is a query of its own; a short one is the last.
ReadsBatch(q) ==
    /\ request[q].step = "batches"
    /\ LET f == request[q].filter
           before == {p \in Transactions \X Transactions : Precedes(p[1], p[2], f)}
       IN \E s \in Orders(Matching(Home[request[q].caller], f), before) :
            LET batch == Piece(s, request[q].offset + 1, BatchSize) IN
                Update(q, [request[q] EXCEPT
                             !.sent = @ \o batch,
                             !.offset = @ + BatchSize,
                             !.step = IF Len(batch) < BatchSize THEN "done" ELSE "batches"])
    /\ UNCHANGED <<row, role, factor, config, clock>>

\* A read fails or the client leaves: the answer ends early.
ExportBreaks(q) ==
    /\ request[q].step = "batches"
    /\ Proceeds(q, request[q], "refused", request[q].waited)
    /\ UNCHANGED <<row, role, factor, config, clock>>

-----------------------------------------------------------------------------
(* What happens meanwhile *)

\* A transaction is inserted, at the time its call had read.
Creates(x) ==
    /\ ~Exists(x)
    /\ \E t \in {clock - 1, clock} \cap Nat :
        row' = [row EXCEPT ![x] = [status |-> "pending", created |-> t, paid |-> Never]]
    /\ UNCHANGED <<role, factor, request, config, clock>>

Tick ==
    /\ clock < MaxTime
    /\ clock' = clock + 1
    /\ UNCHANGED <<row, role, factor, request, config>>

Exporting(r) == r.route = "export" /\ r.step \in {"batches", "done"}

Found(q) == IF Exporting(request[q]) THEN Matching(Home[request[q].caller], request[q].filter)
                                     ELSE {}

\* Parents own what they read; anybody else needs the consent of identity.
Entitled(q) ==
    \/ request[q].caller \in Parents
    \/ /\ request[q].caller \in Members
       /\ role[request[q].caller] = request[q].claim
       /\ Permission[request[q].route] \in Grants[request[q].claim]
    \/ /\ request[q].caller \in Admins
       /\ factor[request[q].caller] = request[q].claim

\* What a step adds to the history of each request.
Observes ==
    watch' = [q \in Requests |->
        IF request[q].step = "idle" \/ request'[q].step = "idle"
        THEN [Unwatched EXCEPT !.entitled = request'[q].step # "idle" /\ Entitled(q)']
        ELSE [entitled |-> watch[q].entitled \/ (request[q].step = "identity" /\ Entitled(q)'),
              stayed   |-> IF Exporting(request[q]) THEN watch[q].stayed \cap Found(q)'
                                                    ELSE Found(q)',
              left     |-> watch[q].left \/ ~(Found(q) \subseteq Found(q)'),
              entered  |-> watch[q].entered
                           \/ (Exporting(request[q]) /\ ~(Found(q)' \subseteq Found(q)))]]

Serves(q) ==
    \/ \E u \in Parents, route \in Served : ParentArrives(q, u, route)
    \/ \E u \in Members, route \in Served : MemberArrives(q, u, route)
    \/ \E u \in Admins : AdminArrives(q, u)
    \/ \E x \in Transactions : Gets(q, x) \/ Refunds(q, x)
    \/ \E x \in Resources :
        \/ ServesWallet(q, x) \/ ServesAccount(q, x) \/ ServesWithdrawal(q, x)
        \/ ServesVoucher(q, x) \/ DecidesWithdrawal(q, x)
    \/ \E f \in Filters : Summarises(q, f) \/ ExportBegins(q, f)
    \/ Lists(q) \/ Refuses(q) \/ ReadsBatch(q) \/ ExportBreaks(q)

Next ==
    /\ \/ \E q \in Requests : Serves(q)
       \/ \E q \in ServiceCalls, x \in Transactions : CallbackArrives(q, x)
       \/ \E q \in ServiceCalls : Commits(q) \/ \E step \in Waiting : PaymentArrives(q, step)
       \/ \E q \in Requests \cup ServiceCalls : Answers(q) \/ TimesOut(q) \/ Ends(q)
       \/ \E u \in Members, r \in Roles : Reassigns(u, r)
       \/ \E a \in Admins : Refactors(a)
       \/ \E x \in Transactions : Creates(x)
       \/ Tick
    /\ Observes

Spec == Init /\ [][Next]_vars

-----------------------------------------------------------------------------
(* Properties *)

Rows(s) == {s[i] : i \in DOMAIN s}

\* Members act for their tenant, parents see what they pay, admins see withdrawals.
Owns(u, x) ==
    \/ u \in Members /\ Owner[x] = Home[u]
    \/ u \in Parents /\ x \in Transactions /\ Payer[x] = u
    \/ u \in Admins /\ x \in Resources /\ Kind[x] = "withdrawal"

\* A token outlives the rights it was issued with, but a request is answered only
\* with what its caller owns, and not at all if its caller never had the right to
\* it while the request was in flight.
AnsweredAsEntitled ==
    \A q \in Requests : \A x \in Rows(request[q].sent) :
        watch[q].entitled /\ Owns(request[q].caller, x)

\* An export that ran to its end has every transaction that matched it all
\* along, whatever was created or paid meanwhile, unless one ceased to match.
StayingRowsExported ==
    \A q \in Requests :
        request[q].step = "done" /\ request[q].route = "export" /\ ~watch[q].left
            => watch[q].stayed \subseteq Rows(request[q].sent)

\* An export of paid transactions by payment date, of rows that nobody changed
\* meanwhile, lists once each what the sales summary of those days counts.
ExportMatchesSummary ==
    \A q \in Requests :
        LET r == request[q] IN
            /\ r.step = "done" /\ r.route = "export"
            /\ r.filter.status = "paid" /\ r.filter.by = "paid"
            /\ ~watch[q].left /\ ~watch[q].entered
            => /\ Rows(r.sent) = Counted(Home[r.caller], r.filter)
               /\ Len(r.sent) = Cardinality(Rows(r.sent))

\* In every configuration that starts, a caller's request or a callback that waits as
\* long as its clients allow still answers before the server's write timeout: these
\* are the requests LongestRequestOutboundTimeout counts.  It does not count the
\* payment request, which may outlast the write timeout, though by less than one
\* permission timeout.
CountedAnswersInTime ==
    \A q \in Requests \cup ServiceCalls :
        request[q].waited < config.write * Second
                            + IF request[q].route = "payment" THEN config.permission ELSE 0

=============================================================================
