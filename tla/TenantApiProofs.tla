-------------------------- MODULE TenantApiProofs --------------------------
(***************************************************************************)
(* Theorems about TenantApi, for any number of tenants, callers, requests, *)
(* callbacks and rows, any batch size and every accepted configuration.    *)
(***************************************************************************)
EXTENDS TenantApi, FiniteSetTheorems, FunctionTheorems, SequenceTheorems, TLAPS

-----------------------------------------------------------------------------
(* Timeouts *)

TimeoutSettings ==
    [duitku : Nat \ {0}, resend : Nat \ {0}, permission : Nat \ {0}, write : Nat \ {0}]

\* The process starts with every setting above zero.
LEMMA LoadedIsPositive ==
    ASSUME NEW e \in Settings
    PROVE  LoadConfig(e) \in TimeoutSettings
<1>1. ASSUME NEW v \in Int, NEW d \in Nat \ {0} PROVE Positive(v, d) \in Nat \ {0}
  BY <1>1 DEF Positive
<1>2. /\ e.duitku \in Int /\ e.resend \in Int /\ e.permission \in Int /\ e.write \in Int
      /\ DefaultProvider \in Nat \ {0} /\ DefaultPermission \in Nat \ {0}
      /\ DefaultWrite \in Nat \ {0}
  BY TimeoutsAssumption DEF Settings
<1>3. /\ Positive(e.duitku, DefaultProvider) \in Nat \ {0}
      /\ Positive(e.resend, DefaultProvider) \in Nat \ {0}
      /\ Positive(e.permission, DefaultPermission) \in Nat \ {0}
      /\ Positive(e.write, DefaultWrite) \in Nat \ {0}
  BY <1>1, <1>2
<1>4. QED
  BY <1>3 DEF LoadConfig, TimeoutSettings

\* Seconds up to the bound make a duration that does not overflow.
LEMMA SecondsFit ==
    ASSUME NEW n \in Nat, n <= MaxSeconds
    PROVE  n * Second \in Nat /\ n * Second <= MaxDuration
<1>1. Second \in Nat \ {0} /\ MaxDuration \in Nat
  BY TimeoutsAssumption
<1>2. n <= MaxDuration \div Second
  BY DEF MaxSeconds
<1>3. (MaxDuration \div Second) * Second <= MaxDuration
  BY <1>1
<1>4. (MaxDuration \div Second) \in Nat
  BY <1>1
<1>5. n * Second <= (MaxDuration \div Second) * Second
  BY <1>1, <1>2, <1>4
<1>6. QED
  BY <1>1, <1>3, <1>4, <1>5

\* A configuration that is accepted has room for the longest wait, computed without
\* saturation: a saturated sum would be the largest duration, which no write timeout
\* exceeds.
LEMMA AcceptedHasRoom ==
    ASSUME NEW c \in TimeoutSettings, Accepted(c)
    PROVE  /\ c.duitku * Second \in Nat /\ c.resend * Second \in Nat /\ c.write * Second \in Nat
           /\ c.permission < c.write * Second
           /\ c.duitku * Second + c.resend * Second + AcademicTimeout < c.write * Second
<1> DEFINE w == c.write * Second
           d == SecondsDuration(c.duitku)
           r == SecondsDuration(c.resend)
<1>1. /\ c.duitku \in Nat /\ c.resend \in Nat /\ c.permission \in Nat /\ c.write \in Nat
      /\ AcademicTimeout \in Nat /\ MaxDuration \in Nat
  BY TimeoutsAssumption DEF TimeoutSettings
<1>2. w \in Nat /\ w <= MaxDuration
  BY <1>1, SecondsFit DEF Accepted
<1>3. \A n \in Nat : SecondsDuration(n) \in Nat
                     /\ (SecondsDuration(n) < MaxDuration => n * Second = SecondsDuration(n))
  <2> TAKE n \in Nat
  <2>0. MaxSeconds \in Int
    BY TimeoutsAssumption DEF MaxSeconds
  <2>1. CASE n > MaxSeconds
    BY <1>1, <2>1 DEF SecondsDuration
  <2>2. CASE ~(n > MaxSeconds)
    <3>1. n * Second \in Nat
      BY <2>0, <2>2, SecondsFit
    <3>2. QED
      BY <2>2, <3>1 DEF SecondsDuration
  <2>3. QED
    BY <2>1, <2>2
<1>4. \A a, b \in Nat :
        SaturatingAdd(a, b) < w => a + b = SaturatingAdd(a, b) /\ b <= a + b /\ a <= a + b
  BY <1>1, <1>2 DEF SaturatingAdd
<1>5. d \in Nat /\ r \in Nat
  BY <1>1, <1>3
<1>6. c.permission < w /\ WebhookWait(c) < w
  <2>1. w > LongestWait(c)
    BY DEF Accepted
  <2>2. SaturatingAdd(d, r) \in Nat
    BY <1>1, <1>5 DEF SaturatingAdd
  <2>3. WebhookWait(c) \in Nat
    <3>1. SaturatingAdd(SaturatingAdd(d, r), AcademicTimeout) \in Nat
      BY <1>1, <2>2 DEF SaturatingAdd
    <3>2. QED
      BY <3>1 DEF WebhookWait
  <2>4. QED
    BY <1>1, <1>2, <2>1, <2>3 DEF LongestWait
<1>7. SaturatingAdd(d, r) + AcademicTimeout < w /\ SaturatingAdd(d, r) < w
  <2>1. SaturatingAdd(d, r) \in Nat
    BY <1>1, <1>5 DEF SaturatingAdd
  <2>2. SaturatingAdd(SaturatingAdd(d, r), AcademicTimeout) < w
    BY <1>6 DEF WebhookWait
  <2>3. QED
    BY <1>1, <1>2, <1>4, <2>1, <2>2
<1>8. d + r + AcademicTimeout < w /\ d < w /\ r < w
  BY <1>1, <1>2, <1>4, <1>5, <1>7
<1>9. c.duitku * Second = d /\ c.resend * Second = r
  BY <1>1, <1>2, <1>3, <1>5, <1>8
<1>10. QED
  BY <1>2, <1>5, <1>6, <1>8, <1>9

-----------------------------------------------------------------------------
(* Requests *)

Calls == Requests \cup ServiceCalls

\* The twelve guarded routes.
LEMMA GuardedRoutes ==
    DOMAIN Permission =
        {"list", "get", "summary", "export", "refund", "wallet", "withdrawal", "account"}
            \cup VoucherRoutes
  BY DEF Permission, VoucherRoutes

\* The steps at which a request waits.
LEMMA WaitingSteps ==
    Waiting = {"identity", "fees", "duitku", "invoice", "resend", "mail", "academic"}
  BY DEF Waiting, Service

\* A request that is updated becomes the record given; the others stay.
LEMMA Updated ==
    ASSUME request \in [Calls -> RequestRecords], NEW q \in Calls, NEW r, Update(q, r)
    PROVE  /\ request'[q] = r
           /\ \A p \in Calls : p # q => request'[p] = request[p]
           /\ r \in RequestRecords => request' \in [Calls -> RequestRecords]
  BY DEF Update

\* A request that ends is the idle one again.
LEMMA IdleRecord ==
    /\ Idle \in RequestRecords
    /\ Idle.step = "idle" /\ Idle.sent = <<>> /\ Idle.offset = 0 /\ Idle.waited = 0
<1>1. <<>> \in Seq(Transactions \cup Resources)
  BY EmptySeq
<1>2. 0 \in 0..MaxTime
  BY ApiAssumption
<1>3. QED
  BY <1>1, <1>2 DEF Idle, RequestRecords, Steps, Claims

\* What an arrival makes of a request.
LEMMA Entered ==
    ASSUME request \in [Calls -> RequestRecords], NEW q \in Calls,
           NEW u \in Callers, NEW route \in Routes, NEW claim \in Claims,
           NEW step \in {"identity", "admitted"},
           Enters(q, u, route, claim, step)
    PROVE  /\ request' \in [Calls -> RequestRecords]
           /\ \A p \in Calls : p # q => request'[p] = request[p]
           /\ request'[q].step = step /\ request'[q].caller = u /\ request'[q].route = route
           /\ request'[q].claim = claim /\ request'[q].filter = None
           /\ request'[q].offset = 0 /\ request'[q].sent = <<>> /\ request'[q].waited = 0
<1> DEFINE r == [Idle EXCEPT !.step = step, !.route = route, !.caller = u, !.claim = claim]
<1>1. /\ r.step = step /\ r.route = route /\ r.caller = u /\ r.claim = claim /\ r.filter = None
      /\ r.offset = 0 /\ r.sent = <<>> /\ r.waited = 0
  BY DEF Idle
<1>2. r \in RequestRecords
  <2>1. step \in Steps
    BY WaitingSteps DEF Steps
  <2>2. QED
    BY <2>1, IdleRecord, Zenon DEF RequestRecords
<1>3. request'[q] = r /\ request' \in [Calls -> RequestRecords]
      /\ \A p \in Calls : p # q => request'[p] = request[p]
  BY <1>2, Updated DEF Enters
<1>4. QED
  BY <1>1, <1>3

\* What is left of a request that goes on, and of one that is refused.
LEMMA Proceeded ==
    ASSUME request \in [Calls -> RequestRecords], NEW q \in Calls,
           NEW r \in RequestRecords, NEW step \in Steps, NEW waited \in Nat,
           Proceeds(q, r, step, waited)
    PROVE  /\ request' \in [Calls -> RequestRecords]
           /\ \A p \in Calls : p # q => request'[p] = request[p]
           /\ request'[q].step = step /\ request'[q].waited = waited
           /\ request'[q].route = r.route
           /\ step = "refused" => request'[q].sent = <<>> /\ request'[q].offset = 0
           /\ step # "refused" =>
                /\ request'[q].caller = r.caller
                /\ request'[q].claim = r.claim /\ request'[q].filter = r.filter
                /\ request'[q].offset = r.offset /\ request'[q].sent = r.sent
                /\ request'[q].about = r.about
<1>1. CASE step = "refused"
  <2> DEFINE n == [Idle EXCEPT !.step = step, !.route = r.route, !.waited = waited]
  <2>1. Update(q, n)
    BY <1>1 DEF Proceeds
  <2>2. n \in RequestRecords
    BY IdleRecord DEF RequestRecords
  <2>3. /\ n.step = step /\ n.route = r.route /\ n.waited = waited
        /\ n.sent = <<>> /\ n.offset = 0
    BY DEF Idle
  <2>4. QED
    BY <1>1, <2>1, <2>2, <2>3, Updated
<1>2. CASE step # "refused"
  <2> DEFINE n == [r EXCEPT !.step = step, !.waited = waited]
  <2>1. Update(q, n)
    BY <1>2 DEF Proceeds
  <2>2. n \in RequestRecords
    BY DEF RequestRecords
  <2>3. /\ n.step = step /\ n.waited = waited /\ n.route = r.route /\ n.caller = r.caller
        /\ n.claim = r.claim /\ n.filter = r.filter /\ n.offset = r.offset /\ n.sent = r.sent
        /\ n.about = r.about
    BY DEF RequestRecords
  <2>4. QED
    BY <1>2, <2>1, <2>2, <2>3, Updated
<1>3. QED
  BY <1>1, <1>2

\* An answer ends the request; nothing else of it changes.
LEMMA AnsweredRecord ==
    ASSUME request \in [Calls -> RequestRecords], NEW q \in Calls,
           NEW s \in Seq(Transactions \cup Resources), Answered(q, s)
    PROVE  /\ request' \in [Calls -> RequestRecords]
           /\ \A p \in Calls : p # q => request'[p] = request[p]
           /\ request'[q].step = "done" /\ request'[q].sent = s
           /\ request'[q].route = request[q].route /\ request'[q].caller = request[q].caller
           /\ request'[q].waited = request[q].waited
<1> DEFINE n == [request[q] EXCEPT !.step = "done", !.sent = s]
<1>1. n \in RequestRecords
  BY DEF RequestRecords, Steps
<1>2. /\ n.step = "done" /\ n.sent = s /\ n.route = request[q].route
      /\ n.caller = request[q].caller /\ n.waited = request[q].waited
  BY DEF RequestRecords
<1>3. QED
  BY <1>1, <1>2, Updated DEF Answered

-----------------------------------------------------------------------------
(* Sequences of rows *)

\* The rows a sequence holds are among its elements.
LEMMA RowsOfSequence ==
    ASSUME NEW S, NEW s \in Seq(S)
    PROVE  Rows(s) \subseteq S
  BY LenProperties DEF Rows

\* The place where a piece ends.
PieceEnd(s, first, size) == IF first + size - 1 < Len(s) THEN first + size - 1 ELSE Len(s)

\* A piece has as many elements as there are from its first on, up to its size.
LEMMA PieceProperties ==
    ASSUME NEW S, NEW s \in Seq(S), NEW first \in Nat \ {0}, NEW size \in Nat
    PROVE  /\ Piece(s, first, size) \in Seq(S)
           /\ Len(Piece(s, first, size)) =
                IF first <= PieceEnd(s, first, size) THEN PieceEnd(s, first, size) - first + 1
                                                     ELSE 0
           /\ \A i \in 1..(PieceEnd(s, first, size) - first + 1) :
                Piece(s, first, size)[i] = s[first + i - 1]
<1> DEFINE n == PieceEnd(s, first, size)
<1>1. Len(s) \in Nat /\ s \in [1..Len(s) -> S]
  BY LenProperties
<1>2. n \in Int /\ n <= Len(s)
  BY <1>1 DEF PieceEnd
<1>3. \A i \in first..n : s[i] \in S
  BY <1>1, <1>2
<1>4. /\ SubSeq(s, first, n) \in Seq(S)
      /\ Len(SubSeq(s, first, n)) = IF first <= n THEN n - first + 1 ELSE 0
      /\ \A i \in 1..(n - first + 1) : SubSeq(s, first, n)[i] = s[first + i - 1]
  <2> HIDE DEF n
  <2>1. QED
    BY <1>2, <1>3, SubSeqProperties
<1>5. Piece(s, first, size) = SubSeq(s, first, n)
  BY DEF Piece, PieceEnd
<1>6. QED
  BY <1>4, <1>5

\* An order of a finite set is a sequence of its elements, as long as it is large.
LEMMA OrderIsSequence ==
    ASSUME NEW S, IsFiniteSet(S), NEW before, NEW s \in Orders(S, before)
    PROVE  /\ Cardinality(S) \in Nat
           /\ s \in Seq(S) /\ Len(s) = Cardinality(S) /\ DOMAIN s = 1..Cardinality(S)
           /\ \A i, j \in 1..Cardinality(S) : i < j => s[i] # s[j] /\ <<s[j], s[i]>> \notin before
<1>1. Cardinality(S) \in Nat
  BY FS_CardinalityType
<1>2. s \in [1..Cardinality(S) -> S]
  BY DEF Orders
<1>3. s \in Seq(S)
  BY <1>1, <1>2, SeqDef
<1>4. \A i, j \in DOMAIN s : i < j => s[i] # s[j] /\ <<s[j], s[i]>> \notin before
  BY DEF Orders
<1>5. QED
  BY <1>1, <1>2, <1>3, <1>4, LenProperties

\* The set of the transactions is finite, and so is each part of it.
LEMMA TransactionsFinite ==
    ASSUME NEW S, S \subseteq Transactions
    PROVE  IsFiniteSet(S)
  BY ApiAssumption, FS_Subset

-----------------------------------------------------------------------------
(* What the steps do to the requests *)

RequestSteps == {"idle", "identity", "admitted", "batches", "done", "refused"}

\* Members take the guarded routes, parents two of them without asking identity and
\* admins the platform's; only an export reads batches.
RoutesTaken ==
    \A q \in Requests :
        /\ request[q].step \in RequestSteps
        /\ request[q].step \notin {"idle", "refused"} =>
            \/ request[q].caller \in Members /\ request[q].route \in DOMAIN Permission
            \/ /\ request[q].caller \in Parents /\ request[q].route \in ParentRoutes
               /\ request[q].step # "identity"
            \/ request[q].caller \in Admins /\ request[q].route = "platform"
        /\ request[q].step = "batches" => request[q].route = "export"

\* A caller begins a request.
Arrives(q) ==
    /\ request[q].step = "idle"
    /\ \/ \E u \in Parents, route \in ParentRoutes : Enters(q, u, route, None, "admitted")
       \/ \E u \in Members, route \in DOMAIN Permission, r \in Roles :
            Enters(q, u, route, r, "identity")
       \/ \E u \in Admins, v \in 1..MaxFactor : Enters(q, u, "platform", v, "identity")

\* A request other than an export is answered with rows its caller owns.
Replies(q) ==
    /\ request[q].step = "admitted" /\ request[q].route # "export"
    /\ \E s \in Seq(Transactions \cup Resources) :
        Answered(q, s) /\ \A x \in Rows(s) : Owns(request[q].caller, x)

\* An admitted request or an export ends with an error.
GivesUp(q) ==
    /\ request[q].step \in {"admitted", "batches"}
    /\ Proceeds(q, request[q], "refused", request[q].waited)

\* A callback or a payment request arrives, or a payment is committed.
ServiceSteps(q) ==
    \/ Commits(q)
    \/ \E x \in Transactions : CallbackArrives(q, x)
    \/ \E step \in Waiting : PaymentArrives(q, step)

\* A row within the scope of the caller of a tenant route is the caller's.
LEMMA ScopedIsOwned ==
    ASSUME TypeOK, RoutesTaken, NEW q \in Requests, request[q].step = "admitted",
           request[q].route # "platform", NEW x \in Transactions \cup Resources,
           Scoped(request[q], x), x \in Transactions \/ request[q].route \notin ParentRoutes
    PROVE  Owns(request[q].caller, x)
  BY ApiAssumption DEF RoutesTaken, Scoped, Owns

\* An answer of one row the caller owns, or of none, is such an answer.
LEMMA ShortReply ==
    ASSUME NEW q \in Requests, request[q].step = "admitted", request[q].route # "export"
    PROVE  /\ Answered(q, <<>>) => Replies(q)
           /\ \A x \in Transactions \cup Resources :
                Answered(q, <<x>>) /\ Owns(request[q].caller, x) => Replies(q)
<1>1. ASSUME NEW x \in Transactions \cup Resources, Answered(q, <<x>>),
             Owns(request[q].caller, x)
      PROVE  Replies(q)
  <2>1. <<x>> \in Seq(Transactions \cup Resources)
    OBVIOUS
  <2>2. \A y \in Rows(<<x>>) : y = x
    BY DEF Rows
  <2>3. \A y \in Rows(<<x>>) : Owns(request[q].caller, y)
    BY <1>1, <2>2, Zenon
  <2>4. QED
    BY <1>1, <2>1, <2>3, Zenon DEF Replies
<1>2. ASSUME Answered(q, <<>>) PROVE Replies(q)
  <2>1. <<>> \in Seq(Transactions \cup Resources)
    BY EmptySeq
  <2>2. \A y \in Rows(<<>>) : Owns(request[q].caller, y)
    BY DEF Rows
  <2>3. QED
    BY <1>2, <2>1, <2>2, Zenon DEF Replies
<1>3. QED
  BY <1>1, <1>2

\* Every answer but an export's is of rows the caller owns.
LEMMA AnswersAreOwned ==
    ASSUME TypeOK, RoutesTaken, NEW q \in Requests,
           \/ \E x \in Transactions : Gets(q, x) \/ Refunds(q, x)
           \/ \E x \in Resources :
                \/ ServesWallet(q, x) \/ ServesAccount(q, x) \/ ServesWithdrawal(q, x)
                \/ ServesVoucher(q, x) \/ DecidesWithdrawal(q, x)
           \/ \E f \in Filters : Summarises(q, f)
           \/ Lists(q)
    PROVE  Replies(q)
<1>1. ASSUME NEW x \in Transactions, Gets(q, x) PROVE Replies(q)
  <2>1. CASE Exists(x) /\ Scoped(request[q], x)
    <3>1. Owns(request[q].caller, x)
      BY <1>1, <2>1, ScopedIsOwned DEF Gets
    <3>2. QED
      BY <1>1, <2>1, <3>1, ShortReply DEF Gets
  <2>2. CASE ~(Exists(x) /\ Scoped(request[q], x))
    BY <1>1, <2>2, ShortReply DEF Gets
  <2>3. QED
    BY <2>1, <2>2
<1>2. ASSUME NEW x \in Transactions, Refunds(q, x) PROVE Replies(q)
  <2>1. Owns(request[q].caller, x)
    BY <1>2, ScopedIsOwned DEF Refunds
  <2>2. QED
    BY <1>2, <2>1, ShortReply DEF Refunds
<1>3. ASSUME NEW x \in Resources,
             \/ ServesWallet(q, x) \/ ServesAccount(q, x) \/ ServesWithdrawal(q, x)
             \/ ServesVoucher(q, x)
      PROVE  Replies(q)
  <2>1. /\ request[q].step = "admitted" /\ Answered(q, <<x>>) /\ Scoped(request[q], x)
        /\ request[q].route \in {"wallet", "account", "withdrawal"} \cup VoucherRoutes
    BY <1>3 DEF ServesWallet, ServesAccount, ServesWithdrawal, ServesVoucher, Handles
  <2>2. request[q].route \notin ParentRoutes \cup {"platform", "export"}
    BY <2>1 DEF ParentRoutes, VoucherRoutes
  <2>3. Owns(request[q].caller, x)
    BY <2>1, <2>2, ScopedIsOwned
  <2>4. QED
    BY <2>1, <2>2, <2>3, ShortReply
<1>4. ASSUME NEW x \in Resources, DecidesWithdrawal(q, x) PROVE Replies(q)
  <2>1. /\ request[q].step = "admitted" /\ Answered(q, <<x>>) /\ request[q].route = "platform"
        /\ Kind[x] = "withdrawal"
    BY <1>4 DEF DecidesWithdrawal, Handles
  <2>2. request[q].caller \in Admins
    BY <2>1, GuardedRoutes DEF RoutesTaken, ParentRoutes, VoucherRoutes
  <2>3. QED
    BY <2>1, <2>2, ShortReply DEF Owns
<1>5. ASSUME NEW f \in Filters, Summarises(q, f) PROVE Replies(q)
  <2> DEFINE S == Counted(Home[request[q].caller], f)
  <2>1. request[q].step = "admitted" /\ request[q].route = "summary"
    BY <1>5 DEF Summarises
  <2>2. PICK s \in Orders(S, {}) : Answered(q, s)
    BY <1>5 DEF Summarises
  <2>3. S \subseteq Transactions /\ \A x \in S : Owner[x] = Home[request[q].caller]
    BY DEF Counted
  <2>4. s \in Seq(S) /\ s \in Seq(Transactions \cup Resources)
    BY <2>2, <2>3, TransactionsFinite, OrderIsSequence, SeqMonotonic
  <2>5. request[q].caller \in Members
    BY <2>1 DEF RoutesTaken, ParentRoutes
  <2>6. \A x \in Rows(s) : Owns(request[q].caller, x)
    BY <2>3, <2>4, <2>5, RowsOfSequence DEF Owns
  <2>7. QED
    BY <2>1, <2>2, <2>4, <2>6 DEF Replies
<1>6. ASSUME Lists(q) PROVE Replies(q)
  <2> DEFINE S == {x \in Transactions : Exists(x) /\ Scoped(request[q], x)}
             newer == {p \in Transactions \X Transactions : row[p[1]].created > row[p[2]].created}
  <2>1. request[q].step = "admitted" /\ request[q].route = "list"
    BY <1>6 DEF Lists
  <2>2. PICK s \in Orders(S, newer) : Answered(q, Piece(s, 1, PageSize))
    BY <1>6 DEF Lists
  <2>3. s \in Seq(S)
    BY <2>2, TransactionsFinite, OrderIsSequence
  <2>4. Piece(s, 1, PageSize) \in Seq(S)
    <3>1. 1 \in Nat \ {0} /\ PageSize \in Nat
      BY ApiAssumption
    <3> HIDE DEF S
    <3>2. QED
      BY <2>3, <3>1, PieceProperties
  <2>5. Piece(s, 1, PageSize) \in Seq(Transactions \cup Resources)
    BY <2>4, SeqMonotonic
  <2>6. \A x \in S : Owns(request[q].caller, x)
    BY <2>1, ScopedIsOwned
  <2>7. \A x \in Rows(Piece(s, 1, PageSize)) : Owns(request[q].caller, x)
    BY <2>4, <2>6, RowsOfSequence
  <2>8. QED
    BY <2>1, <2>2, <2>5, <2>7 DEF Replies
<1>7. QED
  BY <1>1, <1>2, <1>3, <1>4, <1>5, <1>6

\* Each step moves one request in one of these ways, or none.
LEMMA StepsOfRequests ==
    ASSUME TypeOK, RoutesTaken, [Next]_vars
    PROVE  \/ \E q \in Requests :
                \/ Arrives(q) \/ Replies(q) \/ GivesUp(q) \/ ReadsBatch(q)
                \/ \E f \in Filters : ExportBegins(q, f)
           \/ \E q \in ServiceCalls : ServiceSteps(q)
           \/ \E q \in Calls : Answers(q) \/ TimesOut(q) \/ Ends(q)
           \/ UNCHANGED request
<1>1. CASE UNCHANGED vars
  BY <1>1 DEF vars
<1>2. ASSUME NEW q \in Requests, Serves(q)
      PROVE  \/ Arrives(q) \/ Replies(q) \/ GivesUp(q) \/ ReadsBatch(q)
             \/ \E f \in Filters : ExportBegins(q, f)
  <2>1. ASSUME NEW u \in Parents, NEW route \in Served, ParentArrives(q, u, route)
        PROVE  Arrives(q)
    BY <2>1 DEF ParentArrives, Arrives
  <2>2. ASSUME NEW u \in Members, NEW route \in Served, MemberArrives(q, u, route)
        PROVE  Arrives(q)
    BY <2>2 DEF MemberArrives, Arrives
  <2>3. ASSUME NEW u \in Admins, AdminArrives(q, u)
        PROVE  Arrives(q)
    BY <2>3 DEF AdminArrives, Arrives
  <2>4. ASSUME Refuses(q) \/ ExportBreaks(q) PROVE GivesUp(q)
    BY <2>4 DEF Refuses, ExportBreaks, GivesUp
  <2>5. QED
    BY <1>2, <2>1, <2>2, <2>3, <2>4, AnswersAreOwned DEF Serves
<1>3. QED
  BY <1>1, <1>2 DEF Next, Reassigns, Refactors, Creates, Tick, Calls, ServiceSteps

-----------------------------------------------------------------------------
(* Type correctness *)

RowRecords == [status : {"none", "pending", "paid", "refunded"},
               created : {Never} \cup 0..MaxTime, paid : {Never} \cup 0..MaxTime]

\* What a step may do to a row: insert it, have it paid or refunded, or leave it.
LEMMA RowStep ==
    ASSUME TypeOK, [Next]_vars
    PROVE  /\ row' \in [Transactions -> RowRecords]
           /\ \A x \in Transactions :
                \/ row'[x] = row[x]
                \/ row[x].status = "none" /\ row'[x].status = "pending"
                \/ row[x].status = "pending" /\ row'[x].status = "paid"
                \/ row[x].status = "paid" /\ row'[x].status = "refunded"
<1>0. row \in [Transactions -> RowRecords]
  BY DEF TypeOK, RowRecords
<1>1. CASE UNCHANGED row
  BY <1>0, <1>1
<1>2. ASSUME NEW q \in Requests, NEW x \in Transactions, Refunds(q, x)
      PROVE  /\ row' \in [Transactions -> RowRecords]
             /\ \A y \in Transactions :
                  row'[y] = row[y] \/ (row[y].status = "paid" /\ row'[y].status = "refunded")
  <2>1. row' = [row EXCEPT ![x].status = "refunded"] /\ row[x].status \in {"paid", "refunded"}
    BY <1>2 DEF Refunds
  <2>2. row' = [row EXCEPT ![x] = [row[x] EXCEPT !.status = "refunded"]]
    BY <2>1
  <2>3. [row[x] EXCEPT !.status = "refunded"] \in RowRecords
    BY <1>0 DEF RowRecords
  <2>4. [row[x] EXCEPT !.status = "refunded"].status = "refunded"
    BY <1>0 DEF RowRecords
  <2>5. row[x].status = "refunded" => [row[x] EXCEPT !.status = "refunded"] = row[x]
    BY <1>0 DEF RowRecords
  <2>6. QED
    BY <1>0, <2>1, <2>2, <2>3, <2>4, <2>5
<1>3. ASSUME NEW q \in ServiceCalls, Commits(q)
      PROVE  /\ row' \in [Transactions -> RowRecords]
             /\ \A y \in Transactions :
                  row'[y] = row[y] \/ (row[y].status = "pending" /\ row'[y].status = "paid")
  <2> DEFINE x == request[q].about
             n == [row[x] EXCEPT !.status = "paid", !.paid = request[q].at]
  <2>1. x \in Transactions /\ request[q].at \in 0..MaxTime
    BY <1>3 DEF Commits, TypeOK, RequestRecords
  <2>2. CASE row[x].status # "pending"
    BY <1>0, <1>3, <2>2 DEF Commits
  <2>3. CASE row[x].status = "pending"
    <3>1. row' = [row EXCEPT ![x].status = "paid", ![x].paid = request[q].at]
      BY <1>3, <2>3 DEF Commits
    <3>2. row' = [row EXCEPT ![x] = n]
      BY <1>0, <2>1, <3>1 DEF RowRecords
    <3>3. n \in RowRecords /\ n.status = "paid"
      BY <1>0, <2>1 DEF RowRecords
    <3>4. QED
      BY <1>0, <2>1, <2>3, <3>2, <3>3
  <2>4. QED
    BY <2>2, <2>3
<1>4. ASSUME NEW x \in Transactions, Creates(x)
      PROVE  /\ row' \in [Transactions -> RowRecords]
             /\ \A y \in Transactions :
                  row'[y] = row[y] \/ (row[y].status = "none" /\ row'[y].status = "pending")
  <2>1. PICK t \in {clock - 1, clock} \cap Nat :
          row' = [row EXCEPT ![x] = [status |-> "pending", created |-> t, paid |-> Never]]
    BY <1>4 DEF Creates
  <2>2. t \in 0..MaxTime
    BY ApiAssumption DEF TypeOK
  <2>3. [status |-> "pending", created |-> t, paid |-> Never] \in RowRecords
    BY <2>2 DEF RowRecords
  <2>4. row[x].status = "none"
    BY <1>4 DEF Creates, Exists
  <2>5. QED
    BY <1>0, <2>1, <2>3, <2>4
<1>5. \/ UNCHANGED row
      \/ \E q \in Requests, x \in Transactions : Refunds(q, x)
      \/ \E q \in ServiceCalls : Commits(q)
      \/ \E x \in Transactions : Creates(x)
  <2>1. ASSUME NEW q \in Requests, Serves(q)
        PROVE  UNCHANGED row \/ \E x \in Transactions : Refunds(q, x)
    BY <2>1 DEF Serves, ParentArrives, MemberArrives, AdminArrives, Gets, ServesWallet,
                ServesAccount, ServesWithdrawal, ServesVoucher, DecidesWithdrawal, Handles,
                Summarises, ExportBegins, Lists, Refuses, ReadsBatch, ExportBreaks
  <2>2. QED
    BY <2>1 DEF Next, vars, CallbackArrives, PaymentArrives, Answers, TimesOut, Ends, Reassigns, Refactors, Tick
<1>6. QED
  BY <1>1, <1>2, <1>3, <1>4, <1>5

\* What each wait takes at most, by the step.
LEMMA Patient ==
    ASSUME NEW r
    PROVE  /\ r.step \in {"identity", "fees"} => Patience(r) = config.permission
           /\ r.step \in {"duitku", "invoice"} => Patience(r) = config.duitku * Second
           /\ r.step \in {"resend", "mail"} => Patience(r) = config.resend * Second
           /\ r.step = "academic" => Patience(r) = AcademicTimeout
  BY DEF Patience, Timeout, Service

\* The steps an answer may lead to.
LEMMA AnswerLeadsTo ==
    ASSUME NEW r
    PROVE  /\ r.step = "identity" => AfterAnswer(r) = {IF Allows(r) THEN "admitted" ELSE "refused"}
           /\ r.step = "duitku" => AfterAnswer(r) = {"commit"}
           /\ r.step = "resend" => AfterAnswer(r) = {"academic"}
           /\ r.step = "fees" => AfterAnswer(r) = {"invoice", "done", "refused"}
           /\ r.step = "invoice" => AfterAnswer(r) = {"mail", "done", "refused"}
           /\ r.step \in {"academic", "mail"} => AfterAnswer(r) = {"done"}
  BY DEF AfterAnswer

\* And the step after none.
LEMMA SilenceLeadsTo ==
    ASSUME NEW r
    PROVE  /\ r.step = "resend" => AfterNoAnswer(r) = "academic"
           /\ r.step = "mail" => AfterNoAnswer(r) = "done"
           /\ r.step \notin {"resend", "mail"} => AfterNoAnswer(r) = "refused"
  BY DEF AfterNoAnswer

\* The answers and timeouts lead to steps that exist, and waits add up.
LEMMA AfterWaiting ==
    ASSUME TypeOK, NEW q \in Calls, request[q].step \in Waiting
    PROVE  /\ Patience(request[q]) \in Nat
           /\ AfterAnswer(request[q]) \subseteq Steps
           /\ AfterNoAnswer(request[q]) \in Steps
<1>1. config \in TimeoutSettings /\ AcademicTimeout \in Nat
  BY TimeoutsAssumption DEF TypeOK, TimeoutSettings
<1>2. config.duitku * Second \in Nat /\ config.resend * Second \in Nat
  BY <1>1, AcceptedHasRoom DEF TypeOK
<1>3. config.permission \in Nat
  BY <1>1 DEF TimeoutSettings
<1>4. Patience(request[q]) \in Nat
  BY <1>1, <1>2, <1>3, WaitingSteps, Patient
<1>5. AfterAnswer(request[q]) \subseteq Steps
  BY WaitingSteps, AnswerLeadsTo DEF Steps
<1>6. AfterNoAnswer(request[q]) \in Steps
  BY WaitingSteps, SilenceLeadsTo DEF Steps
<1>7. QED
  BY <1>4, <1>5, <1>6

\* The fields of a request before and after each of its other steps.

\* A step that keeps the requests well formed and moves q alone.
OnlyMoves(q) ==
    /\ request' \in [Calls -> RequestRecords]
    /\ \A p \in Calls : p # q => request'[p] = request[p]

\* A service answers, or the client gives up waiting.
LEMMA Waited ==
    ASSUME TypeOK, NEW q \in Calls, Answers(q) \/ TimesOut(q)
    PROVE  /\ OnlyMoves(q)
           /\ request[q].step \in Waiting
           /\ request'[q].waited = request[q].waited + Patience(request[q])
           /\ request'[q].route = request[q].route
           /\ \/ Answers(q) /\ request'[q].step \in AfterAnswer(request[q])
              \/ request'[q].step = AfterNoAnswer(request[q])
           /\ request'[q].step = "refused" => request'[q].sent = <<>> /\ request'[q].offset = 0
           /\ request'[q].step # "refused" =>
                /\ request'[q].caller = request[q].caller
                /\ request'[q].claim = request[q].claim /\ request'[q].sent = request[q].sent
                /\ request'[q].offset = request[q].offset /\ request'[q].about = request[q].about
<1> DEFINE r == [request[q] EXCEPT !.at = IF request[q].step = "duitku" THEN clock ELSE 0]
           waited == request[q].waited + Patience(request[q])
<1>1. request \in [Calls -> RequestRecords] /\ request[q] \in RequestRecords
  BY DEF TypeOK, Calls
<1>2. request[q].step \in Waiting
  BY DEF Answers, TimesOut
<1>3. waited \in Nat
  <2>1. request[q].waited \in Nat
    BY <1>1 DEF RequestRecords
  <2>2. Patience(request[q]) \in Nat
    BY <1>2, AfterWaiting
  <2>3. QED
    BY <2>1, <2>2
<1>4. AfterAnswer(request[q]) \subseteq Steps /\ AfterNoAnswer(request[q]) \in Steps
  BY <1>2, AfterWaiting
<1>5. r \in RequestRecords
  <2>1. (IF request[q].step = "duitku" THEN clock ELSE 0) \in 0..MaxTime
    BY ApiAssumption DEF TypeOK
  <2>2. QED
    BY <1>1, <2>1 DEF RequestRecords
<1>6. /\ r.route = request[q].route /\ r.caller = request[q].caller /\ r.claim = request[q].claim
      /\ r.sent = request[q].sent /\ r.offset = request[q].offset /\ r.about = request[q].about
  BY <1>1 DEF RequestRecords
<1>7. CASE Answers(q)
  <2>1. PICK step \in AfterAnswer(request[q]) : Proceeds(q, r, step, waited)
    BY <1>7, Zenon DEF Answers
  <2> HIDE DEF r, waited
  <2>2. /\ OnlyMoves(q) /\ request'[q].step = step /\ request'[q].waited = waited
        /\ request'[q].route = r.route
        /\ request'[q].step = "refused" => request'[q].sent = <<>> /\ request'[q].offset = 0
        /\ request'[q].step # "refused" =>
             /\ request'[q].caller = r.caller
             /\ request'[q].claim = r.claim /\ request'[q].sent = r.sent
             /\ request'[q].offset = r.offset /\ request'[q].about = r.about
    BY <1>1, <1>3, <1>4, <1>5, <2>1, Proceeded DEF OnlyMoves
  <2>3. QED
    BY <1>2, <1>6, <1>7, <2>2 DEF waited
<1>8. CASE TimesOut(q)
  <2>1. Proceeds(q, request[q], AfterNoAnswer(request[q]), waited)
    BY <1>8, Zenon DEF TimesOut
  <2> HIDE DEF waited
  <2>2. /\ OnlyMoves(q)
        /\ request'[q].step = AfterNoAnswer(request[q]) /\ request'[q].waited = waited
        /\ request'[q].route = request[q].route
        /\ request'[q].step = "refused" => request'[q].sent = <<>> /\ request'[q].offset = 0
        /\ request'[q].step # "refused" =>
             /\ request'[q].caller = request[q].caller
             /\ request'[q].claim = request[q].claim /\ request'[q].sent = request[q].sent
             /\ request'[q].offset = request[q].offset /\ request'[q].about = request[q].about
    BY <1>1, <1>3, <1>4, <2>1, Proceeded DEF OnlyMoves
  <2>3. QED
    BY <1>2, <2>2 DEF waited
<1>9. QED
  BY <1>7, <1>8

\* A callback arrives and waits for Duitku.
LEMMA CallbackArrived ==
    ASSUME TypeOK, NEW q \in Calls, NEW x \in Transactions, CallbackArrives(q, x)
    PROVE  /\ OnlyMoves(q)
           /\ request'[q].step = "duitku" /\ request'[q].about = x /\ request'[q].waited = 0
           /\ request'[q].route = "webhook"
<1> DEFINE n == [Idle EXCEPT !.step = "duitku", !.route = "webhook", !.about = x]
<1>1. n \in RequestRecords
  BY IdleRecord, WaitingSteps DEF RequestRecords, Steps, Routes
<1>2. n.step = "duitku" /\ n.about = x /\ n.waited = 0 /\ n.route = "webhook"
  BY DEF Idle
<1>3. request \in [Calls -> RequestRecords] /\ Update(q, n)
  BY DEF TypeOK, Calls, CallbackArrives
<1>4. QED
  BY <1>1, <1>2, <1>3, Updated DEF OnlyMoves

\* A payment request arrives and waits for its first service.
LEMMA PaymentArrived ==
    ASSUME TypeOK, NEW q \in Calls, NEW step \in Waiting, PaymentArrives(q, step)
    PROVE  /\ OnlyMoves(q)
           /\ request'[q].step \in {"fees", "invoice", "mail"} /\ request'[q].route = "payment"
           /\ request'[q].waited = 0
<1> DEFINE n == [Idle EXCEPT !.step = step, !.route = "payment"]
<1>1. step \in {"fees", "invoice", "mail"} /\ step \in Steps
  BY DEF PaymentArrives, Steps
<1>2. n \in RequestRecords
  BY <1>1, IdleRecord DEF RequestRecords, Routes
<1>3. n.step = step /\ n.route = "payment" /\ n.waited = 0
  BY DEF Idle
<1>4. request \in [Calls -> RequestRecords] /\ Update(q, n)
  BY DEF TypeOK, Calls, PaymentArrives
<1>5. QED
  BY <1>1, <1>2, <1>3, <1>4, Updated DEF OnlyMoves

\* A payment is committed; the callback goes on to the resend.
LEMMA Committed ==
    ASSUME TypeOK, NEW q \in Calls, Commits(q)
    PROVE  /\ OnlyMoves(q)
           /\ request[q].step = "commit" /\ request'[q].step = "resend"
           /\ request'[q].waited = request[q].waited /\ request'[q].route = request[q].route
<1> DEFINE n == [request[q] EXCEPT !.step = "resend", !.about = None, !.at = 0]
<1>1. request \in [Calls -> RequestRecords] /\ Update(q, n) /\ request[q].step = "commit"
  BY DEF TypeOK, Calls, Commits
<1>2. 0 \in 0..MaxTime
  BY ApiAssumption
<1>3. n \in RequestRecords
  BY <1>1, <1>2, WaitingSteps DEF RequestRecords, Steps
<1>4. n.step = "resend" /\ n.waited = request[q].waited /\ n.route = request[q].route
  BY <1>1 DEF RequestRecords
<1>5. QED
  BY <1>1, <1>3, <1>4, Updated DEF OnlyMoves

\* The answer has been written.
LEMMA Ended ==
    ASSUME TypeOK, NEW q \in Calls, Ends(q)
    PROVE  OnlyMoves(q) /\ request'[q] = Idle
  BY IdleRecord, Updated DEF Ends, TypeOK, Calls, OnlyMoves

\* An export begins with nothing sent.
LEMMA ExportBegun ==
    ASSUME TypeOK, NEW q \in Calls, NEW f \in Filters, ExportBegins(q, f)
    PROVE  /\ OnlyMoves(q)
           /\ request[q].step = "admitted" /\ request[q].route = "export"
           /\ request'[q].step = "batches" /\ request'[q].filter = f
           /\ request'[q].route = "export" /\ request'[q].caller = request[q].caller
           /\ request'[q].sent = request[q].sent /\ request'[q].offset = request[q].offset
           /\ request'[q].waited = request[q].waited
<1> DEFINE n == [request[q] EXCEPT !.step = "batches", !.filter = f]
<1>1. request \in [Calls -> RequestRecords] /\ Update(q, n) /\ request[q].step = "admitted"
      /\ request[q].route = "export"
  BY DEF TypeOK, Calls, ExportBegins
<1>2. n \in RequestRecords
  BY <1>1 DEF RequestRecords, Steps
<1>3. /\ n.step = "batches" /\ n.filter = f /\ n.route = request[q].route
      /\ n.caller = request[q].caller /\ n.sent = request[q].sent
      /\ n.offset = request[q].offset /\ n.waited = request[q].waited
  BY <1>1 DEF RequestRecords
<1>4. QED
  BY <1>1, <1>2, <1>3, Updated DEF OnlyMoves

\* The pairs of transactions in the order of an export.
Chronology(f) == {p \in Transactions \X Transactions : Precedes(p[1], p[2], f)}

\* A batch is a piece of the rows that match now, in their order.
LEMMA BatchRead ==
    ASSUME TypeOK, NEW q \in Calls, ReadsBatch(q)
    PROVE  \E s \in Orders(Matching(Home[request[q].caller], request[q].filter),
                           Chronology(request[q].filter)) :
             LET batch == Piece(s, request[q].offset + 1, BatchSize) IN
             /\ OnlyMoves(q)
             /\ batch \in Seq(Transactions)
             /\ request'[q].sent = request[q].sent \o batch
             /\ request'[q].offset = request[q].offset + BatchSize
             /\ request'[q].step = IF Len(batch) < BatchSize THEN "done" ELSE "batches"
             /\ request'[q].filter = request[q].filter /\ request'[q].route = request[q].route
             /\ request'[q].caller = request[q].caller /\ request'[q].waited = request[q].waited
<1> DEFINE f == request[q].filter
           M == Matching(Home[request[q].caller], f)
<1>1. PICK s \in Orders(M, Chronology(f)) :
        LET batch == Piece(s, request[q].offset + 1, BatchSize) IN
            Update(q, [request[q] EXCEPT
                         !.sent = @ \o batch,
                         !.offset = @ + BatchSize,
                         !.step = IF Len(batch) < BatchSize THEN "done" ELSE "batches"])
  BY Zenon DEF ReadsBatch, Chronology
<1> DEFINE batch == Piece(s, request[q].offset + 1, BatchSize)
           step == IF Len(batch) < BatchSize THEN "done" ELSE "batches"
           n == [request[q] EXCEPT !.sent = @ \o batch, !.offset = @ + BatchSize, !.step = step]
<1>2. /\ request \in [Calls -> RequestRecords] /\ request[q].offset \in Nat
      /\ request[q].sent \in Seq(Transactions \cup Resources) /\ BatchSize \in Nat
  BY ApiAssumption DEF TypeOK, Calls, RequestRecords
<1>3. batch \in Seq(Transactions)
  <2>1. M \subseteq Transactions
    BY DEF Matching
  <2> HIDE DEF M
  <2>2. s \in Seq(M)
    BY <2>1, TransactionsFinite, OrderIsSequence
  <2>3. request[q].offset + 1 \in Nat \ {0}
    BY <1>2
  <2>4. batch \in Seq(M)
    BY <1>2, <2>2, <2>3, PieceProperties
  <2>5. QED
    BY <2>1, <2>4, SeqMonotonic
<1>4. request[q].sent \o batch \in Seq(Transactions \cup Resources)
  BY <1>2, <1>3, SeqMonotonic, ConcatProperties
<1>5. step \in Steps /\ request[q].offset + BatchSize \in Nat
  BY <1>2 DEF Steps
<1>6. Update(q, n)
  BY <1>1
<1> HIDE DEF batch, step, M, f
<1>7. n \in RequestRecords
  BY <1>2, <1>4, <1>5 DEF RequestRecords
<1>8. /\ n.sent = request[q].sent \o batch /\ n.offset = request[q].offset + BatchSize
      /\ n.step = step /\ n.filter = request[q].filter /\ n.route = request[q].route
      /\ n.caller = request[q].caller /\ n.waited = request[q].waited
  BY <1>2 DEF RequestRecords
<1> HIDE DEF n
<1>9. OnlyMoves(q) /\ request'[q] = n
  BY <1>2, <1>6, <1>7, Updated DEF OnlyMoves
<1>10. QED
  BY <1>3, <1>8, <1>9 DEF batch, step, M, f

\* A request of a caller waits for identity alone.
LEMMA CallersWaitForIdentity ==
    ASSUME TypeOK, RoutesTaken, NEW q \in Calls, Answers(q) \/ TimesOut(q)
    PROVE  /\ q \in Requests =>
                /\ request[q].step = "identity"
                /\ request'[q].step \in {"admitted", "refused"}
           /\ request'[q].step \notin {"batches", "duitku", "idle"}
           /\ request'[q].step = "commit" => request[q].step = "duitku"
<1>1. /\ request[q].step
           \in {"identity", "fees", "duitku", "invoice", "resend", "mail", "academic"}
      /\ \/ request'[q].step \in AfterAnswer(request[q])
         \/ request'[q].step = AfterNoAnswer(request[q])
  BY Waited, WaitingSteps
<1>2. q \in Requests => request[q].step = "identity"
  BY <1>1 DEF RoutesTaken, RequestSteps
<1>3. /\ request[q].step = "identity" => request'[q].step \in {"admitted", "refused"}
      /\ request'[q].step \in {"admitted", "refused", "commit", "academic", "done", "invoice", "mail"}
      /\ request'[q].step = "commit" => request[q].step = "duitku"
  BY <1>1, AnswerLeadsTo, SilenceLeadsTo
<1>4. QED
  BY <1>2, <1>3

RequestsTypeOK ==
    /\ request \in [Calls -> RequestRecords]
    /\ \A q \in Calls :
        /\ request[q].step = "batches" => request[q].filter \in Filters
        /\ request[q].step \in {"duitku", "commit"} => request[q].about \in Transactions

\* The requests keep their types, and who takes which route.
LEMMA RequestsKeepTypes ==
    ASSUME TypeOK, RoutesTaken, [Next]_vars
    PROVE  RequestsTypeOK' /\ RoutesTaken'
<1>0. RequestsTypeOK /\ Requests \subseteq Calls /\ ServiceCalls \subseteq Calls
  BY DEF TypeOK, RequestsTypeOK, Calls
\* It suffices to look at the request that moves.
<1>1. ASSUME NEW q \in Calls, OnlyMoves(q),
             request'[q].step = "batches" => request'[q].filter \in Filters,
             request'[q].step \in {"duitku", "commit"} => request'[q].about \in Transactions,
             q \in Requests =>
                /\ request'[q].step \in RequestSteps
                /\ request'[q].step \notin {"idle", "refused"} =>
                    \/ request'[q].caller \in Members /\ request'[q].route \in DOMAIN Permission
                    \/ /\ request'[q].caller \in Parents /\ request'[q].route \in ParentRoutes
                       /\ request'[q].step # "identity"
                    \/ request'[q].caller \in Admins /\ request'[q].route = "platform"
                /\ request'[q].step = "batches" => request'[q].route = "export"
      PROVE  RequestsTypeOK' /\ RoutesTaken'
  <2>1. RequestsTypeOK'
    BY <1>0, <1>1 DEF OnlyMoves, RequestsTypeOK
  <2>2. RoutesTaken'
    BY <1>0, <1>1 DEF OnlyMoves, RoutesTaken
  <2>3. QED
    BY <2>1, <2>2
<1>2. ASSUME NEW q \in Requests, Arrives(q) PROVE RequestsTypeOK' /\ RoutesTaken'
  <2>1. ASSUME NEW u \in Callers, NEW route \in Routes, NEW claim \in Claims,
               NEW step \in {"identity", "admitted"}, Enters(q, u, route, claim, step)
        PROVE  /\ OnlyMoves(q) /\ request'[q].step = step /\ request'[q].caller = u
               /\ request'[q].route = route
    BY <1>0, <2>1, Entered DEF OnlyMoves, RequestsTypeOK
  <2>2. /\ DOMAIN Permission \subseteq Routes /\ ParentRoutes \subseteq DOMAIN Permission
        /\ "platform" \in Routes
    BY GuardedRoutes DEF Routes, ParentRoutes
  <2>3. /\ OnlyMoves(q) /\ request'[q].step \in {"identity", "admitted"}
        /\ \/ request'[q].caller \in Members /\ request'[q].route \in DOMAIN Permission
           \/ /\ request'[q].caller \in Parents /\ request'[q].route \in ParentRoutes
              /\ request'[q].step # "identity"
           \/ request'[q].caller \in Admins /\ request'[q].route = "platform"
    <3>1. ASSUME NEW u \in Parents, NEW route \in ParentRoutes,
                 Enters(q, u, route, None, "admitted")
          PROVE  /\ OnlyMoves(q) /\ request'[q].step = "admitted"
                 /\ request'[q].caller \in Parents /\ request'[q].route \in ParentRoutes
      BY <2>1, <2>2, <3>1 DEF Callers, Claims
    <3>2. ASSUME NEW u \in Members, NEW route \in DOMAIN Permission, NEW r \in Roles,
                 Enters(q, u, route, r, "identity")
          PROVE  /\ OnlyMoves(q) /\ request'[q].step = "identity"
                 /\ request'[q].caller \in Members /\ request'[q].route \in DOMAIN Permission
      BY <2>1, <2>2, <3>2 DEF Callers, Claims
    <3>3. ASSUME NEW u \in Admins, NEW v \in 1..MaxFactor,
                 Enters(q, u, "platform", v, "identity")
          PROVE  /\ OnlyMoves(q) /\ request'[q].step = "identity"
                 /\ request'[q].caller \in Admins /\ request'[q].route = "platform"
      BY <2>1, <2>2, <3>3 DEF Callers, Claims
    <3>4. QED
      BY <1>2, <3>1, <3>2, <3>3 DEF Arrives
  <2>4. QED
    BY <1>0, <1>1, <2>3 DEF RequestSteps
<1>3. ASSUME NEW q \in Requests, Replies(q) PROVE RequestsTypeOK' /\ RoutesTaken'
  <2>1. /\ OnlyMoves(q) /\ request'[q].step = "done" /\ request'[q].route = request[q].route
        /\ request'[q].caller = request[q].caller /\ request[q].step = "admitted"
    BY <1>0, <1>3, AnsweredRecord DEF Replies, OnlyMoves, RequestsTypeOK
  <2>2. QED
    BY <1>0, <1>1, <2>1 DEF RoutesTaken, RequestSteps
<1>4. ASSUME NEW q \in Requests, GivesUp(q) PROVE RequestsTypeOK' /\ RoutesTaken'
  <2>1. "refused" \in Steps /\ request[q].waited \in Nat /\ request[q] \in RequestRecords
    BY <1>0 DEF Steps, RequestsTypeOK, RequestRecords
  <2>2. OnlyMoves(q) /\ request'[q].step = "refused"
    BY <1>0, <1>4, <2>1, Proceeded DEF GivesUp, OnlyMoves, RequestsTypeOK
  <2>3. QED
    BY <1>0, <1>1, <2>2 DEF RequestSteps
<1>5. ASSUME NEW q \in Requests, ReadsBatch(q) PROVE RequestsTypeOK' /\ RoutesTaken'
  <2>1. /\ OnlyMoves(q) /\ request'[q].step \in {"done", "batches"}
        /\ request'[q].filter = request[q].filter /\ request'[q].route = request[q].route
        /\ request'[q].caller = request[q].caller /\ request[q].step = "batches"
    BY <1>0, <1>5, BatchRead DEF ReadsBatch
  <2>2. QED
    BY <1>0, <1>1, <2>1 DEF RoutesTaken, RequestSteps, RequestsTypeOK
<1>6. ASSUME NEW q \in Requests, NEW f \in Filters, ExportBegins(q, f)
      PROVE  RequestsTypeOK' /\ RoutesTaken'
  <2>1. /\ OnlyMoves(q) /\ request[q].step = "admitted" /\ request[q].route = "export"
        /\ request'[q].step = "batches" /\ request'[q].filter = f
        /\ request'[q].route = "export" /\ request'[q].caller = request[q].caller
    BY <1>0, <1>6, ExportBegun
  <2>2. QED
    BY <1>0, <1>1, <2>1 DEF RoutesTaken, RequestSteps
<1>7. ASSUME NEW q \in ServiceCalls, ServiceSteps(q) PROVE RequestsTypeOK' /\ RoutesTaken'
  <2>1. q \notin Requests
    BY ApiAssumption
  <2>2. /\ OnlyMoves(q) /\ request'[q].step \in {"duitku", "resend", "fees", "invoice", "mail"}
        /\ request'[q].step = "duitku" => request'[q].about \in Transactions
    BY <1>0, <1>7, CallbackArrived, PaymentArrived, Committed DEF ServiceSteps
  <2>3. QED
    BY <1>0, <1>1, <2>1, <2>2
<1>8. ASSUME NEW q \in Calls, Answers(q) \/ TimesOut(q) PROVE RequestsTypeOK' /\ RoutesTaken'
  <2>1. /\ OnlyMoves(q)
        /\ request'[q].step # "refused" =>
             /\ request'[q].route = request[q].route /\ request'[q].caller = request[q].caller
             /\ request'[q].about = request[q].about
    BY <1>8, Waited
  <2>2. /\ q \in Requests =>
             request[q].step = "identity" /\ request'[q].step \in {"admitted", "refused"}
        /\ request'[q].step \notin {"batches", "duitku", "idle"}
        /\ request'[q].step = "commit" => request[q].step = "duitku"
    BY <1>8, CallersWaitForIdentity
  <2>3. request'[q].step \in {"duitku", "commit"} => request'[q].about \in Transactions
    BY <1>0, <2>1, <2>2 DEF RequestsTypeOK
  <2>4. QED
    BY <1>1, <2>1, <2>2, <2>3 DEF RoutesTaken, RequestSteps
<1>9. ASSUME NEW q \in Calls, Ends(q) PROVE RequestsTypeOK' /\ RoutesTaken'
  <2>1. OnlyMoves(q) /\ request'[q].step = "idle"
    BY <1>9, Ended, IdleRecord
  <2>2. QED
    BY <1>1, <2>1 DEF RequestSteps
<1>10. CASE UNCHANGED request
  BY <1>0, <1>10 DEF RequestsTypeOK, RoutesTaken
<1>11. QED
  BY <1>2, <1>3, <1>4, <1>5, <1>6, <1>7, <1>8, <1>9, <1>10, StepsOfRequests

WatchRecords ==
    [entitled : BOOLEAN, stayed : SUBSET Transactions, left : BOOLEAN, entered : BOOLEAN]

\* The history of a request after a step: that of a new one, or one that grew.
LEMMA Observed ==
    ASSUME TypeOK, [Next]_vars
    PROVE  /\ watch' \in [Requests -> WatchRecords]
           /\ UNCHANGED <<watch, request, row, role, factor, clock>> \/ Observes
<1>1. CASE UNCHANGED vars
  BY <1>1 DEF vars, TypeOK, WatchRecords
<1>2. CASE Observes
  <2>1. ASSUME NEW q \in Requests PROVE watch'[q] \in WatchRecords
    <3>1. Found(q)' \in SUBSET Transactions /\ watch[q].stayed \in SUBSET Transactions
      BY DEF Found, Matching, TypeOK
    <3>2. CASE request[q].step = "idle" \/ request'[q].step = "idle"
      <4>1. watch'[q] = [Unwatched EXCEPT !.entitled = request'[q].step # "idle" /\ Entitled(q)']
        BY <1>2, <3>2, Zenon DEF Observes
      <4>2. (request'[q].step # "idle" /\ Entitled(q)') \in BOOLEAN
        OBVIOUS
      <4>3. QED
        BY <4>1, <4>2 DEF Unwatched, WatchRecords
    <3>3. CASE ~(request[q].step = "idle" \/ request'[q].step = "idle")
      <4> DEFINE e == watch[q].entitled \/ (request[q].step = "identity" /\ Entitled(q)')
                 s == IF Exporting(request[q]) THEN watch[q].stayed \cap Found(q)' ELSE Found(q)'
                 l == watch[q].left \/ ~(Found(q) \subseteq Found(q)')
                 n == watch[q].entered
                      \/ (Exporting(request[q]) /\ ~(Found(q)' \subseteq Found(q)))
      <4>1. watch'[q] = [entitled |-> e, stayed |-> s, left |-> l, entered |-> n]
        BY <1>2, <3>3, Zenon DEF Observes
      <4>2. e \in BOOLEAN /\ l \in BOOLEAN /\ n \in BOOLEAN
        OBVIOUS
      <4>3. s \in SUBSET Transactions
        BY <3>1
      <4> HIDE DEF e, s, l, n
      <4>4. QED
        BY <4>1, <4>2, <4>3 DEF WatchRecords
    <3>4. QED
      BY <3>2, <3>3
  <2>2. watch' = [q \in Requests |-> watch'[q]]
    BY <1>2, Zenon DEF Observes
  <2>3. QED
    BY <1>2, <2>1, <2>2
<1>3. QED
  BY <1>1, <1>2 DEF Next, vars

\* The process starts with a configuration that is accepted.
LEMMA InitTypes ==
    ASSUME Init
    PROVE  TypeOK /\ RoutesTaken
<1>1. \A q \in Calls : request[q] = Idle
  BY DEF Init, Calls
<1>2. request \in [Calls -> RequestRecords]
  BY IdleRecord DEF Init, Calls
<1>3. config \in TimeoutSettings /\ Accepted(config)
  <2>1. PICK e \in Environments : config = LoadConfig(e) /\ Accepted(LoadConfig(e))
    BY DEF Init
  <2>2. e \in Settings
    BY ApiAssumption
  <2>3. QED
    BY <2>1, <2>2, LoadedIsPositive
<1>4. row \in [Transactions -> RowRecords]
  BY DEF Init, NoTransaction, RowRecords
<1>5. watch \in [Requests -> WatchRecords]
  BY DEF Init, Unwatched, WatchRecords
<1>6. factor \in [Admins -> -MaxFactor..MaxFactor]
  <2>1. 1 \in -MaxFactor..MaxFactor
    BY ApiAssumption
  <2>2. QED
    BY <2>1 DEF Init
<1>7. clock \in 0..MaxTime /\ role \in [Members -> Roles]
  BY ApiAssumption DEF Init
<1>8. RequestsTypeOK
  BY <1>1, <1>2, IdleRecord DEF RequestsTypeOK
<1>9. TypeOK
  BY <1>3, <1>4, <1>5, <1>6, <1>7, <1>8
     DEF TypeOK, RequestsTypeOK, Calls, RowRecords, WatchRecords, TimeoutSettings
<1>10. RoutesTaken
  BY <1>1, IdleRecord DEF RoutesTaken, RequestSteps, Calls
<1>11. QED
  BY <1>9, <1>10

\* Identity's roles and factors, the configuration and the clock keep their types.
LEMMA RestKeepsTypes ==
    ASSUME TypeOK, [Next]_vars
    PROVE  /\ role' \in [Members -> Roles]
           /\ factor' \in [Admins -> -MaxFactor..MaxFactor]
           /\ config' = config
           /\ clock' \in 0..MaxTime
<1>1. \/ UNCHANGED <<role, factor, config, clock>>
      \/ \E u \in Members, r \in Roles : Reassigns(u, r)
      \/ \E a \in Admins : Refactors(a)
      \/ Tick
  <2>1. ASSUME NEW q \in Requests, Serves(q)
        PROVE  UNCHANGED <<role, factor, config, clock>>
    BY <2>1 DEF Serves, ParentArrives, MemberArrives, AdminArrives, Gets, Refunds, ServesWallet,
                ServesAccount, ServesWithdrawal, ServesVoucher, DecidesWithdrawal, Handles,
                Summarises, ExportBegins, Lists, Refuses, ReadsBatch, ExportBreaks
  <2>2. QED
    BY <2>1 DEF Next, vars, CallbackArrives, PaymentArrives, Commits, Answers, TimesOut, Ends, Creates
<1>2. CASE UNCHANGED <<role, factor, config, clock>>
  BY <1>2 DEF TypeOK
<1>3. ASSUME NEW u \in Members, NEW r \in Roles, Reassigns(u, r)
      PROVE  role' \in [Members -> Roles] /\ UNCHANGED <<factor, config, clock>>
  BY <1>3 DEF Reassigns, TypeOK
<1>4. ASSUME NEW a \in Admins, Refactors(a)
      PROVE  /\ factor' \in [Admins -> -MaxFactor..MaxFactor]
             /\ UNCHANGED <<role, config, clock>>
  <2>1. MaxFactor \in Nat /\ factor \in [Admins -> -MaxFactor..MaxFactor] /\ factor[a] > 0
    BY <1>4, ApiAssumption DEF Refactors, TypeOK
  <2>2. PICK v \in {-factor[a], factor[a] + 1} :
            v <= MaxFactor /\ factor' = [factor EXCEPT ![a] = v]
    BY <1>4 DEF Refactors
  <2>3. v \in -MaxFactor..MaxFactor
    BY <2>1, <2>2
  <2>4. QED
    BY <1>4, <2>1, <2>2, <2>3 DEF Refactors
<1>5. ASSUME Tick PROVE clock' \in 0..MaxTime /\ UNCHANGED <<role, factor, config>>
  BY <1>5, ApiAssumption DEF Tick, TypeOK
<1>6. QED
  BY <1>1, <1>2, <1>3, <1>4, <1>5 DEF TypeOK

\* A step keeps the types and the routes of those who take them.
LEMMA NextTypes ==
    ASSUME TypeOK, RoutesTaken, [Next]_vars
    PROVE  TypeOK' /\ RoutesTaken'
<1>1. RequestsTypeOK' /\ RoutesTaken'
  BY RequestsKeepTypes
<1>2. row' \in [Transactions -> RowRecords] /\ watch' \in [Requests -> WatchRecords]
  BY RowStep, Observed
<1>3. config' \in TimeoutSettings /\ Accepted(config)'
  BY RestKeepsTypes DEF TypeOK, TimeoutSettings, Accepted, LongestWait, WebhookWait
<1>4. QED
  BY <1>1, <1>2, <1>3, RestKeepsTypes
     DEF TypeOK, RequestsTypeOK, Calls, RowRecords, WatchRecords, TimeoutSettings

\* The invariant the others build on.
LEMMA TypeInvariant == Spec => [](TypeOK /\ RoutesTaken)
<1>1. Init => TypeOK /\ RoutesTaken
  BY InitTypes
<1>2. TypeOK /\ RoutesTaken /\ [Next]_vars => (TypeOK /\ RoutesTaken)'
  BY NextTypes
<1>3. QED
  BY <1>1, <1>2, PTL DEF Spec

\* In every state the variables have their types: whatever a caller asks, no record
\* of a request is out of shape, and the settings in force are those of a process
\* that was allowed to start.
THEOREM TypeCorrect == Spec => []TypeOK
  BY TypeInvariant, PTL

-----------------------------------------------------------------------------
(* Answers in time *)

\* The steps a payment request alone takes.
PaymentSteps == {"fees", "invoice", "mail"}

\* What a call may have waited by each of its steps: Duitku before it commits, the
\* mail provider before Academic is told, identity before a payment asks for its
\* invoice, and Duitku too before it mails the link.
InTime(r) ==
    /\ r.waited \in Nat
    /\ r.step \in PaymentSteps => r.route = "payment"
    /\ r.step \in {"idle", "identity", "duitku", "fees"} => r.waited = 0
    /\ r.step \in {"commit", "resend"} => r.waited <= config.duitku * Second
    /\ r.step = "academic" =>
         r.waited <= config.duitku * Second + config.resend * Second
    /\ r.step = "invoice" => r.waited <= config.permission
    /\ r.step = "mail" => r.waited <= config.permission + config.duitku * Second
    /\ r.waited < config.write * Second
                  + IF r.route = "payment" THEN config.permission ELSE 0

WaitsAddUp == \A q \in Calls : InTime(request[q])

\* The settings in force leave room for the waits of every request.
LEMMA RoomToWait ==
    ASSUME TypeOK
    PROVE  /\ config.duitku * Second \in Nat /\ config.resend * Second \in Nat
           /\ config.write * Second \in Nat \ {0} /\ config.permission \in Nat
           /\ AcademicTimeout \in Nat
           /\ config.permission < config.write * Second
           /\ config.duitku * Second + config.resend * Second + AcademicTimeout
                < config.write * Second
<1>1. config \in TimeoutSettings /\ AcademicTimeout \in Nat
  BY TimeoutsAssumption DEF TypeOK, TimeoutSettings
<1>2. config.permission \in Nat
  BY <1>1 DEF TimeoutSettings
<1>3. /\ config.duitku * Second \in Nat /\ config.resend * Second \in Nat
      /\ config.write * Second \in Nat
      /\ config.permission < config.write * Second
      /\ config.duitku * Second + config.resend * Second + AcademicTimeout
           < config.write * Second
  BY <1>1, AcceptedHasRoom DEF TypeOK
<1> DEFINE d == config.duitku * Second
           r == config.resend * Second
           w == config.write * Second
<1> HIDE DEF d, r, w
<1>4. /\ d \in Nat /\ r \in Nat /\ w \in Nat /\ config.permission < w
      /\ d + r + AcademicTimeout < w
  BY <1>3 DEF d, r, w
<1>5. w # 0
  BY <1>2, <1>4
<1>6. QED
  BY <1>1, <1>2, <1>3, <1>5 DEF w

\* A wait takes what the client of that service allows, and leads on.
LEMMA WaitInTime ==
    ASSUME TypeOK, WaitsAddUp, NEW q \in Calls, Answers(q) \/ TimesOut(q)
    PROVE  OnlyMoves(q) /\ InTime(request'[q])
<1> DEFINE d == config.duitku * Second
           s == config.resend * Second
           w == config.write * Second
           p == config.permission
           n == request[q].waited
           m == request'[q].waited
           before == request[q].step
           after == request'[q].step
           room == IF request[q].route = "payment" THEN p ELSE 0
<1>1. /\ d \in Nat /\ s \in Nat /\ w \in Nat /\ p \in Nat
      /\ AcademicTimeout \in Nat /\ p < w /\ d + s + AcademicTimeout < w
  BY RoomToWait
<1>2. /\ OnlyMoves(q)
      /\ before \in {"identity", "fees", "duitku", "invoice", "resend", "mail", "academic"}
      /\ m = n + Patience(request[q])
      /\ after \in AfterAnswer(request[q]) \/ after = AfterNoAnswer(request[q])
      /\ request'[q].route = request[q].route
  BY Waited, WaitingSteps
<1>3. InTime(request[q])
  BY DEF WaitsAddUp
<1>4. room \in Nat /\ (before \in PaymentSteps => room = p /\ request[q].route = "payment")
  BY <1>1, <1>3 DEF InTime
<1> HIDE DEF d, s, w, p, n, m, before, after, room
<1>5. /\ n \in Nat
      /\ before \in {"identity", "duitku", "fees"} => n = 0
      /\ before = "resend" => n <= d
      /\ before = "academic" => n <= d + s
      /\ before = "invoice" => n <= p
      /\ before = "mail" => n <= p + d
  BY <1>3 DEF InTime, n, d, s, p, before
<1>6. /\ before \in {"identity", "fees"} => m = n + p
      /\ before \in {"duitku", "invoice"} => m = n + d
      /\ before \in {"resend", "mail"} => m = n + s
      /\ before = "academic" => m = n + AcademicTimeout
  BY <1>2, Patient DEF d, s, p, before
<1>7. /\ before = "identity" => after \in {"admitted", "refused"}
      /\ before = "fees" => after \in {"invoice", "done", "refused"}
      /\ before = "duitku" => after \in {"commit", "refused"}
      /\ before = "invoice" => after \in {"mail", "done", "refused"}
      /\ before = "resend" => after = "academic"
      /\ before \in {"mail", "academic"} => after \in {"done", "refused"}
  BY <1>2, AnswerLeadsTo, SilenceLeadsTo DEF before
\* Only a payment uses the room beyond the write timeout.
<1>8. m \in Nat /\ m < w + room
  <2>1. CASE before \in {"identity", "duitku", "resend", "academic"}
    BY <1>1, <1>4, <1>5, <1>6, <2>1
  <2>2. CASE before \in {"fees", "invoice", "mail"}
    BY <1>1, <1>4, <1>5, <1>6, <2>2 DEF PaymentSteps
  <2>3. QED
    BY <1>2, <2>1, <2>2
<1>9. /\ after = "commit" => m <= d
      /\ after = "academic" => m <= d + s
      /\ after = "invoice" => m <= p
      /\ after = "mail" => m <= p + d
      /\ after \notin {"idle", "identity", "duitku", "fees", "resend"}
  <2>1. CASE before \in {"identity", "mail", "academic"}
    BY <1>7, <2>1
  <2>2. CASE before \in {"duitku", "resend"}
    BY <1>1, <1>5, <1>6, <1>7, <2>2
  <2>3. CASE before \in {"fees", "invoice"}
    BY <1>1, <1>5, <1>6, <1>7, <2>3
  <2>4. QED
    BY <1>2, <2>1, <2>2, <2>3
<1>10. after \in PaymentSteps => before \in PaymentSteps
  BY <1>2, <1>7 DEF PaymentSteps
<1>11. InTime(request'[q])
  <2>1. after \in PaymentSteps => request'[q].route = "payment"
    BY <1>2, <1>4, <1>10
  <2>2. m < w + IF request'[q].route = "payment" THEN p ELSE 0
    BY <1>2, <1>8 DEF room
  <2>3. QED
    BY <1>8, <1>9, <2>1, <2>2 DEF InTime, d, s, w, p, m, after
<1>12. QED
  BY <1>2, <1>11

\* Every step keeps the waits within the time that is left.
LEMMA WaitsKeepAddingUp ==
    ASSUME TypeOK, RoutesTaken, WaitsAddUp, [Next]_vars
    PROVE  WaitsAddUp'
<1>1. config' = config /\ Requests \subseteq Calls /\ ServiceCalls \subseteq Calls
      /\ request \in [Calls -> RequestRecords]
  BY RestKeepsTypes DEF Calls, TypeOK
<1>2. /\ config.write * Second \in Nat \ {0} /\ config.duitku * Second \in Nat
      /\ config.permission \in Nat
  BY RoomToWait
\* The moved request is in time; the others are as they were.
<1>3. ASSUME NEW q \in Calls, OnlyMoves(q), InTime(request'[q])
      PROVE  WaitsAddUp'
  BY <1>1, <1>3 DEF OnlyMoves, WaitsAddUp, InTime
\* No wait, and a step that leaves as much room as the one before.
<1>4. ASSUME NEW q \in Calls, OnlyMoves(q), request'[q].waited = request[q].waited,
             request'[q].route = request[q].route,
             \/ request'[q].step \in {"done", "refused", "batches"}
             \/ request[q].step = "commit" /\ request'[q].step = "resend"
      PROVE  WaitsAddUp'
  <2>1. InTime(request[q])
    BY DEF WaitsAddUp
  <2>2. InTime(request'[q])
    BY <1>4, <2>1 DEF InTime, PaymentSteps
  <2>3. QED
    BY <1>3, <1>4, <2>2
\* A request that starts over, or anew.
<1>5. ASSUME NEW q \in Calls, OnlyMoves(q), request'[q].waited = 0,
             \/ request'[q].step \in {"idle", "identity", "admitted", "duitku"}
             \/ request'[q].step \in PaymentSteps /\ request'[q].route = "payment"
      PROVE  WaitsAddUp'
  <2>1. InTime(request'[q])
    BY <1>2, <1>5 DEF InTime, PaymentSteps
  <2>2. QED
    BY <1>3, <1>5, <2>1
<1>6. ASSUME NEW q \in Requests, Arrives(q) PROVE WaitsAddUp'
  <2>1. ParentRoutes \subseteq Routes /\ DOMAIN Permission \subseteq Routes /\ "platform" \in Routes
    BY GuardedRoutes DEF Routes, ParentRoutes
  <2>2. \E u \in Callers, route \in Routes, claim \in Claims, step \in {"identity", "admitted"} :
            Enters(q, u, route, claim, step)
    BY <1>6, <2>1 DEF Arrives, Callers, Claims
  <2>3. /\ OnlyMoves(q) /\ request'[q].waited = 0
        /\ request'[q].step \in {"identity", "admitted"}
    BY <1>1, <2>2, Entered DEF OnlyMoves
  <2>4. QED
    BY <1>1, <1>5, <2>3
<1>7. ASSUME NEW q \in Requests, Replies(q) PROVE WaitsAddUp'
  <2>1. /\ OnlyMoves(q) /\ request'[q].step = "done"
        /\ request'[q].waited = request[q].waited /\ request'[q].route = request[q].route
    BY <1>1, <1>7, AnsweredRecord DEF Replies, OnlyMoves
  <2>2. QED
    BY <1>1, <1>4, <2>1
<1>8. ASSUME NEW q \in Requests, GivesUp(q) PROVE WaitsAddUp'
  <2>1. "refused" \in Steps /\ request[q].waited \in Nat /\ request[q] \in RequestRecords
    BY <1>1 DEF Steps, RequestRecords
  <2>2. /\ OnlyMoves(q) /\ request'[q].step = "refused"
        /\ request'[q].waited = request[q].waited /\ request'[q].route = request[q].route
    BY <1>1, <1>8, <2>1, Proceeded DEF GivesUp, OnlyMoves
  <2>3. QED
    BY <1>1, <1>4, <2>2
<1>9. ASSUME NEW q \in Requests, ReadsBatch(q) PROVE WaitsAddUp'
  <2>1. /\ OnlyMoves(q) /\ request'[q].step \in {"done", "batches"}
        /\ request'[q].waited = request[q].waited /\ request'[q].route = request[q].route
    BY <1>1, <1>9, BatchRead
  <2>2. QED
    BY <1>1, <1>4, <2>1
<1>10. ASSUME NEW q \in Requests, NEW f \in Filters, ExportBegins(q, f) PROVE WaitsAddUp'
  BY <1>1, <1>4, <1>10, ExportBegun
<1>11. ASSUME NEW q \in ServiceCalls, Commits(q) PROVE WaitsAddUp'
  BY <1>1, <1>4, <1>11, Committed
<1>12. ASSUME NEW q \in ServiceCalls, ServiceSteps(q) PROVE WaitsAddUp'
  <2>1. ASSUME NEW x \in Transactions, CallbackArrives(q, x) PROVE WaitsAddUp'
    BY <1>1, <1>5, <2>1, CallbackArrived
  <2>2. ASSUME NEW step \in Waiting, PaymentArrives(q, step) PROVE WaitsAddUp'
    BY <1>1, <1>5, <2>2, PaymentArrived DEF PaymentSteps
  <2>3. QED
    BY <1>11, <1>12, <2>1, <2>2 DEF ServiceSteps
<1>13. ASSUME NEW q \in Calls, Answers(q) \/ TimesOut(q) PROVE WaitsAddUp'
  BY <1>3, <1>13, WaitInTime
<1>14. ASSUME NEW q \in Calls, Ends(q) PROVE WaitsAddUp'
  BY <1>5, <1>14, Ended, IdleRecord
<1>15. CASE UNCHANGED request
  BY <1>1, <1>15 DEF WaitsAddUp, InTime
<1>16. QED
  BY <1>6, <1>7, <1>8, <1>9, <1>10, <1>12, <1>13, <1>14, <1>15, StepsOfRequests

\* In every configuration the process accepts at startup, however large its values, a
\* caller's request and a callback are answered within the server's write timeout,
\* even if Duitku, the mail provider and Academic all answer at the last moment: the
\* check of the settings, with its saturating sum, leaves room for the longest chain
\* of waits it counts.  A payment request, which it does not count, may outlast the
\* write timeout, but never by as much as the permission timeout.
THEOREM CountedInTime == Spec => []CountedAnswersInTime
<1>1. Init => WaitsAddUp
  <2>1. ASSUME Init PROVE WaitsAddUp
    <3>1. TypeOK
      BY <2>1, InitTypes
    <3>2. config.write * Second \in Nat \ {0} /\ config.permission \in Nat
      BY <3>1, RoomToWait
    <3>3. \A q \in Calls : request[q] = Idle
      BY <2>1 DEF Init, Calls
    <3>4. QED
      BY <3>2, <3>3, IdleRecord DEF WaitsAddUp, InTime, PaymentSteps
  <2>2. QED
    BY <2>1
<1>2. WaitsAddUp /\ TypeOK /\ RoutesTaken /\ [Next]_vars => WaitsAddUp'
  BY WaitsKeepAddingUp
<1>3. WaitsAddUp => CountedAnswersInTime
  BY DEF WaitsAddUp, InTime, CountedAnswersInTime, Calls
<1>4. QED
  BY <1>1, <1>2, <1>3, TypeInvariant, PTL DEF Spec

-----------------------------------------------------------------------------
(* Answers to the entitled *)

\* Nothing is sent before the first batch is read or the answer given, and the first
\* batch is read from the start.
NothingSent ==
    \A q \in Requests :
        request[q].step \notin {"batches", "done"} =>
            request[q].sent = <<>> /\ request[q].offset = 0

\* Identity consented to every request that was admitted, or it is a parent's; the
\* rows it was answered with are the caller's.
Entitlements ==
    \A q \in Requests :
        /\ request[q].step \in {"admitted", "batches", "done"} => watch[q].entitled
        /\ \A x \in Rows(request[q].sent) : Owns(request[q].caller, x)

\* The right a caller had, or has now that identity answers, is not forgotten while
\* the request is in flight.
LEMMA RightsRemembered ==
    ASSUME Observes, NEW q \in Requests, request'[q].step # "idle"
    PROVE  /\ request[q].step # "idle" /\ watch[q].entitled => watch'[q].entitled
           /\ request[q].step \in {"idle", "identity"} /\ Entitled(q)' => watch'[q].entitled
<1>1. CASE request[q].step = "idle"
  <2>1. watch'[q] = [Unwatched EXCEPT !.entitled = request'[q].step # "idle" /\ Entitled(q)']
    BY <1>1, Zenon DEF Observes
  <2>2. Entitled(q)' => watch'[q].entitled
    BY <2>1, Zenon DEF Unwatched
  <2>3. QED
    BY <1>1, <2>2
<1>2. CASE request[q].step # "idle"
  <2> DEFINE e == watch[q].entitled \/ (request[q].step = "identity" /\ Entitled(q)')
  <2>1. watch'[q] =
          [entitled |-> e,
           stayed   |-> IF Exporting(request[q]) THEN watch[q].stayed \cap Found(q)'
                                                 ELSE Found(q)',
           left     |-> watch[q].left \/ ~(Found(q) \subseteq Found(q)'),
           entered  |-> watch[q].entered
                        \/ (Exporting(request[q]) /\ ~(Found(q)' \subseteq Found(q)))]
    BY <1>2, Zenon DEF Observes
  <2>2. e \in BOOLEAN
    OBVIOUS
  <2>3. watch'[q].entitled = e
    <3> HIDE DEF e
    <3>1. QED
      BY <2>1
  <2>4. QED
    BY <1>2, <2>2, <2>3
<1>3. QED
  BY <1>1, <1>2

\* Identity admits only those who have the right at that moment.
LEMMA AdmittedIsEntitled ==
    ASSUME TypeOK, RoutesTaken, NEW q \in Requests, Answers(q), request[q].step = "identity",
           request'[q].step = "admitted"
    PROVE  Entitled(q)'
<1>1. q \in Calls
  BY DEF Calls
<1>2. request'[q].step \in AfterAnswer(request[q]) \/ request'[q].step = AfterNoAnswer(request[q])
  BY <1>1, Waited
<1>3. Allows(request[q])
  BY <1>2, AnswerLeadsTo, SilenceLeadsTo
<1>4. /\ request'[q].route = request[q].route /\ request'[q].caller = request[q].caller
      /\ request'[q].claim = request[q].claim
  BY <1>1, Waited
<1>5. role' = role /\ factor' = factor
  BY DEF Answers
<1>6. \/ request[q].caller \in Members /\ request[q].caller \notin Admins
      \/ request[q].caller \in Admins
  BY ApiAssumption DEF RoutesTaken
<1>7. QED
  BY <1>3, <1>4, <1>5, <1>6 DEF Allows, CheckActive, CheckPermission, Entitled

\* Every step keeps to what the caller is entitled to.
LEMMA EntitlementsKept ==
    ASSUME TypeOK, RoutesTaken, NothingSent, Entitlements, [Next]_vars
    PROVE  NothingSent' /\ Entitlements'
<1>1. CASE UNCHANGED vars
  BY <1>1 DEF vars, NothingSent, Entitlements
<1>2. CASE Next
  <2>0. /\ Observes /\ Requests \subseteq Calls /\ Requests \cap ServiceCalls = {}
        /\ request \in [Calls -> RequestRecords]
    BY <1>2, ApiAssumption DEF Next, Calls, TypeOK
  \* The requests that do not move keep their rights and their rows.
  <2>1. ASSUME NEW p \in Requests, request'[p] = request[p]
        PROVE  /\ request'[p].step \notin {"batches", "done"} =>
                    request'[p].sent = <<>> /\ request'[p].offset = 0
               /\ request'[p].step \in {"admitted", "batches", "done"} => watch'[p].entitled
               /\ \A x \in Rows(request'[p].sent) : Owns(request'[p].caller, x)
    BY <2>0, <2>1, RightsRemembered DEF NothingSent, Entitlements
  \* So it suffices to look at the one that moves, if it is a caller's.
  <2>2. ASSUME NEW q \in Calls, OnlyMoves(q),
               q \in Requests =>
                 /\ request'[q].step \notin {"batches", "done"} =>
                      request'[q].sent = <<>> /\ request'[q].offset = 0
                 /\ request'[q].step \in {"admitted", "batches", "done"} => watch'[q].entitled
                 /\ \A x \in Rows(request'[q].sent) : Owns(request'[q].caller, x)
        PROVE  NothingSent' /\ Entitlements'
    <3>1. ASSUME NEW p \in Requests
          PROVE  /\ request'[p].step \notin {"batches", "done"} =>
                      request'[p].sent = <<>> /\ request'[p].offset = 0
                 /\ request'[p].step \in {"admitted", "batches", "done"} => watch'[p].entitled
                 /\ \A x \in Rows(request'[p].sent) : Owns(request'[p].caller, x)
      BY <2>0, <2>1, <2>2 DEF OnlyMoves
    <3>2. NothingSent'
      BY <3>1 DEF NothingSent
    <3>3. Entitlements'
      BY <3>1, Zenon DEF Entitlements, Owns
    <3>4. QED
      BY <3>2, <3>3
  \* A request that has sent nothing.
  <2>3. ASSUME NEW q \in Requests, OnlyMoves(q),
               request'[q].step \notin {"batches", "done"},
               request'[q].sent = <<>>, request'[q].offset = 0,
               request'[q].step = "admitted" => watch'[q].entitled
        PROVE  NothingSent' /\ Entitlements'
    <3>1. Rows(request'[q].sent) = {}
      BY <2>3 DEF Rows
    <3>2. QED
      BY <2>0, <2>2, <2>3, <3>1
  <2>4. ASSUME NEW q \in Requests, Arrives(q) PROVE NothingSent' /\ Entitlements'
    <3>1. /\ ParentRoutes \subseteq Routes /\ DOMAIN Permission \subseteq Routes
          /\ "platform" \in Routes
      BY GuardedRoutes DEF Routes, ParentRoutes
    <3>2. PICK u \in Callers, route \in Routes, claim \in Claims,
               step \in {"identity", "admitted"} :
              /\ Enters(q, u, route, claim, step)
              /\ step = "admitted" => u \in Parents
      <4>1. ASSUME NEW u \in Parents, NEW route \in ParentRoutes,
                   Enters(q, u, route, None, "admitted")
            PROVE  \E v \in Callers, o \in Routes, c \in Claims, s \in {"identity", "admitted"} :
                      Enters(q, v, o, c, s) /\ (s = "admitted" => v \in Parents)
        BY <3>1, <4>1 DEF Callers, Claims
      <4>2. ASSUME NEW u \in Members, NEW route \in DOMAIN Permission, NEW r \in Roles,
                   Enters(q, u, route, r, "identity")
            PROVE  \E v \in Callers, o \in Routes, c \in Claims, s \in {"identity", "admitted"} :
                      Enters(q, v, o, c, s) /\ (s = "admitted" => v \in Parents)
        BY <3>1, <4>2 DEF Callers, Claims
      <4>3. ASSUME NEW u \in Admins, NEW v \in 1..MaxFactor,
                   Enters(q, u, "platform", v, "identity")
            PROVE  \E x \in Callers, o \in Routes, c \in Claims, s \in {"identity", "admitted"} :
                      Enters(q, x, o, c, s) /\ (s = "admitted" => x \in Parents)
        BY <3>1, <4>3 DEF Callers, Claims
      <4>4. QED
        BY <2>4, <4>1, <4>2, <4>3 DEF Arrives
    <3>3. /\ OnlyMoves(q) /\ request'[q].step = step /\ request'[q].caller = u
          /\ request'[q].sent = <<>> /\ request'[q].offset = 0
      BY <2>0, <3>2, Entered DEF OnlyMoves
    <3>4. step = "admitted" => watch'[q].entitled
      <4>1. step = "admitted" => Entitled(q)'
        BY <3>2, <3>3 DEF Entitled
      <4>2. QED
        BY <2>0, <2>4, <3>3, <4>1, RightsRemembered DEF Arrives
    <3>5. QED
      BY <2>3, <3>3, <3>4
  <2>5. ASSUME NEW q \in Requests, Replies(q) PROVE NothingSent' /\ Entitlements'
    <3>1. PICK s \in Seq(Transactions \cup Resources) :
            Answered(q, s) /\ \A x \in Rows(s) : Owns(request[q].caller, x)
      BY <2>5 DEF Replies
    <3>2. /\ OnlyMoves(q) /\ request'[q].step = "done" /\ request'[q].sent = s
          /\ request'[q].caller = request[q].caller
      BY <2>0, <3>1, AnsweredRecord DEF OnlyMoves
    <3>3. watch'[q].entitled
      BY <2>0, <2>5, <3>2, RightsRemembered DEF Replies, Entitlements
    <3>4. QED
      BY <2>0, <2>2, <3>1, <3>2, <3>3
  <2>6. ASSUME NEW q \in Requests, GivesUp(q) PROVE NothingSent' /\ Entitlements'
    <3>1. "refused" \in Steps /\ request[q].waited \in Nat /\ request[q] \in RequestRecords
      BY <2>0 DEF Steps, RequestRecords
    <3>2. /\ OnlyMoves(q) /\ request'[q].step = "refused"
          /\ request'[q].sent = <<>> /\ request'[q].offset = 0
      BY <2>0, <2>6, <3>1, Proceeded DEF GivesUp, OnlyMoves
    <3>3. QED
      BY <2>3, <3>2
  <2>7. ASSUME NEW q \in Requests, ReadsBatch(q) PROVE NothingSent' /\ Entitlements'
    <3> DEFINE M == Matching(Home[request[q].caller], request[q].filter)
               c == Chronology(request[q].filter)
    <3>0. request[q].step = "batches"
      BY <2>7 DEF ReadsBatch
    <3>1. PICK s \in Orders(M, c) :
             LET batch == Piece(s, request[q].offset + 1, BatchSize) IN
             /\ OnlyMoves(q)
             /\ batch \in Seq(Transactions)
             /\ request'[q].sent = request[q].sent \o batch
             /\ request'[q].step = IF Len(batch) < BatchSize THEN "done" ELSE "batches"
             /\ request'[q].caller = request[q].caller
      BY <2>0, <2>7, BatchRead
    <3> DEFINE batch == Piece(s, request[q].offset + 1, BatchSize)
    <3>2. request[q].caller \in Members
      BY <3>0 DEF RoutesTaken, ParentRoutes
    <3>3. \A x \in M : Owns(request[q].caller, x)
      BY <3>2 DEF Matching, Owns
    <3>4. batch \in Seq(M)
      <4>1. s \in Seq(M)
        <5>1. M \subseteq Transactions
          BY DEF Matching
        <5> HIDE DEF M, c
        <5>2. QED
          BY <5>1, TransactionsFinite, OrderIsSequence
      <4>2. request[q].offset + 1 \in Nat \ {0} /\ BatchSize \in Nat
        BY <2>0, ApiAssumption DEF RequestRecords
      <4> HIDE DEF M, c
      <4>3. QED
        BY <4>1, <4>2, PieceProperties
    <3> HIDE DEF batch, M, c
    <3>5. \A x \in Rows(batch) : Owns(request[q].caller, x)
      BY <3>3, <3>4, RowsOfSequence
    <3>6. /\ batch \in Seq(Transactions \cup Resources)
          /\ request[q].sent \in Seq(Transactions \cup Resources)
      BY <2>0, <3>1, SeqMonotonic DEF RequestRecords, batch
    <3>7. Rows(request[q].sent \o batch) \subseteq Rows(request[q].sent) \cup Rows(batch)
      BY <3>6, ConcatProperties, LenProperties DEF Rows
    <3>8. /\ OnlyMoves(q) /\ request'[q].sent = request[q].sent \o batch
          /\ request'[q].step \in {"done", "batches"} /\ request'[q].caller = request[q].caller
      BY <3>1 DEF batch
    <3>9. \A x \in Rows(request'[q].sent) : Owns(request'[q].caller, x)
      BY <3>5, <3>7, <3>8 DEF Entitlements
    <3>10. watch'[q].entitled
      BY <2>0, <3>0, <3>8, RightsRemembered DEF Entitlements
    <3>11. QED
      BY <2>0, <2>2, <3>8, <3>9, <3>10
  <2>8. ASSUME NEW q \in Requests, NEW f \in Filters, ExportBegins(q, f)
        PROVE  NothingSent' /\ Entitlements'
    <3>1. /\ OnlyMoves(q) /\ request[q].step = "admitted" /\ request'[q].step = "batches"
          /\ request'[q].caller = request[q].caller /\ request'[q].sent = request[q].sent
      BY <2>0, <2>8, ExportBegun
    <3>2. watch'[q].entitled
      BY <2>0, <3>1, RightsRemembered DEF Entitlements
    <3>3. \A x \in Rows(request'[q].sent) : Owns(request'[q].caller, x)
      BY <3>1 DEF Entitlements
    <3>4. QED
      BY <2>0, <2>2, <3>1, <3>2, <3>3
  <2>9. ASSUME NEW q \in ServiceCalls, ServiceSteps(q) PROVE NothingSent' /\ Entitlements'
    <3>1. q \in Calls /\ q \notin Requests
      BY <2>0 DEF Calls
    <3>2. OnlyMoves(q)
      BY <2>9, <3>1, Committed, CallbackArrived, PaymentArrived DEF ServiceSteps
    <3>3. QED
      BY <2>2, <3>1, <3>2
  <2>10. ASSUME NEW q \in Calls, Answers(q) \/ TimesOut(q) PROVE NothingSent' /\ Entitlements'
    <3>1. CASE q \notin Requests
      BY <2>2, <2>10, <3>1, Waited
    <3>2. CASE q \in Requests
      <4>1. OnlyMoves(q) /\ request[q].step = "identity"
            /\ request'[q].step \in {"admitted", "refused"}
        BY <2>10, <3>2, Waited, CallersWaitForIdentity
      <4>2. request'[q].sent = <<>> /\ request'[q].offset = 0
        BY <2>10, <3>2, <4>1, Waited DEF NothingSent
      <4>3. request'[q].step = "admitted" => watch'[q].entitled
        <5>1. ASSUME request'[q].step = "admitted" PROVE watch'[q].entitled
          <6>1. AfterNoAnswer(request[q]) = "refused"
            BY <4>1, SilenceLeadsTo
          <6>2. Answers(q)
            BY <2>10, <5>1, <6>1, Waited
          <6>3. Entitled(q)'
            BY <3>2, <4>1, <5>1, <6>2, AdmittedIsEntitled
          <6>4. QED
            BY <2>0, <3>2, <4>1, <5>1, <6>3, RightsRemembered
        <5>2. QED
          BY <5>1
      <4>4. QED
        BY <2>3, <3>2, <4>1, <4>2, <4>3
    <3>3. QED
      BY <3>1, <3>2
  <2>11. ASSUME NEW q \in Calls, Ends(q) PROVE NothingSent' /\ Entitlements'
    <3>1. /\ OnlyMoves(q) /\ request'[q].step = "idle"
          /\ request'[q].sent = <<>> /\ request'[q].offset = 0
      BY <2>11, Ended, IdleRecord
    <3>2. QED
      BY <2>2, <2>3, <3>1
  <2>12. CASE UNCHANGED request
    <3>1. ASSUME NEW p \in Requests
          PROVE  /\ request'[p].step \notin {"batches", "done"} =>
                      request'[p].sent = <<>> /\ request'[p].offset = 0
                 /\ request'[p].step \in {"admitted", "batches", "done"} => watch'[p].entitled
                 /\ \A x \in Rows(request'[p].sent) : Owns(request'[p].caller, x)
      BY <2>1, <2>12
    <3>2. NothingSent'
      BY <3>1 DEF NothingSent
    <3>3. Entitlements'
      BY <3>1, Zenon DEF Entitlements, Owns
    <3>4. QED
      BY <3>2, <3>3
  <2>13. QED
    BY <2>4, <2>5, <2>6, <2>7, <2>8, <2>9, <2>10, <2>11, <2>12, StepsOfRequests
<1>3. QED
  BY <1>1, <1>2

\* What is sent, and to whom, on top of the types.
LEMMA EntitlementInvariant == Spec => [](NothingSent /\ Entitlements)
<1>1. Init => NothingSent /\ Entitlements
  <2>1. ASSUME Init, NEW q \in Requests
        PROVE  request[q] = Idle /\ Rows(request[q].sent) = {}
    BY <2>1, IdleRecord DEF Init, Rows
  <2>2. QED
    BY <2>1, IdleRecord DEF NothingSent, Entitlements
<1>2. NothingSent /\ Entitlements /\ TypeOK /\ RoutesTaken /\ [Next]_vars
        => (NothingSent /\ Entitlements)'
  BY EntitlementsKept
<1>3. QED
  BY <1>1, <1>2, TypeInvariant, PTL DEF Spec

\* Whatever token a caller presents, of whatever tenant and however old, the rows it
\* is answered with are its own, and identity granted the right to them, or the
\* caller is their parent, at some moment while the request was in flight.
THEOREM AlwaysEntitled == Spec => []AnsweredAsEntitled
<1>1. TypeOK /\ NothingSent /\ Entitlements => AnsweredAsEntitled
  <2>1. ASSUME TypeOK, NothingSent, Entitlements, NEW q \in Requests,
               NEW x \in Rows(request[q].sent)
        PROVE  watch[q].entitled /\ Owns(request[q].caller, x)
    <3>1. request[q].sent # <<>>
      BY DEF Rows
    <3>2. request[q].step \in {"batches", "done"}
      BY <2>1, <3>1 DEF NothingSent
    <3>3. QED
      BY <2>1, <3>2 DEF Entitlements
  <2>2. QED
    BY <2>1 DEF AnsweredAsEntitled
<1>2. QED
  BY <1>1, TypeInvariant, EntitlementInvariant, PTL

-----------------------------------------------------------------------------
(* The order of an export *)

\* An order of a finite set has every element of it, each once.
LEMMA OrderCovers ==
    ASSUME NEW S, IsFiniteSet(S), NEW before, NEW s \in Orders(S, before)
    PROVE  \A x \in S : \E i \in 1..Cardinality(S) : s[i] = x
<1>1. /\ Cardinality(S) \in Nat /\ s \in [1..Cardinality(S) -> S]
      /\ \A i, j \in 1..Cardinality(S) : i < j => s[i] # s[j]
  BY OrderIsSequence DEF Orders
<1>2. \A i, j \in 1..Cardinality(S) : s[i] = s[j] => i = j
  BY <1>1
<1>3. s \in Injection(1..Cardinality(S), S)
  BY <1>1, <1>2, Fun_IsInj
<1>4. Cardinality(1..Cardinality(S)) = Cardinality(S)
  BY <1>1, FS_Interval
<1>5. s \in Surjection(1..Cardinality(S), S)
  BY <1>3, <1>4, FS_Injection
<1>6. QED
  BY <1>5 DEF Surjection

\* If the order decides between any two elements, the place of each is the number of
\* those before it.
LEMMA PlaceInOrder ==
    ASSUME NEW S, IsFiniteSet(S), NEW before, NEW s \in Orders(S, before),
           \A x, y \in S : x # y => <<x, y>> \in before \/ <<y, x>> \in before,
           \A x, y \in S : ~(<<x, y>> \in before /\ <<y, x>> \in before),
           NEW i \in 1..Cardinality(S)
    PROVE  Cardinality({y \in S : <<y, s[i]>> \in before}) = i - 1
<1> DEFINE A == {y \in S : <<y, s[i]>> \in before}
           g == [j \in 1..(i - 1) |-> s[j]]
<1>1. /\ Cardinality(S) \in Nat /\ s \in [1..Cardinality(S) -> S]
      /\ \A j, k \in 1..Cardinality(S) : j < k => s[j] # s[k] /\ <<s[k], s[j]>> \notin before
  BY OrderIsSequence DEF Orders
<1>2. \A j \in 1..(i - 1) : j \in 1..Cardinality(S) /\ j < i
  BY <1>1
<1>3. \A j \in 1..(i - 1) : s[j] \in A
  BY <1>1, <1>2
<1>4. \A y \in A : \E j \in 1..(i - 1) : s[j] = y
  <2>1. ASSUME NEW y \in A PROVE \E j \in 1..(i - 1) : s[j] = y
    <3>1. PICK k \in 1..Cardinality(S) : s[k] = y
      BY OrderCovers
    <3>2. k # i
      BY <1>1, <3>1
    <3>3. ~(i < k)
      BY <1>1, <3>1
    <3>4. k \in 1..(i - 1)
      BY <1>1, <3>2, <3>3
    <3>5. QED
      BY <3>1, <3>4
  <2>2. QED
    BY <2>1
<1>5. \A j, k \in 1..(i - 1) : s[j] = s[k] => j = k
  <2> TAKE j, k \in 1..(i - 1)
  <2>1. j \in 1..Cardinality(S) /\ k \in 1..Cardinality(S) /\ j \in Int /\ k \in Int
    BY <1>2
  <2>2. (j < k => s[j] # s[k]) /\ (k < j => s[k] # s[j])
    BY <1>1, <2>1
  <2>3. QED
    BY <2>1, <2>2
<1> HIDE DEF A
<1>6. g \in [1..(i - 1) -> A] /\ \A j, k \in 1..(i - 1) : g[j] = g[k] => j = k
  BY <1>3, <1>5
<1>7. \A y \in A : \E j \in 1..(i - 1) : g[j] = y
  BY <1>4
<1> HIDE DEF g
<1>8. g \in Bijection(1..(i - 1), A)
  BY <1>6, <1>7, Fun_IsBij
<1>9. ExistsBijection(1..(i - 1), A)
  BY <1>8, Fun_ExistsBij
<1>10. IsFiniteSet(1..(i - 1)) /\ Cardinality(1..(i - 1)) = i - 1
  <2>1. 1 \in Int /\ i - 1 \in Int /\ i >= 1
    BY <1>1
  <2>2. IsFiniteSet(1..(i - 1))
        /\ Cardinality(1..(i - 1)) = IF 1 > i - 1 THEN 0 ELSE (i - 1) - 1 + 1
    BY <2>1, FS_Interval
  <2>3. QED
    BY <2>1, <2>2
<1>11. QED
  BY <1>9, <1>10, FS_Bijection DEF A

\* Time and then the id decide between any two transactions.
LEMMA ChronologyDecides ==
    ASSUME TypeOK, NEW f, NEW x \in Transactions, NEW y \in Transactions
    PROVE  /\ x # y => Precedes(x, y, f) \/ Precedes(y, x, f)
           /\ ~(Precedes(x, y, f) /\ Precedes(y, x, f))
<1>1. x \in Nat /\ y \in Nat
  BY ApiAssumption
<1>2. Instant(x, f) \in Int /\ Instant(y, f) \in Int
  <2>1. row[x] \in RowRecords /\ row[y] \in RowRecords
    BY DEF TypeOK, RowRecords
  <2>2. /\ row[x].paid \in Int /\ row[x].created \in Int
        /\ row[y].paid \in Int /\ row[y].created \in Int
    <3>1. {Never} \cup 0..MaxTime \subseteq Int
      BY ApiAssumption DEF Never
    <3>2. QED
      BY <2>1, <3>1 DEF RowRecords
  <2>3. QED
    BY <2>2 DEF Instant
<1>3. QED
  BY <1>1, <1>2 DEF Precedes

\* The rows an export will come to before it comes to x.
Ahead(q, x) == {y \in Found(q) : Precedes(y, x, request[q].filter)}

\* There are finitely many rows to find, and fewer before each.
LEMMA FoundFinite ==
    ASSUME NEW q, NEW x
    PROVE  /\ Found(q) \subseteq Transactions
           /\ IsFiniteSet(Found(q)) /\ Cardinality(Found(q)) \in Nat
           /\ IsFiniteSet(Ahead(q, x)) /\ Cardinality(Ahead(q, x)) \in Nat
<1>1. Found(q) \subseteq Transactions /\ Ahead(q, x) \subseteq Transactions
  BY DEF Found, Matching, Ahead
<1>2. QED
  BY <1>1, TransactionsFinite, FS_CardinalityType

\* In a batch query's order the place of a row is the number of rows ahead of it.
LEMMA PlaceInExport ==
    ASSUME TypeOK, NEW q, NEW s \in Orders(Found(q), Chronology(request[q].filter))
    PROVE  /\ \A i \in 1..Cardinality(Found(q)) :
                s[i] \in Found(q) /\ Cardinality(Ahead(q, s[i])) = i - 1
           /\ \A x \in Found(q) : \E i \in 1..Cardinality(Found(q)) : s[i] = x
<1> DEFINE S == Found(q)
           c == Chronology(request[q].filter)
<1>1. S \subseteq Transactions /\ IsFiniteSet(S)
  BY FoundFinite
<1>2. \A x, y \in S : <<x, y>> \in c <=> Precedes(x, y, request[q].filter)
  BY <1>1 DEF Chronology
<1>3. /\ \A x, y \in S : x # y => <<x, y>> \in c \/ <<y, x>> \in c
      /\ \A x, y \in S : ~(<<x, y>> \in c /\ <<y, x>> \in c)
  BY <1>1, <1>2, ChronologyDecides
<1>4. s \in [1..Cardinality(S) -> S]
  BY DEF Orders
<1>5. \A i \in 1..Cardinality(S) : Ahead(q, s[i]) = {y \in S : <<y, s[i]>> \in c}
  BY <1>2, <1>4 DEF Ahead
<1>6. s \in Orders(S, c)
  OBVIOUS
<1> HIDE DEF S, c
<1>7. \A i \in 1..Cardinality(S) : Cardinality({y \in S : <<y, s[i]>> \in c}) = i - 1
  BY <1>1, <1>3, <1>6, PlaceInOrder
<1>8. \A x \in S : \E i \in 1..Cardinality(S) : s[i] = x
  BY <1>1, <1>6, OrderCovers
<1>9. QED
  BY <1>4, <1>5, <1>7, <1>8 DEF S

-----------------------------------------------------------------------------
(* Exports while the table changes *)

\* An export that is under way after a step began in it, read a batch in it, or did
\* not move.
LEMMA ExportMoves ==
    ASSUME TypeOK, RoutesTaken, [Next]_vars, NEW q \in Requests, Exporting(request'[q])
    PROVE  \/ ReadsBatch(q)
           \/ \E f \in Filters : ExportBegins(q, f)
           \/ request'[q] = request[q]
<1>1. /\ Requests \subseteq Calls /\ ServiceCalls \subseteq Calls /\ Requests \cap ServiceCalls = {}
      /\ request \in [Calls -> RequestRecords]
      /\ request'[q].route = "export" /\ request'[q].step \in {"batches", "done"}
  BY ApiAssumption DEF Calls, TypeOK, Exporting
\* A request that is not q leaves it as it was.
<1>2. ASSUME NEW p \in Calls, OnlyMoves(p), p # q PROVE request'[q] = request[q]
  BY <1>1, <1>2 DEF OnlyMoves
<1>3. ASSUME NEW p \in Requests, Arrives(p) PROVE request'[q] = request[q]
  <2>1. ParentRoutes \subseteq Routes /\ DOMAIN Permission \subseteq Routes /\ "platform" \in Routes
    BY GuardedRoutes DEF Routes, ParentRoutes
  <2>2. \E u \in Callers, route \in Routes, claim \in Claims, step \in {"identity", "admitted"} :
            Enters(p, u, route, claim, step)
    BY <1>3, <2>1 DEF Arrives, Callers, Claims
  <2>3. OnlyMoves(p) /\ request'[p].step \in {"identity", "admitted"}
    BY <1>1, <2>2, Entered DEF OnlyMoves
  <2>4. QED
    BY <1>1, <1>2, <2>3
<1>4. ASSUME NEW p \in Requests, Replies(p) PROVE request'[q] = request[q]
  <2>1. OnlyMoves(p) /\ request'[p].route = request[p].route /\ request[p].route # "export"
    BY <1>1, <1>4, AnsweredRecord DEF Replies, OnlyMoves
  <2>2. QED
    BY <1>1, <1>2, <2>1
<1>5. ASSUME NEW p \in Requests, GivesUp(p) PROVE request'[q] = request[q]
  <2>1. "refused" \in Steps /\ request[p].waited \in Nat /\ request[p] \in RequestRecords
    BY <1>1 DEF Steps, RequestRecords
  <2>2. OnlyMoves(p) /\ request'[p].step = "refused"
    BY <1>1, <1>5, <2>1, Proceeded DEF GivesUp, OnlyMoves
  <2>3. QED
    BY <1>1, <1>2, <2>2
<1>6. ASSUME NEW p \in Requests, ReadsBatch(p)
      PROVE  ReadsBatch(q) \/ request'[q] = request[q]
  BY <1>1, <1>2, <1>6, BatchRead
<1>7. ASSUME NEW p \in Requests, NEW f \in Filters, ExportBegins(p, f)
      PROVE  ExportBegins(q, f) \/ request'[q] = request[q]
  BY <1>1, <1>2, <1>7, ExportBegun
<1>8. ASSUME NEW p \in ServiceCalls, ServiceSteps(p) PROVE request'[q] = request[q]
  <2>1. p \in Calls /\ p # q
    BY <1>1
  <2>2. OnlyMoves(p)
    BY <1>8, <2>1, Committed, CallbackArrived, PaymentArrived DEF ServiceSteps
  <2>3. QED
    BY <1>2, <2>1, <2>2
<1>9. ASSUME NEW p \in Calls, Answers(p) \/ TimesOut(p) PROVE request'[q] = request[q]
  BY <1>1, <1>2, <1>9, Waited, CallersWaitForIdentity
<1>10. ASSUME NEW p \in Calls, Ends(p) PROVE request'[q] = request[q]
  BY <1>1, <1>2, <1>10, Ended, IdleRecord
<1>11. QED
  BY <1>3, <1>4, <1>5, <1>6, <1>7, <1>8, <1>9, <1>10, StepsOfRequests

\* What is remembered of the table while an export is under way.
LEMMA TableObserved ==
    ASSUME TypeOK, Observes, NEW q \in Requests,
           request[q].step # "idle", request'[q].step # "idle"
    PROVE  /\ watch'[q].stayed = IF Exporting(request[q]) THEN watch[q].stayed \cap Found(q)'
                                                          ELSE Found(q)'
           /\ ~watch'[q].left => ~watch[q].left /\ Found(q) \subseteq Found(q)'
           /\ ~watch'[q].entered =>
                ~watch[q].entered /\ (Exporting(request[q]) => Found(q)' \subseteq Found(q))
<1> DEFINE e == watch[q].entitled \/ (request[q].step = "identity" /\ Entitled(q)')
           s == IF Exporting(request[q]) THEN watch[q].stayed \cap Found(q)' ELSE Found(q)'
           l == watch[q].left \/ ~(Found(q) \subseteq Found(q)')
           n == watch[q].entered \/ (Exporting(request[q]) /\ ~(Found(q)' \subseteq Found(q)))
<1>1. watch'[q] = [entitled |-> e, stayed |-> s, left |-> l, entered |-> n]
  BY Zenon DEF Observes
<1>2. l \in BOOLEAN /\ n \in BOOLEAN
  OBVIOUS
<1>3. watch'[q].stayed = s /\ watch'[q].left = l /\ watch'[q].entered = n
  <2> HIDE DEF e, s, l, n
  <2>1. QED
    BY <1>1
<1>4. /\ ~l => ~watch[q].left /\ Found(q) \subseteq Found(q)'
      /\ ~n => ~watch[q].entered /\ (Exporting(request[q]) => Found(q)' \subseteq Found(q))
  OBVIOUS
<1> HIDE DEF l, n
<1>5. QED
  BY <1>2, <1>3, <1>4

\* A row that an export finds before and after a step is the same row, so that it
\* stays behind the rows it was behind.
LEMMA FoundRowsStay ==
    ASSUME TypeOK, [Next]_vars, NEW q \in Requests, request'[q] = request[q],
           Found(q) \subseteq Found(q)', NEW x \in Found(q)
    PROVE  /\ Ahead(q, x) \subseteq Ahead(q, x)'
           /\ Found(q)' \subseteq Found(q) => Ahead(q, x)' = Ahead(q, x)
<1> DEFINE f == request[q].filter
<1>1. \A y \in Found(q) : row'[y] = row[y]
  <2>1. ASSUME NEW y \in Found(q) PROVE row'[y] = row[y]
    <3>1. y \in Transactions /\ row[y].status = f.status
      BY DEF Found, Matching
    <3>2. row'[y].status = f.status
      <4>1. y \in Found(q)'
        BY <2>1
      <4>2. QED
        BY <4>1 DEF Found, Matching
    <3>3. QED
      BY <3>1, <3>2, RowStep
  <2>2. QED
    BY <2>1
<1>2. \A y \in Found(q) : Precedes(y, x, f)' <=> Precedes(y, x, f)
  BY <1>1 DEF Precedes, Instant
<1>3. Ahead(q, x)' = {y \in Found(q)' : Precedes(y, x, f)'}
  BY DEF Ahead
<1>4. Ahead(q, x) = {y \in Found(q) : Precedes(y, x, f)}
  BY DEF Ahead
<1>5. QED
  BY <1>2, <1>3, <1>4

\* What a batch read adds: the rows at the places from the offset on.
LEMMA BatchAdds ==
    ASSUME TypeOK, RoutesTaken, NEW q \in Requests, ReadsBatch(q)
    PROVE  /\ Exporting(request[q]) /\ request[q].step = "batches"
           /\ Found(q)' = Found(q) /\ \A x : Ahead(q, x)' = Ahead(q, x)
           /\ \E s \in [1..Cardinality(Found(q)) -> Found(q)], batch \in Seq(Transactions) :
                /\ \A i \in 1..Cardinality(Found(q)) : Cardinality(Ahead(q, s[i])) = i - 1
                /\ \A x \in Found(q) : \E i \in 1..Cardinality(Found(q)) : s[i] = x
                /\ \A k \in 1..Len(batch) :
                     /\ request[q].offset + k \in 1..Cardinality(Found(q))
                     /\ batch[k] = s[request[q].offset + k]
                /\ request'[q].sent = request[q].sent \o batch
                /\ request'[q].offset = request[q].offset + BatchSize
                /\ \/ request'[q].step = "batches" /\ Len(batch) = BatchSize
                   \/ /\ request'[q].step = "done"
                      /\ Len(batch) < BatchSize
                      /\ request[q].offset + Len(batch) >= Cardinality(Found(q))
<1> DEFINE f == request[q].filter
           o == request[q].offset
           n == Cardinality(Found(q))
<1>1. request[q].step = "batches" /\ row' = row
  BY DEF ReadsBatch
<1>2. request[q].route = "export" /\ Exporting(request[q])
  BY <1>1 DEF RoutesTaken, Exporting
<1>3. Found(q) = Matching(Home[request[q].caller], f)
  BY <1>2 DEF Found
<1>4. PICK s \in Orders(Found(q), Chronology(f)) :
             LET batch == Piece(s, o + 1, BatchSize) IN
             /\ batch \in Seq(Transactions)
             /\ request'[q].sent = request[q].sent \o batch
             /\ request'[q].offset = o + BatchSize
             /\ request'[q].step = IF Len(batch) < BatchSize THEN "done" ELSE "batches"
             /\ request'[q].filter = f /\ request'[q].route = request[q].route
             /\ request'[q].caller = request[q].caller
  <2>1. q \in Calls
    BY DEF Calls
  <2>2. QED
    BY <1>3, <2>1, BatchRead
<1> DEFINE batch == Piece(s, o + 1, BatchSize)
<1>5. Exporting(request'[q])
  BY <1>2, <1>4 DEF Exporting
<1>6. Found(q)' = Found(q)
  <2>1. Found(q)' = Matching(Home[request[q].caller], f)'
    BY <1>4, <1>5 DEF Found
  <2>2. \A x \in Transactions : Instant(x, f)' = Instant(x, f)
    BY <1>1, <1>4 DEF Instant
  <2>3. QED
    BY <1>1, <1>3, <1>4, <2>1, <2>2 DEF Matching
<1>7. \A x : Ahead(q, x)' = Ahead(q, x)
  BY <1>1, <1>4, <1>6 DEF Ahead, Precedes, Instant
<1>8. /\ s \in [1..n -> Found(q)] /\ n \in Nat /\ s \in Seq(Found(q)) /\ Len(s) = n
      /\ \A i \in 1..n : Cardinality(Ahead(q, s[i])) = i - 1
      /\ \A x \in Found(q) : \E i \in 1..n : s[i] = x
  <2>1. s \in [1..n -> Found(q)]
    BY DEF Orders
  <2>2. IsFiniteSet(Found(q)) /\ n \in Nat
    BY FoundFinite
  <2>3. s \in Seq(Found(q)) /\ Len(s) = n
    BY <2>2, OrderIsSequence
  <2>4. /\ \A i \in 1..n : Cardinality(Ahead(q, s[i])) = i - 1
        /\ \A x \in Found(q) : \E i \in 1..n : s[i] = x
    BY PlaceInExport
  <2>5. QED
    BY <2>1, <2>2, <2>3, <2>4
<1>9. o \in Nat /\ BatchSize \in Nat \ {0}
  BY ApiAssumption DEF TypeOK, RequestRecords
<1> HIDE DEF o, n
<1>10. /\ Len(batch) = IF o + 1 <= PieceEnd(s, o + 1, BatchSize)
                       THEN PieceEnd(s, o + 1, BatchSize) - (o + 1) + 1 ELSE 0
       /\ \A i \in 1..(PieceEnd(s, o + 1, BatchSize) - (o + 1) + 1) : batch[i] = s[o + 1 + i - 1]
  <2>1. o + 1 \in Nat \ {0} /\ BatchSize \in Nat
    BY <1>9
  <2> DEFINE S == Found(q)
             first == o + 1
  <2>2. s \in Seq(S) /\ first \in Nat \ {0} /\ BatchSize \in Nat
    BY <1>8, <2>1
  <2> HIDE DEF S, first, batch
  <2>3. /\ Len(Piece(s, first, BatchSize)) =
             IF first <= PieceEnd(s, first, BatchSize)
             THEN PieceEnd(s, first, BatchSize) - first + 1 ELSE 0
        /\ \A i \in 1..(PieceEnd(s, first, BatchSize) - first + 1) :
             Piece(s, first, BatchSize)[i] = s[first + i - 1]
    BY ONLY <2>2, PieceProperties
  <2>4. QED
    BY <2>3 DEF first, batch
<1> HIDE DEF batch
<1>11. \/ o + BatchSize <= n /\ Len(batch) = BatchSize
       \/ o + BatchSize > n /\ o < n /\ Len(batch) = n - o
       \/ o + BatchSize > n /\ o >= n /\ Len(batch) = 0
  BY <1>8, <1>9, <1>10 DEF PieceEnd
<1>12. \A k \in 1..Len(batch) : o + k \in 1..n /\ batch[k] = s[o + k]
  <2> TAKE k \in 1..Len(batch)
  <2>1. CASE o + BatchSize <= n
    <3>1. k \in 1..BatchSize /\ o + k \in 1..n
      BY <1>8, <1>9, <1>11, <2>1
    <3>2. batch[k] = s[o + 1 + k - 1]
      BY <1>8, <1>9, <1>10, <2>1, <3>1 DEF PieceEnd
    <3>3. QED
      BY <1>9, <3>1, <3>2
  <2>2. CASE o + BatchSize > n
    <3>1. o < n /\ k \in 1..(n - o) /\ o + k \in 1..n
      BY <1>8, <1>9, <1>11, <2>2
    <3>2. batch[k] = s[o + 1 + k - 1]
      BY <1>8, <1>9, <1>10, <2>2, <3>1 DEF PieceEnd
    <3>3. QED
      BY <1>9, <3>1, <3>2
  <2>3. QED
    BY <1>8, <1>9, <2>1, <2>2
<1>13. /\ batch \in Seq(Transactions) /\ request'[q].sent = request[q].sent \o batch
       /\ request'[q].offset = o + BatchSize
       /\ request'[q].step = IF Len(batch) < BatchSize THEN "done" ELSE "batches"
  BY <1>4 DEF batch
<1>14. \/ request'[q].step = "batches" /\ Len(batch) = BatchSize
       \/ /\ request'[q].step = "done" /\ Len(batch) < BatchSize
          /\ o + Len(batch) >= n
  BY <1>8, <1>9, <1>11, <1>13
<1>15. QED
  BY <1>1, <1>2, <1>6, <1>7, <1>8, <1>12, <1>13, <1>14 DEF o, n

\* A row that matched all along and was not sent yet is still to come: the rows ahead
\* of it are at least as many as the offset.  Hence none is left when a batch is short.
StaysAhead(q) ==
    Exporting(request[q]) /\ ~watch[q].left =>
        /\ watch[q].stayed \subseteq Found(q)
        /\ \A x \in watch[q].stayed \ Rows(request[q].sent) :
              request[q].step = "batches" /\ Cardinality(Ahead(q, x)) >= request[q].offset

\* While the same rows match, each row was sent at its place among them.
InPlace(q) ==
    Exporting(request[q]) /\ ~watch[q].left /\ ~watch[q].entered =>
        /\ Len(request[q].sent) = IF request[q].step = "batches" THEN request[q].offset
                                                                 ELSE Cardinality(Found(q))
        /\ Len(request[q].sent) <= Cardinality(Found(q))
        /\ \A i \in 1..Len(request[q].sent) :
              /\ request[q].sent[i] \in Found(q)
              /\ Cardinality(Ahead(q, request[q].sent[i])) = i - 1

\* A change of the table moves no row that stays to a place before the offset.
LEMMA TableChanges ==
    ASSUME TypeOK, NEW q \in Requests, Next, request'[q] = request[q], Exporting(request[q])
    PROVE  /\ StaysAhead(q) => StaysAhead(q)'
           /\ InPlace(q) => InPlace(q)'
<1> DEFINE sent == request[q].sent
<1>1. request[q].step # "idle" /\ request'[q].step # "idle" /\ Exporting(request'[q])
  BY DEF Exporting
<1>2. Observes
  BY DEF Next
<1>3. /\ watch'[q].stayed = watch[q].stayed \cap Found(q)'
      /\ ~watch'[q].left => ~watch[q].left /\ Found(q) \subseteq Found(q)'
      /\ ~watch'[q].entered => ~watch[q].entered /\ Found(q)' \subseteq Found(q)
  BY <1>1, <1>2, TableObserved
<1>4. ASSUME StaysAhead(q), ~watch'[q].left
      PROVE  /\ watch'[q].stayed \subseteq Found(q)'
             /\ \A x \in watch'[q].stayed \ Rows(request'[q].sent) :
                  request'[q].step = "batches" /\ Cardinality(Ahead(q, x)') >= request'[q].offset
  <2>1. watch'[q].stayed \subseteq Found(q)'
    BY <1>3
  <2>2. ASSUME NEW x \in watch'[q].stayed \ Rows(request'[q].sent)
        PROVE  request'[q].step = "batches" /\ Cardinality(Ahead(q, x)') >= request'[q].offset
    <3>1. x \in watch[q].stayed \ Rows(request[q].sent) /\ x \in Found(q)
      BY <1>3, <1>4, <2>2 DEF StaysAhead, Rows
    <3>2. request[q].step = "batches" /\ Cardinality(Ahead(q, x)) >= request[q].offset
      BY <1>3, <1>4, <3>1 DEF StaysAhead
    <3>3. Ahead(q, x) \subseteq Ahead(q, x)'
      BY <1>3, <1>4, <3>1, FoundRowsStay
    <3>4. Ahead(q, x)' \subseteq Transactions
      BY DEF Ahead, Found, Matching
    <3> DEFINE A == Ahead(q, x)
               B == Ahead(q, x)'
    <3>5. A \subseteq B /\ B \subseteq Transactions
      BY <3>3, <3>4
    <3> HIDE DEF A, B
    <3>6. Cardinality(A) <= Cardinality(B) /\ Cardinality(A) \in Nat /\ Cardinality(B) \in Nat
      BY <3>5, TransactionsFinite, FS_Subset, FS_CardinalityType
    <3>7. request[q].offset \in Nat
      BY DEF TypeOK, RequestRecords
    <3>8. Cardinality(B) >= request[q].offset
      BY <3>2, <3>6, <3>7 DEF A
    <3>9. QED
      BY <3>2, <3>8 DEF B
  <2>3. QED
    BY <2>1, <2>2
<1>5. ASSUME InPlace(q), ~watch'[q].left, ~watch'[q].entered
      PROVE  /\ Found(q)' = Found(q)
             /\ \A x \in Found(q) : Ahead(q, x)' = Ahead(q, x)
  BY <1>3, <1>5, FoundRowsStay
<1>6. StaysAhead(q) => StaysAhead(q)'
  BY <1>4 DEF StaysAhead
<1>7. InPlace(q) => InPlace(q)'
  <2>1. ASSUME InPlace(q), ~watch'[q].left, ~watch'[q].entered
        PROVE  /\ Len(sent) = IF request[q].step = "batches" THEN request[q].offset
                                                             ELSE Cardinality(Found(q)')
               /\ Len(sent) <= Cardinality(Found(q)')
               /\ \A i \in 1..Len(sent) :
                    sent[i] \in Found(q)' /\ Cardinality(Ahead(q, sent[i])') = i - 1
    <3>1. /\ Len(sent) = IF request[q].step = "batches" THEN request[q].offset
                                                        ELSE Cardinality(Found(q))
          /\ Len(sent) <= Cardinality(Found(q))
          /\ \A i \in 1..Len(sent) :
               sent[i] \in Found(q) /\ Cardinality(Ahead(q, sent[i])) = i - 1
      <4>1. Exporting(request[q]) /\ ~watch[q].left /\ ~watch[q].entered
        BY <1>3, <2>1
      <4>2. QED
        BY <2>1, <4>1, Zenon DEF InPlace
    <3>2. Found(q)' = Found(q) /\ \A x \in Found(q) : Ahead(q, x)' = Ahead(q, x)
      BY <1>5, <2>1
    <3>3. sent' = sent
      OBVIOUS
    <3> HIDE DEF sent
    <3>4. QED
      BY <3>1, <3>2, <3>3
  <2>2. QED
    BY <2>1 DEF InPlace
<1>8. QED
  BY <1>6, <1>7

\* A batch takes the rows from the offset on, so that those it leaves are behind it.
LEMMA BatchKeepsOrder ==
    ASSUME TypeOK, RoutesTaken, NEW q \in Requests, Next, ReadsBatch(q),
           StaysAhead(q), InPlace(q)
    PROVE  StaysAhead(q)' /\ InPlace(q)'
<1> DEFINE n == Cardinality(Found(q))
           o == request[q].offset
           old == request[q].sent
<1>1. /\ Exporting(request[q]) /\ request[q].step = "batches"
      /\ Found(q)' = Found(q) /\ \A x : Ahead(q, x)' = Ahead(q, x)
  BY BatchAdds
<1>2. PICK s \in [1..n -> Found(q)], batch \in Seq(Transactions) :
        /\ \A i \in 1..n : Cardinality(Ahead(q, s[i])) = i - 1
        /\ \A x \in Found(q) : \E i \in 1..n : s[i] = x
        /\ \A k \in 1..Len(batch) : o + k \in 1..n /\ batch[k] = s[o + k]
        /\ request'[q].sent = old \o batch
        /\ request'[q].offset = o + BatchSize
        /\ \/ request'[q].step = "batches" /\ Len(batch) = BatchSize
           \/ request'[q].step = "done" /\ Len(batch) < BatchSize /\ o + Len(batch) >= n
  BY BatchAdds
<1>3. request[q].step # "idle" /\ request'[q].step \in {"batches", "done"}
  BY <1>1, <1>2
<1>4. /\ watch'[q].stayed = watch[q].stayed \cap Found(q)
      /\ ~watch'[q].left => ~watch[q].left
      /\ ~watch'[q].entered => ~watch[q].entered
  <2>1. Observes
    BY DEF Next
  <2>2. QED
    BY <1>1, <1>3, <2>1, TableObserved
<1>5. /\ o \in Nat /\ n \in Nat /\ BatchSize \in Nat \ {0}
      /\ old \in Seq(Transactions \cup Resources)
      /\ batch \in Seq(Transactions \cup Resources)
  <2>1. batch \in Seq(Transactions \cup Resources)
    BY SeqMonotonic
  <2>2. n \in Nat
    BY FoundFinite
  <2>3. QED
    BY <2>1, <2>2, ApiAssumption DEF TypeOK, RequestRecords
<1>6. /\ Len(old) \in Nat /\ Len(batch) \in Nat
      /\ Len(old \o batch) = Len(old) + Len(batch)
      /\ \A i \in 1..Len(old) : (old \o batch)[i] = old[i]
      /\ \A k \in 1..Len(batch) : (old \o batch)[Len(old) + k] = batch[k]
  <2>1. Len(old) \in Nat /\ Len(batch) \in Nat
    BY <1>5, LenProperties
  <2>2. /\ Len(old \o batch) = Len(old) + Len(batch)
        /\ \A i \in 1..(Len(old) + Len(batch)) :
             (old \o batch)[i] = IF i <= Len(old) THEN old[i] ELSE batch[i - Len(old)]
    BY <1>5, ConcatProperties
  <2> HIDE DEF old
  <2>3. \A i \in 1..Len(old) : (old \o batch)[i] = old[i]
    BY <2>1, <2>2
  <2>4. ASSUME NEW k \in 1..Len(batch) PROVE (old \o batch)[Len(old) + k] = batch[k]
    <3>1. Len(old) + k \in 1..(Len(old) + Len(batch)) /\ ~(Len(old) + k <= Len(old))
          /\ Len(old) + k - Len(old) = k
      BY <2>1
    <3>2. QED
      BY <2>2, <3>1
  <2>5. QED
    BY <2>1, <2>2, <2>3, <2>4
<1>7. Rows(old \o batch) = Rows(old) \cup Rows(batch)
  <2>1. DOMAIN old = 1..Len(old) /\ DOMAIN batch = 1..Len(batch)
    BY <1>5, LenProperties
  <2>2. old \o batch \in Seq(Transactions \cup Resources)
    BY <1>5, ConcatProperties
  <2>3. DOMAIN (old \o batch) = 1..(Len(old) + Len(batch))
    BY <1>6, <2>2, LenProperties
  <2> HIDE DEF old
  <2>4. \A i \in 1..(Len(old) + Len(batch)) :
          \/ i \in 1..Len(old)
          \/ \E k \in 1..Len(batch) : i = Len(old) + k
    <3>1. ASSUME NEW i \in 1..(Len(old) + Len(batch)), i \notin 1..Len(old)
          PROVE  \E k \in 1..Len(batch) : i = Len(old) + k
      <4>1. i - Len(old) \in 1..Len(batch) /\ i = Len(old) + (i - Len(old))
        BY <1>6, <3>1
      <4>2. QED
        BY <4>1
    <3>2. QED
      BY <3>1
  <2>5. /\ \A i \in 1..Len(old) : i \in 1..(Len(old) + Len(batch))
        /\ \A k \in 1..Len(batch) : Len(old) + k \in 1..(Len(old) + Len(batch))
    BY <1>6
  <2>6. ASSUME NEW x \in Rows(old \o batch) PROVE x \in Rows(old) \cup Rows(batch)
    BY <1>6, <2>1, <2>3, <2>4, <2>6 DEF Rows
  <2>7. ASSUME NEW x \in Rows(old) PROVE x \in Rows(old \o batch)
    BY <1>6, <2>1, <2>3, <2>5, <2>7 DEF Rows
  <2>8. ASSUME NEW x \in Rows(batch) PROVE x \in Rows(old \o batch)
    BY <1>6, <2>1, <2>3, <2>5, <2>8 DEF Rows
  <2>9. QED
    BY <2>6, <2>7, <2>8
<1> HIDE DEF n, o, old
<1>8. ASSUME ~watch'[q].left
      PROVE  /\ watch'[q].stayed \subseteq Found(q)
             /\ \A x \in watch'[q].stayed \ (Rows(old) \cup Rows(batch)) :
                  /\ request'[q].step = "batches"
                  /\ Cardinality(Ahead(q, x)) >= o + BatchSize
  <2>1. watch[q].stayed \subseteq Found(q)
    BY <1>1, <1>4, <1>8 DEF StaysAhead
  <2>2. ASSUME NEW x \in watch'[q].stayed \ (Rows(old) \cup Rows(batch))
        PROVE  request'[q].step = "batches" /\ Cardinality(Ahead(q, x)) >= o + BatchSize
    <3>1. x \in watch[q].stayed \ Rows(old) /\ x \in Found(q)
      BY <1>4, <2>1, <2>2
    <3>2. Cardinality(Ahead(q, x)) >= o
      BY <1>1, <1>4, <1>8, <3>1 DEF StaysAhead, o, old
    <3>3. PICK i \in 1..n : s[i] = x
      BY <1>2, <3>1
    <3>4. Cardinality(Ahead(q, x)) = i - 1
      BY <1>2, <3>3
    <3>5. i > o
      BY <1>5, <3>2, <3>4
    <3>6. ~(i <= o + Len(batch))
      <4>1. ASSUME i <= o + Len(batch) PROVE FALSE
        <5>1. i - o \in 1..Len(batch) /\ o + (i - o) = i
          BY <1>5, <1>6, <3>5, <4>1
        <5>2. batch[i - o] = x
          BY <1>2, <3>3, <5>1
        <5>3. DOMAIN batch = 1..Len(batch)
          BY <1>5, LenProperties
        <5>4. x \in Rows(batch)
          BY <5>1, <5>2, <5>3 DEF Rows
        <5>5. QED
          BY <2>2, <5>4
      <4>2. QED
        BY <4>1
    <3>7. request'[q].step = "batches" /\ Len(batch) = BatchSize
      BY <1>2, <1>5, <1>6, <3>6
    <3>8. i - 1 >= o + BatchSize
      BY <1>5, <1>6, <3>6, <3>7
    <3>9. QED
      BY <3>4, <3>7, <3>8
  <2>3. QED
    BY <1>4, <2>2
<1>9. StaysAhead(q)'
  BY <1>1, <1>2, <1>7, <1>8 DEF StaysAhead
<1>10. ASSUME ~watch'[q].left, ~watch'[q].entered
       PROVE  /\ Len(old \o batch) = IF request'[q].step = "batches" THEN o + BatchSize ELSE n
              /\ Len(old \o batch) <= n
              /\ \A i \in 1..Len(old \o batch) :
                   /\ (old \o batch)[i] \in Found(q)
                   /\ Cardinality(Ahead(q, (old \o batch)[i])) = i - 1
  <2>1. /\ Len(old) = o /\ o <= n
        /\ \A i \in 1..o : old[i] \in Found(q) /\ Cardinality(Ahead(q, old[i])) = i - 1
    BY <1>1, <1>4, <1>10 DEF InPlace, old, o, n
  <2>2. o + Len(batch) <= n
    <3>1. CASE Len(batch) = 0
      BY <1>5, <2>1, <3>1
    <3>2. CASE Len(batch) # 0
      <4>1. Len(batch) \in 1..Len(batch)
        BY <1>6, <3>2
      <4>2. o + Len(batch) \in 1..n
        BY <1>2, <4>1
      <4>3. QED
        BY <4>2, <1>5
    <3>3. QED
      BY <3>1, <3>2
  <2>3. Len(old \o batch) = IF request'[q].step = "batches" THEN o + BatchSize ELSE n
    <3>1. CASE request'[q].step = "batches" /\ Len(batch) = BatchSize
      BY <1>6, <2>1, <3>1
    <3>2. CASE request'[q].step = "done" /\ o + Len(batch) >= n
      BY <1>5, <1>6, <2>1, <2>2, <3>2
    <3>3. QED
      BY <1>2, <3>1, <3>2
  <2>4. ASSUME NEW i \in 1..Len(old \o batch)
        PROVE  /\ (old \o batch)[i] \in Found(q)
               /\ Cardinality(Ahead(q, (old \o batch)[i])) = i - 1
    <3>1. CASE i <= o
      <4>1. i \in 1..o
        BY <1>5, <1>6, <2>1, <3>1
      <4>2. (old \o batch)[i] = old[i]
        BY <1>6, <2>1, <4>1
      <4>3. QED
        BY <2>1, <4>1, <4>2
    <3>2. CASE ~(i <= o)
      <4> DEFINE k == i - o
      <4>1. k \in 1..Len(batch) /\ i = o + k
        BY <1>5, <1>6, <2>1, <3>2
      <4> HIDE DEF k
      <4>2. (old \o batch)[i] = batch[k] /\ i \in 1..n /\ batch[k] = s[i]
        BY <1>2, <1>6, <2>1, <4>1
      <4>3. QED
        BY <1>2, <4>2
    <3>3. QED
      BY <3>1, <3>2
  <2>5. QED
    BY <1>6, <2>1, <2>2, <2>3, <2>4
<1>11. InPlace(q)'
  BY <1>1, <1>2, <1>10 DEF InPlace, n
<1>12. QED
  BY <1>9, <1>11

\* Nothing is sent when an export begins, and every row it finds is ahead of it.
LEMMA BeginsInOrder ==
    ASSUME TypeOK, NothingSent, NEW q \in Requests, NEW f \in Filters, Next, ExportBegins(q, f)
    PROVE  StaysAhead(q)' /\ InPlace(q)'
<1>1. /\ request[q].step = "admitted" /\ request'[q].step = "batches"
      /\ request'[q].sent = request[q].sent /\ request'[q].offset = request[q].offset
  <2>1. q \in Calls
    BY DEF Calls
  <2>2. QED
    BY <2>1, ExportBegun
<1>2. request'[q].sent = <<>> /\ request'[q].offset = 0
  BY <1>1 DEF NothingSent
<1>3. ~Exporting(request[q])
  BY <1>1 DEF Exporting
<1>4. watch'[q].stayed = Found(q)'
  <2>1. Observes
    BY DEF Next
  <2>2. QED
    BY <1>1, <1>3, <2>1, TableObserved
<1>5. /\ Cardinality(Found(q)') \in Nat
      /\ \A x \in Found(q)' : Cardinality(Ahead(q, x)') \in Nat
  <2>1. Found(q)' \subseteq Transactions
    BY DEF Found, Matching
  <2>2. ASSUME NEW x \in Found(q)'
        PROVE  Ahead(q, x)' \subseteq Transactions
    BY <2>1 DEF Ahead
  <2>3. QED
    BY <2>1, <2>2, TransactionsFinite, FS_CardinalityType
<1>6. StaysAhead(q)'
  BY <1>1, <1>2, <1>4, <1>5 DEF StaysAhead
<1>7. Len(request'[q].sent) = 0
  BY <1>2, EmptySeq
<1>8. InPlace(q)'
  BY <1>1, <1>2, <1>5, <1>7 DEF InPlace
<1>9. QED
  BY <1>6, <1>8

\* The order of the exports is kept by every step.
LEMMA ExportsKeepOrder ==
    ASSUME TypeOK, RoutesTaken, NothingSent, \A q \in Requests : StaysAhead(q) /\ InPlace(q),
           [Next]_vars
    PROVE  (\A q \in Requests : StaysAhead(q) /\ InPlace(q))'
<1>1. CASE UNCHANGED vars
  <2>1. \A q : Found(q)' = Found(q)
    BY <1>1 DEF vars, Found, Exporting, Matching, Instant
  <2>2. \A q, x : Ahead(q, x)' = Ahead(q, x)
    BY <1>1, <2>1 DEF vars, Ahead, Precedes, Instant
  <2>3. \A q \in Requests : StaysAhead(q)'
    BY <1>1, <2>1, <2>2 DEF vars, StaysAhead
  <2>4. ASSUME NEW q \in Requests PROVE InPlace(q)'
    <3>1. InPlace(q) /\ request' = request /\ watch' = watch
      BY <1>1 DEF vars
    <3>2. \A i : Ahead(q, request[q].sent[i])' = Ahead(q, request[q].sent[i])
      BY <2>2, <3>1
    <3>3. QED
      BY <2>1, <3>1, <3>2 DEF InPlace
  <2>5. QED
    BY <2>3, <2>4
<1>2. CASE Next
  <2>1. ASSUME NEW q \in Requests PROVE StaysAhead(q)' /\ InPlace(q)'
    <3>1. CASE ~Exporting(request'[q])
      BY <3>1 DEF StaysAhead, InPlace
    <3>2. CASE Exporting(request'[q]) /\ request'[q] = request[q]
      BY <1>2, <3>2, TableChanges
    <3>3. CASE ReadsBatch(q)
      BY <1>2, <3>3, BatchKeepsOrder
    <3>4. ASSUME NEW f \in Filters, ExportBegins(q, f) PROVE StaysAhead(q)' /\ InPlace(q)'
      BY <1>2, <3>4, BeginsInOrder
    <3>5. QED
      BY <3>1, <3>2, <3>3, <3>4, ExportMoves
  <2>2. QED
    BY <2>1
<1>3. QED
  BY <1>1, <1>2

\* The order of the exports, on top of the types.
LEMMA ExportInvariant == Spec => [](\A q \in Requests : StaysAhead(q) /\ InPlace(q))
<1>1. Init => \A q \in Requests : StaysAhead(q) /\ InPlace(q)
  BY IdleRecord DEF Init, StaysAhead, InPlace, Exporting
<1>2. /\ (\A q \in Requests : StaysAhead(q) /\ InPlace(q))
      /\ TypeOK /\ RoutesTaken /\ NothingSent /\ [Next]_vars
      => (\A q \in Requests : StaysAhead(q) /\ InPlace(q))'
  BY ExportsKeepOrder
<1>3. QED
  BY <1>1, <1>2, TypeInvariant, EntitlementInvariant, PTL DEF Spec

\* However many rows are created, paid or refunded between two batch queries, an
\* export that ends has every row that matched from its first moment to its last,
\* unless a row ceased to match: reading by offset loses none.
THEOREM NoStayingRowLost == Spec => []StayingRowsExported
<1>1. TypeOK /\ (\A q \in Requests : StaysAhead(q) /\ InPlace(q)) => StayingRowsExported
  BY DEF StaysAhead, StayingRowsExported, Exporting
<1>2. QED
  BY <1>1, TypeInvariant, ExportInvariant, PTL

\* Rows sent in place are each row found, once.
LEMMA InPlaceIsComplete ==
    ASSUME TypeOK, NEW q \in Requests, InPlace(q), Exporting(request[q]), ~watch[q].left,
           ~watch[q].entered, request[q].step = "done"
    PROVE  /\ Rows(request[q].sent) = Found(q)
           /\ Len(request[q].sent) = Cardinality(Rows(request[q].sent))
<1> DEFINE s == request[q].sent
           n == Cardinality(Found(q))
<1>1. /\ Len(s) = n
      /\ \A i \in 1..n : s[i] \in Found(q) /\ Cardinality(Ahead(q, s[i])) = i - 1
  BY DEF InPlace
<1>2. IsFiniteSet(Found(q)) /\ n \in Nat
  BY FoundFinite
<1>3. s \in Seq(Transactions \cup Resources)
  BY DEF TypeOK, RequestRecords
<1>4. DOMAIN s = 1..n /\ s = [i \in 1..n |-> s[i]]
  BY <1>1, <1>3, LenProperties
<1>5. s \in [1..n -> Found(q)]
  BY <1>1, <1>4
<1>6. \A i, j \in 1..n : s[i] = s[j] => i = j
  <2> TAKE i, j \in 1..n
  <2>1. Cardinality(Ahead(q, s[i])) = i - 1 /\ Cardinality(Ahead(q, s[j])) = j - 1
    BY <1>1
  <2>2. QED
    BY <1>2, <2>1
<1> DEFINE F == Found(q)
<1>7. s \in Surjection(1..n, F)
  <2>1. Cardinality(1..n) = n
    BY <1>2, FS_Interval
  <2>2. s \in [1..n -> F] /\ IsFiniteSet(F) /\ Cardinality(F) = n
    BY <1>2, <1>5
  <2> HIDE DEF s, n, F
  <2>3. s \in Injection(1..n, F)
    BY <1>6, <2>2, Fun_IsInj
  <2>4. QED
    BY <2>1, <2>2, <2>3, FS_Injection
<1>8. Rows(s) = F
  BY <1>4, <1>5, <1>7 DEF Rows, Surjection
<1>9. QED
  BY <1>1, <1>8

\* An export by payment date of rows that nobody changed meanwhile has exactly the
\* transactions that the sales summary of those days counts, each once: the batches
\* neither repeat a row nor skip one, and both see the same days.
THEOREM ExportIsTheSummary == Spec => []ExportMatchesSummary
<1>1. TypeOK /\ (\A q \in Requests : StaysAhead(q) /\ InPlace(q)) => ExportMatchesSummary
  <2>1. ASSUME TypeOK, \A q \in Requests : StaysAhead(q) /\ InPlace(q), NEW q \in Requests,
               request[q].step = "done", request[q].route = "export",
               request[q].filter.status = "paid", request[q].filter.by = "paid",
               ~watch[q].left, ~watch[q].entered
        PROVE  /\ Rows(request[q].sent) = Counted(Home[request[q].caller], request[q].filter)
               /\ Len(request[q].sent) = Cardinality(Rows(request[q].sent))
    <3>1. Exporting(request[q])
      BY <2>1 DEF Exporting
    <3>2. /\ Rows(request[q].sent) = Found(q)
          /\ Len(request[q].sent) = Cardinality(Rows(request[q].sent))
      BY <2>1, <3>1, InPlaceIsComplete
    <3>3. Found(q) = Matching(Home[request[q].caller], request[q].filter)
      BY <3>1 DEF Found
    <3>4. Matching(Home[request[q].caller], request[q].filter)
            = Counted(Home[request[q].caller], request[q].filter)
      <4> DEFINE f == request[q].filter
                 lo == f.from * Day
                 hi == (f.to + 1) * Day
      <4>1. \A x \in Transactions : Instant(x, f) = row[x].paid
        BY <2>1 DEF Instant
      <4>2. \A x \in Transactions :
              InRange(Instant(x, f), f) <=> row[x].paid >= lo /\ row[x].paid < hi
        <5> HIDE DEF f
        <5>1. \A x \in Transactions : InRange(row[x].paid, f)
                <=> row[x].paid >= lo /\ row[x].paid < hi
          <6> HIDE DEF lo
          <6>1. \A x \in Transactions : (lo <= row[x].paid) <=> (row[x].paid >= lo)
            OBVIOUS
          <6>2. QED
            BY <6>1 DEF InRange, lo
        <5>2. QED
          BY <4>1, <5>1
      <4>3. QED
        BY <2>1, <4>2 DEF Matching, Counted
    <3>5. QED
      BY <3>2, <3>3, <3>4
  <2>2. QED
    BY <2>1, Zenon DEF ExportMatchesSummary
<1>2. QED
  BY <1>1, TypeInvariant, ExportInvariant, PTL

=============================================================================
