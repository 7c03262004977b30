--------------------------- MODULE VouchersProofs ---------------------------
(***************************************************************************)
(* Theorems about Vouchers, for any number of calls, enrollments and       *)
(* vouchers, any terms, prices and policies.  The invariant says what the  *)
(* row locks and the two advisory locks exclude, that what a call has read *)
(* under them still holds when it writes, and that the usage counter is    *)
(* the number of transactions holding a use.                               *)
(***************************************************************************)
EXTENDS Vouchers, FiniteSetTheorems, TLAPS

\* Calls that work on one enrollment, on one voucher row or on the codes of the
\* tenant exclude each other.
Apart(q, r) ==
    /\ ~ (q.naming /\ r.naming)
    /\ q.enrollment # None => q.enrollment # r.enrollment
    /\ q.voucher # None => q.voucher # r.voucher

Locks == \A c, d \in Calls : c # d => Apart(call[c], call[d])

\* A call names a voucher, or holds the codes, in certain steps only.
Argued(c) ==
    /\ call[c].step \in {"idle", "checkout"} => call[c].voucher = None
    /\ call[c].naming => call[c].step \in {"create", "edit"}

\* What a checkout has read of its enrollment and of its voucher.
CheckoutRead(c) ==
    /\ call[c].step \in {"checkout", "reserved"} =>
           bill[call[c].enrollment] = NoBill /\ call[c].subtotal \in Nat \ {0}
    /\ call[c].step = "reserved" =>
           /\ Live(call[c].voucher)
           /\ voucher[call[c].voucher].terms = call[c].terms
           /\ call[c].terms.active
           /\ ValidTerms(call[c].terms)
           /\ QuotaLeft(call[c].voucher)

\* What a creation, an edit or a deletion has read of its row.
RowRead(c) ==
    /\ call[c].step = "create" =>
           voucher[call[c].voucher] = NoVoucher /\ Editable(call[c].terms, 0)
    /\ call[c].step = "edit" =>
           /\ Live(call[c].voucher)
           /\ call[c].uses = voucher[call[c].voucher].uses
           /\ Editable(call[c].terms, call[c].uses)
    /\ call[c].step = "delete" =>
           Live(call[c].voucher) /\ voucher[call[c].voucher].uses = 0

\* What a creation or a rename has read of the codes of the other rows.
CodeRead(c) ==
    /\ call[c].step = "create" => call[c].naming
    /\ call[c].naming => CodeUnused(call[c].voucher, call[c].code)
    /\ call[c].step = "edit" /\ ~call[c].naming =>
           call[c].code = voucher[call[c].voucher].code

Reads == \A c \in Calls : Argued(c) /\ CheckoutRead(c) /\ RowRead(c) /\ CodeRead(c)

\* The voucher a transaction names exists.
Referenced ==
    \A e \in Enrollments :
        bill[e].voucher # None => voucher[bill[e].voucher] # NoVoucher

IInv ==
    /\ TypeOK
    /\ Locks
    /\ Reads
    /\ Referenced
    /\ UsesAreHeld
    /\ QuotaHolds
    /\ HeldVoucherNotDeleted
    /\ LiveCodesUnique
    /\ SnapshotAddsUp

-----------------------------------------------------------------------------
(* Types *)

CallRecords == [step : Steps, enrollment : Enrollments \cup {None},
                voucher : VoucherIds \cup {None}, naming : BOOLEAN,
                code : Spellings \cup {None}, terms : Terms \cup {None},
                uses : Nat, subtotal : Nat, at : Nat]

\* What a call needs to know in its step.
Known(r) ==
    /\ r.step \in {"checkout", "reserved"} => r.enrollment \in Enrollments
    /\ r.step \in {"reserved", "create", "edit", "delete"} => r.voucher \in VoucherIds
    /\ r.step \in {"reserved", "create", "edit"} => r.terms \in Terms
    /\ r.step \in {"create", "edit"} => r.code \in Spellings

LEMMA IdleType == Idle \in CallRecords /\ Known(Idle) /\ Idle.step = "idle"
BY DEF Idle, CallRecords, Known, Steps

\* A call starts or moves on with a record of its type.
LEMMA CallTyped ==
    ASSUME TypeOK, NEW c \in Calls, CallNext(c)
    PROVE  /\ call' = [call EXCEPT ![c] = call'[c]]
           /\ call'[c] \in CallRecords
           /\ Known(call'[c])
<1> USE DEF CallRecords, Known, Idle, Steps
<1>0. call \in [Calls -> CallRecords] /\ Known(call[c]) /\ clock \in Nat
    BY DEF TypeOK
<1>1. ASSUME NEW e \in Enrollments, NEW s \in Subtotals, CheckoutBegins(c, e, s)
      PROVE  /\ call' = [call EXCEPT ![c] = call'[c]]
             /\ call'[c] \in CallRecords
             /\ Known(call'[c])
    BY <1>0, <1>1, ConstantsAssumption DEF CheckoutBegins, Begin
<1>2. ASSUME NEW v \in VoucherIds, Reserves(c, v)
      PROVE  /\ call' = [call EXCEPT ![c] = call'[c]]
             /\ call'[c] \in CallRecords
             /\ Known(call'[c])
  <2>1. Live(v) /\ voucher[v] \in VoucherRows \cup {NoVoucher}
    BY <1>2 DEF Reserves, Redeemable, TypeOK
  <2>2. voucher[v].terms \in Terms
    BY <2>1 DEF Live, VoucherRows, NoVoucher
  <2> QED BY <1>0, <1>2, <2>2 DEF Reserves
<1>3. ASSUME NEW v \in VoucherIds, DeleteBegins(c, v)
      PROVE  /\ call' = [call EXCEPT ![c] = call'[c]]
             /\ call'[c] \in CallRecords
             /\ Known(call'[c])
    BY <1>0, <1>3 DEF DeleteBegins, Begin
<1>4. ASSUME Ends(c)
      PROVE  /\ call' = [call EXCEPT ![c] = call'[c]]
             /\ call'[c] \in CallRecords
             /\ Known(call'[c])
    BY <1>0, <1>4 DEF Ends
<1>5. ASSUME NEW v \in VoucherIds, NEW t \in Terms, EditBegins(c, v, t)
      PROVE  /\ call' = [call EXCEPT ![c] = call'[c]]
             /\ call'[c] \in CallRecords
             /\ Known(call'[c])
  <2>1. Live(v) /\ voucher[v] \in VoucherRows \cup {NoVoucher}
    BY <1>5 DEF EditBegins, TypeOK
  <2>2. voucher[v].code \in Spellings /\ voucher[v].uses \in Nat
    BY <2>1 DEF Live, VoucherRows, NoVoucher
  <2> QED BY <1>0, <1>5, <2>2 DEF EditBegins, Begin
<1>6. ASSUME NEW v \in VoucherIds, NEW t \in Terms, NEW s \in Spellings,
             CreateBegins(c, v, s, t)
      PROVE  /\ call' = [call EXCEPT ![c] = call'[c]]
             /\ call'[c] \in CallRecords
             /\ Known(call'[c])
    BY <1>0, <1>6, ConstantsAssumption DEF CreateBegins, Begin
<1>7. ASSUME NEW v \in VoucherIds, NEW t \in Terms, NEW s \in Spellings,
             RenameBegins(c, v, s, t)
      PROVE  /\ call' = [call EXCEPT ![c] = call'[c]]
             /\ call'[c] \in CallRecords
             /\ Known(call'[c])
  <2>1. Live(v) /\ voucher[v] \in VoucherRows \cup {NoVoucher}
    BY <1>7 DEF RenameBegins, TypeOK
  <2>2. voucher[v].uses \in Nat
    BY <2>1 DEF Live, VoucherRows, NoVoucher
  <2> QED BY <1>0, <1>7, <2>2, ConstantsAssumption DEF RenameBegins, Begin
<1> HIDE DEF CallRecords, Known, Idle, Steps
<1> QED BY <1>1, <1>2, <1>3, <1>4, <1>5, <1>6, <1>7
        DEF CallNext, ChecksOut, Redeems, Creates, Edits, Deletes, RollsBack

-----------------------------------------------------------------------------
(* Prices *)

LEMMA Monotone ==
    ASSUME NEW x \in Int, NEW y \in Int, NEW b \in Nat, x <= y
    PROVE  x * b <= y * b
<1> DEFINE k == y - x
<1>1. k \in Nat /\ y = x + k
    OBVIOUS
<1>2. k * b \in Nat
    BY <1>1, SMTT(20)
<1>3. y * b = (x + k) * b
    BY <1>1
<1> HIDE DEF k
<1>4. (x + k) * b = x * b + k * b
    BY <1>1
<1> QED BY <1>2, <1>3, <1>4

LEMMA Quotient ==
    ASSUME NEW a \in Nat, NEW b \in Nat \ {0}
    PROVE  (a \div b) \in Nat /\ (a \div b) * b <= a
<1> DEFINE q == a \div b
<1>1. q \in Int /\ a % b \in 0..(b - 1) /\ (q >= 0 \/ q <= -1)
    OBVIOUS
<1>2. a = b * q + (a % b)
    OBVIOUS
<1>3. b * q = q * b
    BY <1>1
<1> HIDE DEF q
<1>4. q * b <= a
    BY <1>1, <1>2, <1>3
<1>5. ASSUME q <= -1 PROVE FALSE
  <2>1. q * b <= (-1) * b
    BY <1>1, <1>5, Monotone
  <2>2. (-1) * b = -b
    OBVIOUS
  <2> QED BY <1>1, <1>2, <1>3, <2>1, <2>2
<1> QED BY <1>1, <1>4, <1>5 DEF q

\* A discount never exceeds the price, and is never negative.
LEMMA DiscountBounds ==
    ASSUME NEW t \in Terms, ValidTerms(t), NEW s \in Nat
    PROVE  Discount(t, s) \in 0..s
<1>1. t.value \in Nat /\ t.cap \in Nat
    BY ConstantsAssumption
<1>2. t.value * s \in Nat
    BY <1>1, SMTT(20)
<1>3. (t.value * s) \div 10000 \in Nat /\ t.value \div 100 \in Nat
    BY <1>1, <1>2, Quotient
<1>4. Granted(t, s) \in Nat
    BY <1>3 DEF Granted
<1>5. Capped(t, Granted(t, s)) \in Nat
    BY <1>1, <1>4 DEF Capped, Smaller
<1> QED BY <1>5 DEF Discount, Smaller

\* The checks before the multiplication keep every step of it in range.
LEMMA FeeExact ==
    ASSUME NEW p \in Policies, NEW g \in Int, FeeDefined(p, g)
    PROVE  /\ Fee(p, g) = (g * p.percent) \div 10000 + p.fixed
           /\ Fee(p, g) \in Nat
<1>1. p.percent \in Nat /\ p.fixed \in 0..MaxInt /\ g \in Nat /\ MaxInt \in Nat
    BY ConstantsAssumption, PricingAssumption DEF FeeDefined, PolicyValid
<1> DEFINE a == g * p.percent
<1>2. a \in Nat
    BY <1>1, SMTT(20)
<1>3. a + p.fixed <= MaxInt
  <2>1. CASE p.percent = 0
    BY <1>1, <2>1
  <2>2. CASE p.percent > 0
    <3> DEFINE m == MaxInt - p.fixed
    <3> DEFINE q == m \div p.percent
    <3>0. m \in Nat /\ p.percent \in Nat \ {0}
        BY <1>1, <2>2
    <3>1. q \in Nat /\ q * p.percent <= m
      <4> HIDE DEF m
      <4> QED BY <3>0, Quotient
    <3>2. g <= q
        BY <2>2 DEF FeeDefined
    <3> HIDE DEF q
    <3>3. a <= q * p.percent
        BY <1>1, <3>1, <3>2, Monotone
    <3>4. q * p.percent \in Int
        BY <1>1, <3>1
    <3> QED BY <1>1, <1>2, <3>1, <3>3, <3>4
  <2> QED BY <1>1, <2>1, <2>2
<1> DEFINE d == a \div 10000
<1>4. d \in Nat /\ d <= a
  <2>1. d \in Nat /\ d * 10000 <= a
    BY <1>2, Quotient
  <2> HIDE DEF d
  <2> QED BY <1>2, <2>1
<1>5. Int64(a) = a
  <2> HIDE DEF a
  <2> QED BY <1>1, <1>2, <1>3 DEF Int64
<1>6. Fee(p, g) = Int64(d + p.fixed)
    BY <1>5 DEF Fee
<1> HIDE DEF d
<1>7. Int64(d + p.fixed) = d + p.fixed
  <2> HIDE DEF a
  <2> QED BY <1>1, <1>2, <1>3, <1>4 DEF Int64
<1> QED BY <1>1, <1>4, <1>6, <1>7 DEF d

\* The amounts of a checkout that may be committed.
LEMMA SnapshotSound ==
    ASSUME NEW p \in Policies, NEW s \in Nat, NEW d \in 0..s, Payable(p, s - d, Gateway)
    PROVE  /\ Snapshot(p, s, d, Gateway) \in Prices
           /\ AddsUp(Snapshot(p, s, d, Gateway))
<1> DEFINE g == s - d
<1> DEFINE f == Fee(p, g)
<1>1. g \in Int /\ FeeDefined(p, g) /\ Gateway \in Nat /\ g > 0
    BY ConstantsAssumption DEF Payable, FeeDefined
<1>2. f = (g * p.percent) \div 10000 + p.fixed /\ f \in Nat
    BY <1>1, FeeExact
<1>3. f <= g /\ Gateway <= g - f
    BY DEF Payable
<1>4. Snapshot(p, s, d, Gateway) =
        [subtotal |-> s, discount |-> d, gross |-> g, fee |-> f,
         gateway |-> Gateway, net |-> g - f - Gateway, policy |-> p]
    BY DEF Snapshot
<1> HIDE DEF f
<1> QED BY <1>1, <1>2, <1>3, <1>4 DEF Prices, AddsUp

-----------------------------------------------------------------------------
(* How calls move *)

\* A call starts, or a checkout reserves its voucher.
Starts(c) ==
    \/ \E e \in Enrollments, s \in Subtotals : CheckoutBegins(c, e, s)
    \/ \E v \in VoucherIds : Reserves(c, v) \/ DeleteBegins(c, v)
    \/ \E v \in VoucherIds, t \in Terms :
           \/ EditBegins(c, v, t)
           \/ \E s \in Spellings : CreateBegins(c, v, s, t) \/ RenameBegins(c, v, s, t)

\* A call commits or rolls back.
Finishes(c) ==
    \/ \E p \in Policies : ChecksOut(c, p) \/ Redeems(c, p)
    \/ Creates(c) \/ Edits(c) \/ Deletes(c) \/ RollsBack(c)

LEMMA CallCases ==
    ASSUME NEW c \in Calls, CallNext(c)
    PROVE  Starts(c) \/ Finishes(c)
BY DEF CallNext, Starts, Finishes

LEMMA FinishEnds ==
    ASSUME NEW c \in Calls, Finishes(c)
    PROVE  Ends(c) /\ clock' = clock
BY DEF Finishes, ChecksOut, Redeems, Creates, Edits, Deletes, RollsBack

LEMMA StartKeepsRows ==
    ASSUME NEW c \in Calls, Starts(c)
    PROVE  voucher' = voucher /\ bill' = bill /\ clock' = clock
BY DEF Starts, CheckoutBegins, Reserves, DeleteBegins, EditBegins, CreateBegins, RenameBegins

\* The other calls are left alone.
LEMMA OneMoves ==
    ASSUME TypeOK, NEW c \in Calls, CallNext(c), NEW d \in Calls, d # c
    PROVE  call'[d] = call[d]
BY CallTyped DEF TypeOK

\* Nobody else is at a row that is free or not there yet.
LEMMA RowIsFree ==
    ASSUME IInv, NEW v \in VoucherIds, RowFree(v), voucher[v] # NoVoucher, NEW d \in Calls
    PROVE  call[d].voucher # v
<1>1. v # None
    BY ConstantsAssumption
<1>2. call[d].step \in Steps
    BY DEF IInv, TypeOK
<1>3. Argued(d) /\ RowRead(d)
    BY DEF IInv, Reads
<1> QED BY <1>1, <1>2, <1>3 DEF Argued, RowRead, RowFree, Steps

LEMMA LiveIsThere ==
    ASSUME TypeOK, NEW v \in VoucherIds, Live(v)
    PROVE  voucher[v] # NoVoucher /\ voucher[v] \in VoucherRows /\ voucher[v].terms \in Terms
           /\ voucher[v].code \in Spellings /\ voucher[v].uses \in Nat
<1>1. voucher[v] \in VoucherRows \cup {NoVoucher} /\ voucher[v].state = "live"
    BY DEF TypeOK, Live
<1>2. NoVoucher.state = "absent"
    BY DEF NoVoucher
<1>3. voucher[v] # NoVoucher
    BY <1>1, <1>2
<1> QED BY <1>1, <1>3 DEF VoucherRows

\* What a call knows after it starts, and what it keeps the others from.
Ready(c) ==
    /\ Argued(c)' /\ CheckoutRead(c)' /\ RowRead(c)' /\ CodeRead(c)'
    /\ \A d \in Calls : d # c => Apart(call'[c], call[d]) /\ Apart(call[d], call'[c])

LEMMA CheckoutIsReady ==
    ASSUME IInv, NEW c \in Calls, NEW e \in Enrollments, NEW s \in Subtotals,
           CheckoutBegins(c, e, s)
    PROVE  Ready(c)
<1> DEFINE r == call'[c]
<1>1. /\ r.step = "checkout" /\ r.voucher = None /\ ~r.naming
      /\ r.enrollment = e /\ r.subtotal = s
    BY DEF CheckoutBegins, Begin, Idle, IInv, TypeOK
<1>2. bill' = bill /\ bill[e] = NoBill /\ s \in Nat \ {0}
    BY ConstantsAssumption DEF CheckoutBegins
<1>3. \A d \in Calls : call[d].enrollment # e
    BY DEF CheckoutBegins, CheckoutFree
<1> HIDE DEF r
<1>4. Argued(c)' /\ CheckoutRead(c)' /\ RowRead(c)' /\ CodeRead(c)'
    BY <1>1, <1>2 DEF Argued, CheckoutRead, RowRead, CodeRead, r
<1>5. \A d \in Calls : Apart(r, call[d]) /\ Apart(call[d], r)
    BY <1>1, <1>3 DEF Apart
<1> QED BY <1>4, <1>5 DEF Ready, r

LEMMA ReservationIsReady ==
    ASSUME IInv, NEW c \in Calls, NEW v \in VoucherIds, Reserves(c, v)
    PROVE  Ready(c)
<1> DEFINE r == call'[c]
<1>1. /\ r.step = "reserved" /\ r.voucher = v /\ r.terms = voucher[v].terms
      /\ r.naming = call[c].naming /\ r.enrollment = call[c].enrollment
      /\ r.subtotal = call[c].subtotal
    BY DEF Reserves, IInv, TypeOK
<1>2. voucher' = voucher /\ bill' = bill /\ call[c].step = "checkout"
    BY DEF Reserves
<1>3. Argued(c) /\ CheckoutRead(c) /\ Locks
    BY DEF IInv, Reads
<1>4. ~call[c].naming /\ bill[call[c].enrollment] = NoBill /\ call[c].subtotal \in Nat \ {0}
    BY <1>2, <1>3 DEF Argued, CheckoutRead
<1>5. /\ RowFree(v) /\ Live(v) /\ voucher[v].terms.active /\ QuotaLeft(v)
      /\ ValidTerms(voucher[v].terms)
    BY DEF Reserves, Redeemable, Editable
<1>6. \A d \in Calls : call[d].voucher # v
    BY <1>5, LiveIsThere, RowIsFree DEF IInv
<1> HIDE DEF r
<1>7. Argued(c)' /\ RowRead(c)' /\ CodeRead(c)'
    BY <1>1, <1>4 DEF Argued, RowRead, CodeRead, r
<1>8. CheckoutRead(c)'
    BY <1>1, <1>2, <1>4, <1>5 DEF CheckoutRead, Live, QuotaLeft, r
<1>9. \A d \in Calls : d # c => Apart(r, call[d]) /\ Apart(call[d], r)
    BY <1>1, <1>3, <1>4, <1>6 DEF Apart, Locks
<1> QED BY <1>7, <1>8, <1>9 DEF Ready, r

LEMMA DeletionIsReady ==
    ASSUME IInv, NEW c \in Calls, NEW v \in VoucherIds, DeleteBegins(c, v)
    PROVE  Ready(c)
<1> DEFINE r == call'[c]
<1>1. r.step = "delete" /\ r.voucher = v /\ ~r.naming /\ r.enrollment = None
    BY DEF DeleteBegins, Begin, Idle, IInv, TypeOK
<1>2. voucher' = voucher /\ RowFree(v) /\ Live(v) /\ voucher[v].uses = 0
    BY DEF DeleteBegins, Deletable
<1>3. \A d \in Calls : call[d].voucher # v
    BY <1>2, LiveIsThere, RowIsFree DEF IInv
<1> HIDE DEF r
<1>4. Argued(c)' /\ CheckoutRead(c)' /\ RowRead(c)' /\ CodeRead(c)'
    BY <1>1, <1>2 DEF Argued, CheckoutRead, RowRead, CodeRead, Live, r
<1>5. \A d \in Calls : Apart(r, call[d]) /\ Apart(call[d], r)
    BY <1>1, <1>3 DEF Apart
<1> QED BY <1>4, <1>5 DEF Ready, r

LEMMA EditIsReady ==
    ASSUME IInv, NEW c \in Calls, NEW v \in VoucherIds, NEW t \in Terms, EditBegins(c, v, t)
    PROVE  Ready(c)
<1> DEFINE r == call'[c]
<1>1. /\ r.step = "edit" /\ r.voucher = v /\ ~r.naming /\ r.enrollment = None
      /\ r.code = voucher[v].code /\ r.terms = t /\ r.uses = voucher[v].uses
    BY DEF EditBegins, Begin, Idle, IInv, TypeOK
<1>2. voucher' = voucher /\ RowFree(v) /\ Live(v) /\ Editable(t, voucher[v].uses)
    BY DEF EditBegins
<1>3. \A d \in Calls : call[d].voucher # v
    BY <1>2, LiveIsThere, RowIsFree DEF IInv
<1> HIDE DEF r
<1>4. Argued(c)' /\ CheckoutRead(c)' /\ RowRead(c)' /\ CodeRead(c)'
    BY <1>1, <1>2 DEF Argued, CheckoutRead, RowRead, CodeRead, Live, Editable, r
<1>5. \A d \in Calls : Apart(r, call[d]) /\ Apart(call[d], r)
    BY <1>1, <1>3 DEF Apart
<1> QED BY <1>4, <1>5 DEF Ready, r

LEMMA CreationIsReady ==
    ASSUME IInv, NEW c \in Calls, NEW v \in VoucherIds, NEW t \in Terms, NEW s \in Spellings,
           CreateBegins(c, v, s, t)
    PROVE  Ready(c)
<1> DEFINE r == call'[c]
<1>1. /\ r.step = "create" /\ r.voucher = v /\ r.naming /\ r.enrollment = None
      /\ r.code = Upper[s] /\ r.terms = t
    BY DEF CreateBegins, Begin, Idle, IInv, TypeOK
<1>2. voucher' = voucher /\ voucher[v] = NoVoucher /\ Editable(t, 0) /\ CodeUnused(v, s)
    BY DEF CreateBegins
<1>3. \A d \in Calls : call[d].voucher # v /\ ~call[d].naming
    BY DEF CreateBegins, CodesFree
<1> HIDE DEF r
<1>4. CodeUnused(v, Upper[s])
    BY <1>2, ConstantsAssumption DEF CodeUnused, SameCode
<1>5. Argued(c)' /\ CheckoutRead(c)' /\ RowRead(c)'
    BY <1>1, <1>2 DEF Argued, CheckoutRead, RowRead, Editable, r
<1>6. CodeRead(c)'
    BY <1>1, <1>2, <1>4 DEF CodeRead, CodeUnused, Live, SameCode, r
<1>7. \A d \in Calls : Apart(r, call[d]) /\ Apart(call[d], r)
    BY <1>1, <1>3 DEF Apart
<1> QED BY <1>5, <1>6, <1>7 DEF Ready, r

LEMMA RenameIsReady ==
    ASSUME IInv, NEW c \in Calls, NEW v \in VoucherIds, NEW t \in Terms, NEW s \in Spellings,
           RenameBegins(c, v, s, t)
    PROVE  Ready(c)
<1> DEFINE r == call'[c]
<1>1. /\ r.step = "edit" /\ r.voucher = v /\ r.naming /\ r.enrollment = None
      /\ r.code = Upper[s] /\ r.terms = t /\ r.uses = voucher[v].uses
    BY DEF RenameBegins, Begin, Idle, IInv, TypeOK
<1>2. /\ voucher' = voucher /\ RowFree(v) /\ Live(v) /\ Editable(t, voucher[v].uses)
      /\ CodeUnused(v, s)
    BY DEF RenameBegins
<1>3. \A d \in Calls : call[d].voucher # v
    BY <1>2, LiveIsThere, RowIsFree DEF IInv
<1>4. \A d \in Calls : ~call[d].naming
    BY DEF RenameBegins, CodesFree
<1> HIDE DEF r
<1>5. CodeUnused(v, Upper[s])
    BY <1>2, ConstantsAssumption DEF CodeUnused, SameCode
<1>6. Argued(c)' /\ CheckoutRead(c)' /\ RowRead(c)'
    BY <1>1, <1>2 DEF Argued, CheckoutRead, RowRead, Live, Editable, r
<1>7. CodeRead(c)'
    BY <1>1, <1>2, <1>5 DEF CodeRead, CodeUnused, Live, SameCode, r
<1>8. \A d \in Calls : Apart(r, call[d]) /\ Apart(call[d], r)
    BY <1>1, <1>3, <1>4 DEF Apart
<1> QED BY <1>6, <1>7, <1>8 DEF Ready, r

LEMMA StartIsReady ==
    ASSUME IInv, NEW c \in Calls, Starts(c)
    PROVE  Ready(c)
BY CheckoutIsReady, ReservationIsReady, DeletionIsReady, EditIsReady, CreationIsReady,
   RenameIsReady DEF Starts

LEMMA FinishIsReady ==
    ASSUME IInv, NEW c \in Calls, Finishes(c)
    PROVE  Ready(c)
<1> DEFINE r == call'[c]
<1>1. r.step = "idle" /\ r.voucher = None /\ ~r.naming /\ r.enrollment = None
    BY FinishEnds DEF Ends, Idle, IInv, TypeOK
<1> HIDE DEF r
<1>2. Argued(c)' /\ CheckoutRead(c)' /\ RowRead(c)' /\ CodeRead(c)'
    BY <1>1 DEF Argued, CheckoutRead, RowRead, CodeRead, r
<1>3. \A d \in Calls : Apart(r, call[d]) /\ Apart(call[d], r)
    BY <1>1 DEF Apart
<1> QED BY <1>2, <1>3 DEF Ready, r

-----------------------------------------------------------------------------
(* What steps do to the rows *)

\* The transaction of enrollment e becomes b.
Billed(e, b) == e \in Enrollments /\ b \in Bills /\ AddsUp(b.price) /\ bill' = [bill EXCEPT ![e] = b]

\* Enrollment e takes a use of voucher v, for a late payment or under the checks.
Gain(e, b, v) ==
    /\ Billed(e, b)
    /\ v \in VoucherIds /\ voucher[v] \in VoucherRows
    /\ voucher' = [voucher EXCEPT ![v].uses = voucher[v].uses + 1]
    /\ ~bill[e].held
    /\ b.held /\ b.voucher = v
    /\ b.late \/ (Live(v) /\ QuotaLeft(v))

\* It gives the use back.
Lose(e, b, v) ==
    /\ Billed(e, b)
    /\ v \in VoucherIds /\ voucher[v] \in VoucherRows /\ voucher[v].uses > 0
    /\ voucher' = [voucher EXCEPT ![v].uses = voucher[v].uses - 1]
    /\ bill[e].held /\ bill[e].voucher = v
    /\ ~b.held /\ b.voucher = v

\* It keeps what it has.
Same(e, b) ==
    /\ Billed(e, b)
    /\ voucher' = voucher
    /\ b.held = bill[e].held
    /\ b.late = bill[e].late
    /\ b.voucher # None => b.voucher = bill[e].voucher
    /\ b.held => b.voucher = bill[e].voucher

\* The row of voucher v is inserted, edited or deleted; its uses stay.
Revise(v, r) ==
    /\ v \in VoucherIds /\ r \in VoucherRows
    /\ voucher' = [voucher EXCEPT ![v] = r]
    /\ bill' = bill
    /\ r.uses = voucher[v].uses
    /\ \/ r.state = "live" /\ Editable(r.terms, r.uses) /\ CodeUnused(v, r.code)
       \/ /\ r.state = "deleted" /\ r.uses = 0
          /\ r.terms = voucher[v].terms /\ voucher[v] \in VoucherRows

Closing == {"expired", "cancelled", "failed"}

\* The row of voucher v is there, and nobody else is at it.
RowTaken(v) == v \in VoucherIds /\ RowFree(v) /\ voucher[v] \in VoucherRows

Gives(e, s) ==
    /\ RowTaken(bill[e].voucher)
    /\ s \in Closing
    /\ bill[e].held
    /\ voucher[bill[e].voucher].uses > 0
    /\ voucher' = [voucher EXCEPT ![bill[e].voucher].uses = voucher[bill[e].voucher].uses - 1]
    /\ bill' = [bill EXCEPT ![e].status = s, ![e].held = FALSE, ![e].late = FALSE]

Takes(e, s) ==
    /\ RowTaken(bill[e].voucher)
    /\ ~bill[e].held
    /\ MayTake(e, s)
    /\ voucher' = [voucher EXCEPT ![bill[e].voucher].uses = voucher[bill[e].voucher].uses + 1]
    /\ bill' = [bill EXCEPT ![e].status = s, ![e].held = TRUE, ![e].late = (s = "paid")]

Keeps(e, s) ==
    /\ bill' = [bill EXCEPT ![e].status = s]
    /\ voucher' = voucher

LEMMA HoldersFinite ==
    ASSUME NEW v
    PROVE  IsFiniteSet(Holders(v)) /\ Cardinality(Holders(v)) \in Nat
BY ConstantsAssumption, FS_Subset, FS_CardinalityType DEF Holders

LEMMA HeldIsCounted ==
    ASSUME IInv, NEW e \in Enrollments, bill[e].held
    PROVE  voucher[bill[e].voucher].uses > 0
<1> DEFINE v == bill[e].voucher
<1>1. v \in VoucherIds
    BY DEF IInv, TypeOK
<1>2. e \in Holders(v)
    BY DEF Holders
<1>3. Cardinality(Holders(v)) # 0
    BY <1>2, HoldersFinite, FS_EmptySet
<1>4. voucher[v].uses = Cardinality(Holders(v))
    BY <1>1 DEF IInv, UsesAreHeld
<1> QED BY <1>3, <1>4, HoldersFinite

\* Each statement that changes a status has one of three effects.
LEMMA StatusEffects ==
    ASSUME IInv, NEW e \in Enrollments, StatusNext(e)
    PROVE  /\ bill[e] \in Bills /\ call' = call /\ clock' = clock
           /\ \E s \in Statuses : Gives(e, s) \/ Takes(e, s) \/ Keeps(e, s)
<1>1. PICK s \in Statuses : bill[e].status \in Statuses /\ Becomes(e, s)
    BY DEF StatusNext, Claims, Issues, Fails, Expires, Cancels, Pays, Refunds, Statuses
<1>2. bill[e] \in Bills
  <2>1. bill[e] \in Bills \cup {NoBill}
    BY DEF IInv, TypeOK
  <2>2. NoBill.status = "none"
    BY DEF NoBill
  <2> QED BY <1>1, <2>1, <2>2 DEF Statuses
<1>3. bill[e].voucher # None =>
          bill[e].voucher \in VoucherIds /\ voucher[bill[e].voucher] \in VoucherRows
  <2>1. bill[e].voucher # None => bill[e].voucher \in VoucherIds
    BY <1>2 DEF Bills
  <2>2. bill[e].voucher # None => voucher[bill[e].voucher] # NoVoucher
    BY DEF IInv, Referenced
  <2> QED BY <2>1, <2>2 DEF IInv, TypeOK
<1>4. CASE GivesBack(e, s)
  <2>1. bill[e].held /\ s \in Closing
    BY <1>4 DEF GivesBack, Closing
  <2>2. bill[e].voucher \in VoucherIds /\ bill[e].voucher # None
    BY <2>1, ConstantsAssumption DEF IInv, TypeOK
  <2>3. ~TakesAgain(e, s)
    BY <2>1 DEF TakesAgain
  <2>4. voucher[bill[e].voucher].uses > 0
    BY <2>1, HeldIsCounted
  <2> QED BY <1>1, <1>2, <1>3, <1>4, <2>1, <2>2, <2>3, <2>4
          DEF Becomes, Uses, Gives, RowTaken
<1>5. CASE TakesAgain(e, s)
  <2>1. ~GivesBack(e, s) /\ ~bill[e].held /\ bill[e].voucher # None
    BY <1>5 DEF TakesAgain, GivesBack
  <2> QED BY <1>1, <1>2, <1>3, <1>5, <2>1 DEF Becomes, Uses, Takes, RowTaken
<1>6. CASE ~GivesBack(e, s) /\ ~TakesAgain(e, s)
    BY <1>1, <1>2, <1>6 DEF Becomes, Keeps
<1> QED BY <1>4, <1>5, <1>6

LEMMA StatusChanges ==
    ASSUME IInv, NEW e \in Enrollments, StatusNext(e)
    PROVE  /\ call' = call /\ clock' = clock /\ bill[e] # NoBill
           /\ \E b \in Bills :
                  \/ RowFree(b.voucher) /\ (Gain(e, b, b.voucher) \/ Lose(e, b, b.voucher))
                  \/ Same(e, b)
<1>1. /\ bill[e] \in Bills /\ call' = call /\ clock' = clock
      /\ \E s \in Statuses : Gives(e, s) \/ Takes(e, s) \/ Keeps(e, s)
    BY StatusEffects
<1>2. PICK s \in Statuses : Gives(e, s) \/ Takes(e, s) \/ Keeps(e, s)
    BY <1>1
<1>3. bill[e] # NoBill
    BY <1>1 DEF NoBill, Bills, Statuses
<1>4. AddsUp(bill[e].price)
    BY <1>3 DEF IInv, SnapshotAddsUp
<1>5. bill \in [Enrollments -> Bills \cup {NoBill}]
    BY DEF IInv, TypeOK
<1>6. CASE Gives(e, s)
  <2> DEFINE b == [bill[e] EXCEPT !.status = s, !.held = FALSE, !.late = FALSE]
  <2>1. b \in Bills /\ b.price = bill[e].price /\ b.voucher = bill[e].voucher /\ ~b.held
    BY <1>1 DEF Bills
  <2>2. bill' = [bill EXCEPT ![e] = b]
    BY <1>1, <1>5, <1>6 DEF Gives, Bills
  <2> HIDE DEF b
  <2>3. RowFree(b.voucher) /\ Lose(e, b, b.voucher)
    BY <1>4, <1>6, <2>1, <2>2 DEF Gives, RowTaken, Lose, Billed
  <2> QED BY <1>1, <1>3, <2>1, <2>3
<1>7. CASE Takes(e, s)
  <2> DEFINE b == [bill[e] EXCEPT !.status = s, !.held = TRUE, !.late = (s = "paid")]
  <2>1. /\ b \in Bills /\ b.price = bill[e].price /\ b.voucher = bill[e].voucher
        /\ b.held /\ b.late = (s = "paid")
    BY <1>1 DEF Bills
  <2>2. bill' = [bill EXCEPT ![e] = b]
    BY <1>1, <1>5, <1>7 DEF Takes, Bills
  <2> HIDE DEF b
  <2>3. b.late \/ (Live(b.voucher) /\ QuotaLeft(b.voucher))
    BY <1>7, <2>1 DEF Takes, MayTake, Redeemable
  <2>4. RowFree(b.voucher) /\ Gain(e, b, b.voucher)
    BY <1>4, <1>7, <2>1, <2>2, <2>3 DEF Takes, RowTaken, Gain, Billed
  <2> QED BY <1>1, <1>3, <2>1, <2>4
<1>8. CASE Keeps(e, s)
  <2> DEFINE b == [bill[e] EXCEPT !.status = s]
  <2>1. /\ b \in Bills /\ b.price = bill[e].price /\ b.voucher = bill[e].voucher
        /\ b.held = bill[e].held /\ b.late = bill[e].late
    BY <1>1 DEF Bills
  <2>2. bill' = [bill EXCEPT ![e] = b]
    BY <1>1, <1>5, <1>8 DEF Keeps, Bills
  <2> HIDE DEF b
  <2>3. Same(e, b)
    BY <1>4, <1>8, <2>1, <2>2 DEF Keeps, Same, Billed
  <2> QED BY <1>1, <1>3, <2>1, <2>3
<1> QED BY <1>2, <1>6, <1>7, <1>8

LEMMA ChecksOutChanges ==
    ASSUME IInv, NEW c \in Calls, NEW p \in Policies, ChecksOut(c, p)
    PROVE  \E b \in Bills : Same(call[c].enrollment, b)
<1> DEFINE e == call[c].enrollment
           s == call[c].subtotal
           b == NewBill(None, Snapshot(p, s, 0, Gateway))
<1>1. e \in Enrollments /\ bill[e] = NoBill /\ s \in Nat
    BY DEF ChecksOut, IInv, TypeOK, Reads, CheckoutRead
<1>2. Payable(p, s - 0, Gateway)
    BY <1>1 DEF ChecksOut
<1>3. Snapshot(p, s, 0, Gateway) \in Prices /\ AddsUp(Snapshot(p, s, 0, Gateway))
    BY <1>1, <1>2, SnapshotSound
<1>4. bill' = [bill EXCEPT ![e] = b] /\ voucher' = voucher
    BY DEF ChecksOut
<1>5. /\ b \in Bills /\ b.voucher = None /\ b.held = FALSE /\ b.late = FALSE
      /\ b.price = Snapshot(p, s, 0, Gateway)
    BY <1>3 DEF NewBill, Bills, Statuses
<1>6. bill[e].held = FALSE /\ bill[e].late = FALSE
    BY <1>1 DEF NoBill
<1> HIDE DEF b
<1> QED BY <1>1, <1>3, <1>4, <1>5, <1>6 DEF Same, Billed

LEMMA RedeemsChanges ==
    ASSUME IInv, NEW c \in Calls, NEW p \in Policies, Redeems(c, p)
    PROVE  /\ call[c].voucher \in VoucherIds
           /\ Live(call[c].voucher)
           /\ QuotaLeft(call[c].voucher)
           /\ voucher[call[c].voucher].terms = call[c].terms
           /\ call[c].terms.active
           /\ \E b \in Bills :
                /\ bill[call[c].enrollment] = NoBill
                /\ Gain(call[c].enrollment, b, call[c].voucher)
                /\ b.price.discount = Discount(call[c].terms, b.price.subtotal)
<1> DEFINE e == call[c].enrollment
           s == call[c].subtotal
           v == call[c].voucher
           d == Discount(call[c].terms, s)
           q == Snapshot(p, s, d, Gateway)
           b == NewBill(v, q)
<1>1. call[c].step = "reserved"
    BY DEF Redeems
<1>2. /\ e \in Enrollments /\ bill[e] = NoBill /\ s \in Nat
      /\ v \in VoucherIds /\ Live(v) /\ QuotaLeft(v) /\ voucher[v].terms = call[c].terms
      /\ call[c].terms.active /\ call[c].terms \in Terms /\ ValidTerms(call[c].terms)
    BY <1>1 DEF IInv, TypeOK, Reads, CheckoutRead
<1>3. d \in 0..s
    BY <1>2, DiscountBounds
<1>4. Payable(p, s - d, Gateway)
    BY DEF Redeems
<1>5. q \in Prices /\ AddsUp(q)
  <2> HIDE DEF d, s
  <2> QED BY <1>2, <1>3, <1>4, SnapshotSound
<1>6. q.discount = d /\ q.subtotal = s
    BY DEF Snapshot
<1>7. bill' = [bill EXCEPT ![e] = b] /\ voucher' = [voucher EXCEPT ![v].uses = voucher[v].uses + 1]
    BY DEF Redeems
<1>8. b \in Bills /\ b.voucher = v /\ b.held /\ b.price = q
    BY <1>2, <1>5, ConstantsAssumption DEF NewBill, Bills, Statuses
<1>9. ~bill[e].held
    BY <1>2 DEF NoBill
<1>10. voucher[v] \in VoucherRows
    BY <1>2, LiveIsThere DEF IInv
<1>11. Gain(e, b, v)
  <2> HIDE DEF e, b, v, q
  <2> QED BY <1>2, <1>5, <1>7, <1>8, <1>9, <1>10 DEF Gain, Billed
<1>12. b.price.discount = Discount(call[c].terms, b.price.subtotal)
  <2> HIDE DEF b, q
  <2> QED BY <1>6, <1>8
<1> QED BY <1>2, <1>8, <1>11, <1>12

\* A call that revises a row gives it a new code only under the lock on codes.
Revises(c, r) ==
    /\ Revise(call[c].voucher, r)
    /\ r.state = "live" =>
           \/ call[c].naming
           \/ Live(call[c].voucher) /\ r.code = voucher[call[c].voucher].code

LEMMA CreatesChanges ==
    ASSUME IInv, NEW c \in Calls, Creates(c)
    PROVE  \E r \in VoucherRows : Revises(c, r)
<1> DEFINE v == call[c].voucher
           r == [state |-> "live", code |-> call[c].code, terms |-> call[c].terms, uses |-> 0]
<1>1. call[c].step = "create"
    BY DEF Creates
<1>2. v \in VoucherIds /\ call[c].code \in Spellings /\ call[c].terms \in Terms
    BY <1>1 DEF IInv, TypeOK
<1>3. /\ voucher[v] = NoVoucher /\ Editable(call[c].terms, 0) /\ call[c].naming
      /\ CodeUnused(v, call[c].code)
    BY <1>1 DEF IInv, Reads, RowRead, CodeRead
<1>4. voucher' = [voucher EXCEPT ![v] = r] /\ bill' = bill
    BY DEF Creates
<1>5. /\ r \in VoucherRows /\ r.uses = 0 /\ r.state = "live"
      /\ r.code = call[c].code /\ r.terms = call[c].terms
    BY <1>2 DEF VoucherRows
<1>6. voucher[v].uses = 0
    BY <1>3 DEF NoVoucher
<1> HIDE DEF r
<1> QED BY <1>2, <1>3, <1>4, <1>5, <1>6 DEF Revises, Revise

LEMMA EditsChanges ==
    ASSUME IInv, NEW c \in Calls, Edits(c)
    PROVE  \E r \in VoucherRows : Revises(c, r)
<1> DEFINE v == call[c].voucher
           r == [voucher[v] EXCEPT !.code = call[c].code, !.terms = call[c].terms,
                                   !.uses = call[c].uses]
<1>1. call[c].step = "edit"
    BY DEF Edits
<1>2. v \in VoucherIds /\ call[c].code \in Spellings /\ call[c].terms \in Terms
    BY <1>1 DEF IInv, TypeOK
<1>3. /\ Live(v) /\ call[c].uses = voucher[v].uses /\ Editable(call[c].terms, call[c].uses)
      /\ call[c].naming => CodeUnused(v, call[c].code)
      /\ ~call[c].naming => call[c].code = voucher[v].code
    BY <1>1 DEF IInv, Reads, RowRead, CodeRead
<1>4. voucher[v] \in VoucherRows /\ call[c].uses \in Nat
    BY <1>2, <1>3, LiveIsThere DEF IInv
<1>5. CodeUnused(v, voucher[v].code)
    BY <1>2, <1>3 DEF IInv, LiveCodesUnique, CodeUnused, SameCode
<1>6. CodeUnused(v, call[c].code)
    BY <1>3, <1>5
<1>7. voucher' = [voucher EXCEPT ![v] = r] /\ bill' = bill
    BY <1>2, <1>4 DEF Edits, VoucherRows, IInv, TypeOK
<1>8. /\ r \in VoucherRows /\ r.state = "live" /\ r.uses = call[c].uses
      /\ r.code = call[c].code /\ r.terms = call[c].terms
    BY <1>2, <1>3, <1>4 DEF VoucherRows, Live
<1> HIDE DEF r
<1> QED BY <1>2, <1>3, <1>6, <1>7, <1>8 DEF Revises, Revise

LEMMA DeletesChanges ==
    ASSUME IInv, NEW c \in Calls, Deletes(c)
    PROVE  \E r \in VoucherRows : Revises(c, r)
<1> DEFINE v == call[c].voucher
           r == [voucher[v] EXCEPT !.state = "deleted"]
<1>1. call[c].step = "delete"
    BY DEF Deletes
<1>2. v \in VoucherIds /\ Live(v) /\ voucher[v].uses = 0
    BY <1>1 DEF IInv, TypeOK, Reads, RowRead
<1>3. voucher[v] \in VoucherRows
    BY <1>2, LiveIsThere DEF IInv
<1>4. voucher' = [voucher EXCEPT ![v] = r] /\ bill' = bill
    BY <1>2, <1>3 DEF Deletes, VoucherRows, IInv, TypeOK
<1>5. /\ r \in VoucherRows /\ r.state = "deleted" /\ r.uses = 0
      /\ r.terms = voucher[v].terms
    BY <1>2, <1>3 DEF VoucherRows
<1> HIDE DEF r
<1> QED BY <1>2, <1>3, <1>4, <1>5 DEF Revises, Revise

LEMMA FinishChanges ==
    ASSUME IInv, NEW c \in Calls, Finishes(c)
    PROVE  \/ voucher' = voucher /\ bill' = bill
           \/ \E b \in Bills : Same(call[c].enrollment, b)
           \/ \E b \in Bills : Gain(call[c].enrollment, b, call[c].voucher)
           \/ \E r \in VoucherRows : Revises(c, r)
<1>1. CASE \E p \in Policies : ChecksOut(c, p)
    BY <1>1, ChecksOutChanges
<1>2. CASE \E p \in Policies : Redeems(c, p)
    BY <1>2, RedeemsChanges DEF Gain, Billed
<1>3. CASE Creates(c) \/ Edits(c) \/ Deletes(c)
    BY <1>3, CreatesChanges, EditsChanges, DeletesChanges
<1>4. CASE RollsBack(c)
    BY <1>4 DEF RollsBack
<1> QED BY <1>1, <1>2, <1>3, <1>4 DEF Finishes

-----------------------------------------------------------------------------
(* The rows keep their invariants *)

RowTypes ==
    /\ voucher \in [VoucherIds -> VoucherRows \cup {NoVoucher}]
    /\ bill \in [Enrollments -> Bills \cup {NoBill}]
    /\ \A e \in Enrollments : bill[e].held => bill[e].voucher \in VoucherIds

RowInv ==
    /\ RowTypes
    /\ Referenced
    /\ UsesAreHeld
    /\ QuotaHolds
    /\ HeldVoucherNotDeleted
    /\ LiveCodesUnique
    /\ SnapshotAddsUp

\* The holders the quota counts.
Prompt(v) == {e \in Holders(v) : ~bill[e].late}

LEMMA PromptCounted ==
    ASSUME NEW v
    PROVE  /\ Cardinality(Prompt(v)) \in Nat
           /\ Cardinality(Prompt(v)) <= Cardinality(Holders(v))
<1>1. Prompt(v) \subseteq Holders(v)
    BY DEF Prompt
<1> QED BY <1>1, HoldersFinite, FS_Subset, FS_CardinalityType

LEMMA PromptCountedNext ==
    ASSUME NEW v
    PROVE  /\ Cardinality(Prompt(v)') \in Nat
           /\ Cardinality(Prompt(v)') <= Cardinality(Holders(v)')
<1>1. Holders(v)' \subseteq Enrollments
    BY DEF Holders
<1>2. IsFiniteSet(Holders(v)')
    BY <1>1, ConstantsAssumption, FS_Subset
<1>3. Prompt(v)' \subseteq Holders(v)'
    BY DEF Prompt
<1> QED BY <1>2, <1>3, FS_Subset, FS_CardinalityType

LEMMA QuotaOfPrompt ==
    QuotaHolds <=>
        \A v \in VoucherIds :
            voucher[v].state # "absent" /\ voucher[v].terms.max # 0 =>
                Cardinality(Prompt(v)) <= voucher[v].terms.max
BY DEF QuotaHolds, Prompt

LEMMA RowNumbers ==
    ASSUME NEW r \in VoucherRows
    PROVE  r.uses \in Nat /\ r.terms.max \in Nat /\ r.state # "absent"
BY ConstantsAssumption DEF VoucherRows

LEMMA SameKeeps ==
    ASSUME RowInv, NEW e, NEW b, Same(e, b)
    PROVE  RowInv'
<1>1. e \in Enrollments /\ b \in Bills /\ bill' = [bill EXCEPT ![e] = b] /\ voucher' = voucher
    BY DEF Same, Billed
<1>2. RowTypes
    BY DEF RowInv
<1>3. /\ \A x \in Enrollments \ {e} : bill'[x] = bill[x]
      /\ bill'[e] = b
    BY <1>1, <1>2 DEF RowTypes
<1>4. /\ b.held = bill[e].held /\ b.late = bill[e].late
      /\ b.voucher # None => b.voucher = bill[e].voucher
      /\ b.held => b.voucher = bill[e].voucher
      /\ AddsUp(b.price)
    BY DEF Same, Billed
<1>5. \A w : Holders(w)' = Holders(w) /\ Prompt(w)' = Prompt(w)
    BY <1>3, <1>4 DEF Holders, Prompt
<1>6. RowTypes'
    BY <1>1, <1>2, <1>3, <1>4 DEF RowTypes
<1>7. Referenced'
    BY <1>1, <1>3, <1>4 DEF RowInv, Referenced
<1>8. UsesAreHeld'
    BY <1>1, <1>5 DEF RowInv, UsesAreHeld
<1>9. QuotaHolds'
    BY <1>1, <1>5, QuotaOfPrompt DEF RowInv, QuotaHolds, Prompt
<1>10. HeldVoucherNotDeleted'
    BY <1>1, <1>3, <1>4 DEF RowInv, HeldVoucherNotDeleted, Live
<1>11. LiveCodesUnique'
    BY <1>1 DEF RowInv, LiveCodesUnique, Live, SameCode
<1>12. SnapshotAddsUp'
    BY <1>3, <1>4 DEF RowInv, SnapshotAddsUp
<1> QED BY <1>6, <1>7, <1>8, <1>9, <1>10, <1>11, <1>12 DEF RowInv

\* What a change of the row of one voucher and of its holders must do.
LEMMA OneRowKeeps ==
    ASSUME RowInv, NEW v \in VoucherIds, NEW r \in VoucherRows,
           voucher' = [voucher EXCEPT ![v] = r],
           \A w \in VoucherIds \ {v} : Holders(w)' = Holders(w) /\ Prompt(w)' = Prompt(w),
           r.uses = Cardinality(Holders(v)'),
           r.terms.max # 0 => Cardinality(Prompt(v)') <= r.terms.max
    PROVE  UsesAreHeld' /\ QuotaHolds'
<1>1. /\ \A w \in VoucherIds \ {v} : voucher'[w] = voucher[w]
      /\ voucher'[v] = r
    BY DEF RowInv, RowTypes
<1>2. UsesAreHeld'
    BY <1>1 DEF RowInv, UsesAreHeld
<1>3. \A w \in VoucherIds :
          voucher'[w].state # "absent" /\ voucher'[w].terms.max # 0 =>
              Cardinality(Prompt(w)') <= voucher'[w].terms.max
    BY <1>1, QuotaOfPrompt DEF RowInv
<1>4. QuotaHolds'
    BY <1>3 DEF QuotaHolds, Prompt
<1> QED BY <1>2, <1>4

\* Uses alone change.
LEMMA CodesKept ==
    ASSUME RowInv, NEW v \in VoucherIds, NEW r \in VoucherRows,
           voucher' = [voucher EXCEPT ![v] = r],
           r.state = voucher[v].state, r.code = voucher[v].code
    PROVE  LiveCodesUnique' /\ \A w \in VoucherIds : Live(w)' = Live(w)
<1>1. \A w \in VoucherIds :
          voucher'[w].state = voucher[w].state /\ voucher'[w].code = voucher[w].code
    BY DEF RowInv, RowTypes
<1>2. \A w \in VoucherIds : Live(w)' = Live(w)
    BY <1>1 DEF Live
<1> QED BY <1>1, <1>2 DEF RowInv, LiveCodesUnique, SameCode

LEMMA GainKeeps ==
    ASSUME RowInv, NEW e, NEW b, NEW v, Gain(e, b, v)
    PROVE  RowInv'
<1> DEFINE r == [voucher[v] EXCEPT !.uses = voucher[v].uses + 1]
<1>1. /\ e \in Enrollments /\ b \in Bills /\ bill' = [bill EXCEPT ![e] = b]
      /\ v \in VoucherIds /\ voucher[v] \in VoucherRows
      /\ voucher' = [voucher EXCEPT ![v] = r] /\ AddsUp(b.price)
    BY DEF Gain, Billed
<1>2. /\ r \in VoucherRows /\ r.uses = voucher[v].uses + 1 /\ r.terms = voucher[v].terms
      /\ r.state = voucher[v].state /\ r.code = voucher[v].code
    BY <1>1 DEF VoucherRows
<1> HIDE DEF r
<1>3. RowTypes
    BY DEF RowInv
<1>4. /\ \A x \in Enrollments \ {e} : bill'[x] = bill[x]
      /\ bill'[e] = b
      /\ \A w \in VoucherIds \ {v} : voucher'[w] = voucher[w]
      /\ voucher'[v] = r
    BY <1>1, <1>3 DEF RowTypes
<1>5. b.held /\ b.voucher = v /\ ~bill[e].held
    BY DEF Gain
<1>6. /\ Holders(v)' = Holders(v) \cup {e}
      /\ e \notin Holders(v)
      /\ Prompt(v)' = IF b.late THEN Prompt(v) ELSE Prompt(v) \cup {e}
      /\ \A w \in VoucherIds \ {v} : Holders(w)' = Holders(w) /\ Prompt(w)' = Prompt(w)
    BY <1>1, <1>4, <1>5 DEF Holders, Prompt
<1>7. Cardinality(Holders(v)') = Cardinality(Holders(v)) + 1
    BY <1>6, HoldersFinite, FS_AddElement
<1>8. voucher[v].uses = Cardinality(Holders(v))
    BY <1>1 DEF RowInv, UsesAreHeld
<1>9. r.terms.max # 0 => Cardinality(Prompt(v)') <= r.terms.max
  <2>1. CASE b.late
    BY <1>1, <1>2, <1>6, <2>1, RowNumbers, QuotaOfPrompt DEF RowInv
  <2>2. CASE ~b.late
    <3>1. QuotaLeft(v)
        BY <2>2 DEF Gain
    <3> QED BY <1>1, <1>2, <1>7, <1>8, <3>1, HoldersFinite, PromptCountedNext, RowNumbers
            DEF QuotaLeft
  <2> QED BY <2>1, <2>2
<1>10. UsesAreHeld' /\ QuotaHolds'
    BY <1>1, <1>2, <1>6, <1>7, <1>8, <1>9, OneRowKeeps
<1>11. LiveCodesUnique' /\ \A w \in VoucherIds : Live(w)' = Live(w)
    BY <1>1, <1>2, CodesKept
<1>12. RowTypes'
    BY <1>1, <1>2, <1>3, <1>4, <1>5 DEF RowTypes
<1>13. r # NoVoucher
    BY <1>2, RowNumbers DEF NoVoucher
<1>14. Referenced'
  <2>1. \A x \in Enrollments : bill[x].voucher \in VoucherIds \cup {None}
    BY <1>3 DEF RowTypes, Bills, NoBill
  <2> QED BY <1>1, <1>4, <1>5, <1>13, <2>1 DEF RowInv, Referenced
<1>15. HeldVoucherNotDeleted'
  <2>1. ~b.late => Live(v)
    BY DEF Gain
  <2> QED BY <1>1, <1>3, <1>4, <1>5, <1>11, <2>1 DEF RowInv, RowTypes, HeldVoucherNotDeleted
<1>16. SnapshotAddsUp'
    BY <1>1, <1>4 DEF RowInv, SnapshotAddsUp
<1> QED BY <1>10, <1>11, <1>12, <1>14, <1>15, <1>16 DEF RowInv

LEMMA LoseKeeps ==
    ASSUME RowInv, NEW e, NEW b, NEW v, Lose(e, b, v)
    PROVE  RowInv'
<1> DEFINE r == [voucher[v] EXCEPT !.uses = voucher[v].uses - 1]
<1>1. /\ e \in Enrollments /\ b \in Bills /\ bill' = [bill EXCEPT ![e] = b]
      /\ v \in VoucherIds /\ voucher[v] \in VoucherRows
      /\ voucher' = [voucher EXCEPT ![v] = r] /\ AddsUp(b.price)
    BY DEF Lose, Billed
<1>2. /\ r \in VoucherRows /\ r.uses = voucher[v].uses - 1 /\ r.terms = voucher[v].terms
      /\ r.state = voucher[v].state /\ r.code = voucher[v].code
    BY <1>1 DEF VoucherRows, Lose
<1> HIDE DEF r
<1>3. RowTypes
    BY DEF RowInv
<1>4. /\ \A x \in Enrollments \ {e} : bill'[x] = bill[x]
      /\ bill'[e] = b
      /\ \A w \in VoucherIds \ {v} : voucher'[w] = voucher[w]
      /\ voucher'[v] = r
    BY <1>1, <1>3 DEF RowTypes
<1>5. ~b.held /\ b.voucher = v /\ bill[e].held /\ bill[e].voucher = v
    BY DEF Lose
<1>6. /\ Holders(v)' = Holders(v) \ {e}
      /\ e \in Holders(v)
      /\ Prompt(v)' \subseteq Prompt(v)
      /\ \A w \in VoucherIds \ {v} : Holders(w)' = Holders(w) /\ Prompt(w)' = Prompt(w)
    BY <1>1, <1>4, <1>5 DEF Holders, Prompt
<1>7. Cardinality(Holders(v)') = Cardinality(Holders(v)) - 1
    BY <1>6, HoldersFinite, FS_RemoveElement
<1>8. voucher[v].uses = Cardinality(Holders(v))
    BY <1>1 DEF RowInv, UsesAreHeld
<1>9. r.terms.max # 0 => Cardinality(Prompt(v)') <= r.terms.max
  <2>1. IsFiniteSet(Prompt(v))
    BY HoldersFinite, FS_Subset DEF Prompt
  <2>2. Cardinality(Prompt(v)') <= Cardinality(Prompt(v))
    BY <1>6, <2>1, FS_Subset
  <2>3. r.terms.max # 0 => Cardinality(Prompt(v)) <= r.terms.max
    BY <1>1, <1>2, RowNumbers, QuotaOfPrompt DEF RowInv
  <2> QED BY <1>2, <2>2, <2>3, PromptCounted, PromptCountedNext, RowNumbers
<1>10. UsesAreHeld' /\ QuotaHolds'
    BY <1>1, <1>2, <1>6, <1>7, <1>8, <1>9, OneRowKeeps
<1>11. LiveCodesUnique' /\ \A w \in VoucherIds : Live(w)' = Live(w)
    BY <1>1, <1>2, CodesKept
<1>12. RowTypes'
    BY <1>1, <1>2, <1>3, <1>4, <1>5 DEF RowTypes
<1>13. r # NoVoucher
    BY <1>2, RowNumbers DEF NoVoucher
<1>14. Referenced'
  <2>1. \A x \in Enrollments : bill[x].voucher \in VoucherIds \cup {None}
    BY <1>3 DEF RowTypes, Bills, NoBill
  <2> QED BY <1>1, <1>4, <1>5, <1>13, <2>1 DEF RowInv, Referenced
<1>15. HeldVoucherNotDeleted'
    BY <1>1, <1>3, <1>4, <1>5, <1>11 DEF RowInv, RowTypes, HeldVoucherNotDeleted
<1>16. SnapshotAddsUp'
    BY <1>1, <1>4 DEF RowInv, SnapshotAddsUp
<1> QED BY <1>10, <1>11, <1>12, <1>14, <1>15, <1>16 DEF RowInv

LEMMA ReviseKeeps ==
    ASSUME RowInv, NEW v, NEW r, Revise(v, r)
    PROVE  RowInv'
<1>1. /\ v \in VoucherIds /\ r \in VoucherRows
      /\ voucher' = [voucher EXCEPT ![v] = r] /\ bill' = bill
    BY DEF Revise
<1>2. RowTypes
    BY DEF RowInv
<1>3. /\ \A w \in VoucherIds \ {v} : voucher'[w] = voucher[w]
      /\ voucher'[v] = r
    BY <1>1, <1>2 DEF RowTypes
<1>4. \A w : Holders(w)' = Holders(w) /\ Prompt(w)' = Prompt(w)
    BY <1>1 DEF Holders, Prompt
<1>5. r.uses = Cardinality(Holders(v))
    BY <1>1 DEF Revise, RowInv, UsesAreHeld
<1>6. r.terms.max # 0 => Cardinality(Prompt(v)') <= r.terms.max
  <2>1. r.terms.max # 0 => r.uses <= r.terms.max
    BY <1>1, RowNumbers DEF Revise, Editable
  <2> QED BY <1>1, <1>4, <1>5, <2>1, PromptCounted, HoldersFinite, RowNumbers
<1>7. UsesAreHeld' /\ QuotaHolds'
    BY <1>1, <1>4, <1>5, <1>6, OneRowKeeps
<1>8. LiveCodesUnique'
  <2>1. CASE r.state = "deleted"
    BY <1>3, <2>1 DEF LiveCodesUnique, RowInv, Live, SameCode
  <2>2. CASE r.state = "live"
    <3>1. CodeUnused(v, r.code)
        BY <2>2 DEF Revise
    <3> QED BY <1>3, <3>1 DEF CodeUnused, LiveCodesUnique, RowInv, Live, SameCode
  <2> QED BY <1>1, <2>1, <2>2 DEF VoucherRows
<1>9. RowTypes'
    BY <1>1, <1>2, <1>3 DEF RowTypes
<1>10. r # NoVoucher
    BY <1>1, RowNumbers DEF NoVoucher
<1>11. Referenced'
    BY <1>1, <1>2, <1>3, <1>10 DEF RowInv, Referenced, RowTypes
<1>12. HeldVoucherNotDeleted'
  <2>1. CASE r.state = "deleted"
    <3>1. Cardinality(Holders(v)) = 0
        BY <1>5, <2>1 DEF Revise
    <3>2. Holders(v) = {}
        BY <3>1, HoldersFinite, FS_EmptySet
    <3> QED BY <1>1, <1>2, <1>3, <3>2 DEF Holders, RowInv, RowTypes, HeldVoucherNotDeleted, Live
  <2>2. CASE r.state = "live"
    BY <1>1, <1>2, <1>3, <2>2 DEF RowInv, RowTypes, HeldVoucherNotDeleted, Live
  <2> QED BY <1>1, <2>1, <2>2 DEF VoucherRows
<1>13. SnapshotAddsUp'
    BY <1>1 DEF RowInv, SnapshotAddsUp
<1> QED BY <1>7, <1>8, <1>9, <1>11, <1>12, <1>13 DEF RowInv

-----------------------------------------------------------------------------
(* The invariant *)

\* What the steps of the system do to the rows.
LEMMA RowChanges ==
    ASSUME IInv, Next
    PROVE  \/ voucher' = voucher /\ bill' = bill
           \/ \E e \in Enrollments, b \in Bills : Same(e, b)
           \/ \E e \in Enrollments, b \in Bills, v \in VoucherIds : Gain(e, b, v) \/ Lose(e, b, v)
           \/ \E v \in VoucherIds, r \in VoucherRows : Revise(v, r)
<1>1. CASE Tick
    BY <1>1 DEF Tick
<1>2. ASSUME NEW e \in Enrollments, StatusNext(e)
      PROVE  \E b \in Bills :
                 \/ \E v \in VoucherIds : Gain(e, b, v) \/ Lose(e, b, v)
                 \/ Same(e, b)
  <2>1. PICK b \in Bills :
            \/ Gain(e, b, b.voucher) \/ Lose(e, b, b.voucher)
            \/ Same(e, b)
    BY <1>2, StatusChanges
  <2>2. Gain(e, b, b.voucher) \/ Lose(e, b, b.voucher) => b.voucher \in VoucherIds
    BY DEF Gain, Lose
  <2> QED BY <2>1, <2>2
<1>3. ASSUME NEW c \in Calls, CallNext(c)
      PROVE  \/ voucher' = voucher /\ bill' = bill
             \/ \E e \in Enrollments, b \in Bills : Same(e, b)
             \/ \E e \in Enrollments, b \in Bills, v \in VoucherIds : Gain(e, b, v)
             \/ \E v \in VoucherIds, r \in VoucherRows : Revise(v, r)
  <2>1. CASE Starts(c)
    BY <2>1, StartKeepsRows
  <2>2. CASE Finishes(c)
    BY <2>2, FinishChanges DEF Gain, Same, Billed, Revises, Revise
  <2> QED BY <1>3, <2>1, <2>2, CallCases
<1> QED BY <1>1, <1>2, <1>3 DEF Next

LEMMA RowsKeepInv ==
    ASSUME IInv, Next
    PROVE  RowInv'
<1>1. RowInv
    BY DEF IInv, TypeOK, RowInv, RowTypes
<1>2. CASE voucher' = voucher /\ bill' = bill
  <2> USE <1>2
  <2>1. \A v : Holders(v)' = Holders(v)
    BY DEF Holders
  <2>2. RowTypes' /\ Referenced' /\ UsesAreHeld'
    BY <1>1, <2>1 DEF RowInv, RowTypes, Referenced, UsesAreHeld
  <2>3. QuotaHolds' /\ HeldVoucherNotDeleted' /\ LiveCodesUnique' /\ SnapshotAddsUp'
    BY <1>1, <2>1 DEF RowInv, QuotaHolds, HeldVoucherNotDeleted, LiveCodesUnique, SnapshotAddsUp,
                      Live, SameCode
  <2> QED BY <2>2, <2>3 DEF RowInv
<1> QED BY <1>1, <1>2, RowChanges, SameKeeps, GainKeeps, LoseKeeps, ReviseKeeps

\* A call keeps what it read while others step.
LEMMA OthersKeepReads ==
    ASSUME IInv, NEW d \in Calls, call'[d] = call[d],
           call[d].step \in {"checkout", "reserved"} =>
               bill'[call[d].enrollment] = bill[call[d].enrollment],
           call[d].step \in {"reserved", "create", "edit", "delete"} =>
               voucher'[call[d].voucher] = voucher[call[d].voucher],
           call[d].naming =>
               \A w \in VoucherIds \ {call[d].voucher} :
                   Live(w)' => Live(w) /\ voucher'[w].code = voucher[w].code
    PROVE  Argued(d)' /\ CheckoutRead(d)' /\ RowRead(d)' /\ CodeRead(d)'
<1>1. Argued(d) /\ CheckoutRead(d) /\ RowRead(d) /\ CodeRead(d)
    BY DEF IInv, Reads
<1>2. Argued(d)'
    BY <1>1 DEF Argued
<1>3. CheckoutRead(d)'
    BY <1>1 DEF CheckoutRead, Live, QuotaLeft
<1>4. RowRead(d)'
    BY <1>1 DEF RowRead, Live
<1>5. CodeRead(d)'
    BY <1>1 DEF CodeRead, CodeUnused, SameCode
<1> QED BY <1>2, <1>3, <1>4, <1>5

LEMMA StatusKeepsReads ==
    ASSUME IInv, NEW e \in Enrollments, StatusNext(e), NEW d \in Calls
    PROVE  Argued(d)' /\ CheckoutRead(d)' /\ RowRead(d)' /\ CodeRead(d)'
<1>1. PICK b \in Bills :
          /\ call' = call /\ bill[e] # NoBill
          /\ \/ RowFree(b.voucher) /\ (Gain(e, b, b.voucher) \/ Lose(e, b, b.voucher))
             \/ Same(e, b)
    BY StatusChanges
<1>2. bill \in [Enrollments -> Bills \cup {NoBill}] /\ bill' = [bill EXCEPT ![e] = b]
    BY <1>1 DEF Gain, Lose, Same, Billed, IInv, TypeOK
<1>3. call[d].step \in {"checkout", "reserved"} =>
          bill'[call[d].enrollment] = bill[call[d].enrollment]
    BY <1>1, <1>2 DEF IInv, TypeOK, Reads, CheckoutRead
<1>4. call[d].step \in {"reserved", "create", "edit", "delete"} => call[d].voucher \in VoucherIds
    BY DEF IInv, TypeOK
<1>5. CASE Same(e, b)
  <2>1. voucher' = voucher
    BY <1>5 DEF Same
  <2> QED BY <1>1, <1>3, <2>1, OthersKeepReads DEF Live
<1>6. CASE RowFree(b.voucher) /\ (Gain(e, b, b.voucher) \/ Lose(e, b, b.voucher))
  <2> DEFINE v == b.voucher
  <2>1. v \in VoucherIds /\ voucher[v] \in VoucherRows
    BY <1>6 DEF Gain, Lose
  <2>2. voucher[v] # NoVoucher
    BY <2>1, RowNumbers DEF NoVoucher
  <2>3. call[d].voucher # v
    BY <1>6, <2>1, <2>2, RowIsFree
  <2>4. \E n : voucher' = [voucher EXCEPT ![v].uses = n]
    <3>1. CASE Gain(e, b, v)
        BY <3>1 DEF Gain
    <3>2. CASE Lose(e, b, v)
        BY <3>2 DEF Lose
    <3> QED BY <1>6, <3>1, <3>2
  <2> HIDE DEF v
  <2>5. /\ \A w \in VoucherIds \ {v} : voucher'[w] = voucher[w]
        /\ voucher'[v].state = voucher[v].state /\ voucher'[v].code = voucher[v].code
    BY <2>1, <2>4 DEF IInv, TypeOK, VoucherRows
  <2>6. \A w \in VoucherIds : Live(w)' => Live(w) /\ voucher'[w].code = voucher[w].code
    BY <2>5 DEF Live
  <2> QED BY <1>1, <1>3, <1>4, <2>3, <2>5, <2>6, OthersKeepReads
<1> QED BY <1>1, <1>5, <1>6

LEMMA FinishKeepsReads ==
    ASSUME IInv, NEW c \in Calls, Finishes(c), NEW d \in Calls, d # c, call'[d] = call[d]
    PROVE  Argued(d)' /\ CheckoutRead(d)' /\ RowRead(d)' /\ CodeRead(d)'
<1>1. Apart(call[c], call[d]) /\ Apart(call[d], call[c])
    BY DEF IInv, Locks
<1>2. /\ call[d].step \in {"reserved", "create", "edit", "delete"} => call[d].voucher \in VoucherIds
      /\ call[d].step \in {"checkout", "reserved"} => call[d].enrollment \in Enrollments
      /\ None \notin VoucherIds \cup Enrollments
    BY ConstantsAssumption DEF IInv, TypeOK
<1>3. bill \in [Enrollments -> Bills \cup {NoBill}]
      /\ voucher \in [VoucherIds -> VoucherRows \cup {NoVoucher}]
    BY DEF IInv, TypeOK
<1>4. CASE voucher' = voucher /\ bill' = bill
    BY <1>4, OthersKeepReads DEF Live
<1>5. ASSUME NEW b \in Bills, Same(call[c].enrollment, b)
      PROVE  Argued(d)' /\ CheckoutRead(d)' /\ RowRead(d)' /\ CodeRead(d)'
  <2>1. voucher' = voucher /\ bill' = [bill EXCEPT ![call[c].enrollment] = b]
    BY <1>5 DEF Same, Billed
  <2>2. call[d].step \in {"checkout", "reserved"} => call[d].enrollment # call[c].enrollment
    BY <1>1, <1>2 DEF Apart
  <2> QED BY <1>2, <1>3, <2>1, <2>2, OthersKeepReads DEF Live
<1>6. ASSUME NEW b \in Bills, Gain(call[c].enrollment, b, call[c].voucher)
      PROVE  Argued(d)' /\ CheckoutRead(d)' /\ RowRead(d)' /\ CodeRead(d)'
  <2> DEFINE v == call[c].voucher
             e == call[c].enrollment
  <2>1. /\ bill' = [bill EXCEPT ![e] = b] /\ v \in VoucherIds /\ voucher[v] \in VoucherRows
        /\ voucher' = [voucher EXCEPT ![v].uses = voucher[v].uses + 1]
    BY <1>6 DEF Gain, Billed
  <2>2. call[d].step \in {"checkout", "reserved"} => call[d].enrollment # e
    BY <1>1, <1>2 DEF Apart
  <2>3. call[d].voucher # v
    BY <1>1, <1>2, <2>1 DEF Apart
  <2>4. /\ \A w \in VoucherIds \ {v} : voucher'[w] = voucher[w]
        /\ voucher'[v].state = voucher[v].state /\ voucher'[v].code = voucher[v].code
    BY <1>3, <2>1 DEF VoucherRows
  <2>5. \A w \in VoucherIds : Live(w)' => Live(w) /\ voucher'[w].code = voucher[w].code
    BY <2>4 DEF Live
  <2>6. call[d].step \in {"checkout", "reserved"} =>
            bill'[call[d].enrollment] = bill[call[d].enrollment]
    BY <1>2, <1>3, <2>1, <2>2
  <2> HIDE DEF v, e
  <2> QED BY <1>2, <2>3, <2>4, <2>5, <2>6, OthersKeepReads
<1>7. ASSUME NEW r \in VoucherRows, Revises(c, r)
      PROVE  Argued(d)' /\ CheckoutRead(d)' /\ RowRead(d)' /\ CodeRead(d)'
  <2> DEFINE v == call[c].voucher
  <2>1. v \in VoucherIds /\ voucher' = [voucher EXCEPT ![v] = r] /\ bill' = bill
    BY <1>7 DEF Revises, Revise
  <2>2. call[d].voucher # v
    BY <1>1, <1>2, <2>1 DEF Apart
  <2>3. voucher'[v] = r /\ \A w \in VoucherIds \ {v} : voucher'[w] = voucher[w]
    BY <1>3, <2>1
  <2>4. call[d].naming => ~call[c].naming
    BY <1>1 DEF Apart
  <2>5. call[d].naming /\ r.state = "live" => Live(v) /\ r.code = voucher[v].code
    BY <1>7, <2>4 DEF Revises
  <2>6. call[d].naming =>
            \A w \in VoucherIds : Live(w)' => Live(w) /\ voucher'[w].code = voucher[w].code
    BY <2>3, <2>5 DEF Live
  <2> HIDE DEF v
  <2> QED BY <1>2, <2>1, <2>2, <2>3, <2>6, OthersKeepReads
<1> QED BY <1>4, <1>5, <1>6, <1>7, FinishChanges

LEMMA LocksKept ==
    ASSUME IInv, NEW c \in Calls, CallNext(c)
    PROVE  Locks'
<1>1. Ready(c)
    BY CallCases, StartIsReady, FinishIsReady
<1>2. \A d \in Calls : d # c => call'[d] = call[d]
    BY OneMoves DEF IInv
<1>3. \A d, f \in Calls : d # f => Apart(call[d], call[f])
    BY DEF IInv, Locks
<1> SUFFICES ASSUME NEW d \in Calls, NEW f \in Calls, d # f
             PROVE  Apart(call'[d], call'[f])
    BY DEF Locks, Apart
<1>4. CASE d = c
    BY <1>1, <1>2, <1>4 DEF Ready
<1>5. CASE f = c
    BY <1>1, <1>2, <1>5 DEF Ready
<1>6. CASE d # c /\ f # c
    BY <1>2, <1>3, <1>6
<1> QED BY <1>4, <1>5, <1>6

LEMMA ReadsKept ==
    ASSUME IInv, NEW c \in Calls, CallNext(c)
    PROVE  Reads'
<1>1. Ready(c)
    BY CallCases, StartIsReady, FinishIsReady
<1>2. ASSUME NEW d \in Calls, d # c
      PROVE  Argued(d)' /\ CheckoutRead(d)' /\ RowRead(d)' /\ CodeRead(d)'
  <2>1. call'[d] = call[d]
    BY <1>2, OneMoves DEF IInv
  <2>2. CASE Starts(c)
    BY <2>1, <2>2, StartKeepsRows, OthersKeepReads DEF Live
  <2>3. CASE Finishes(c)
    BY <1>2, <2>1, <2>3, FinishKeepsReads
  <2> QED BY <2>2, <2>3, CallCases
<1> QED BY <1>1, <1>2 DEF Reads, Ready

LEMMA CallsTyped ==
    ASSUME IInv, Next
    PROVE  call' \in [Calls -> CallRecords] /\ \A d \in Calls : Known(call'[d])
<1>1. call \in [Calls -> CallRecords] /\ \A d \in Calls : Known(call[d])
    BY DEF IInv, TypeOK, CallRecords, Known
<1>2. CASE Tick
    BY <1>1, <1>2 DEF Tick
<1>3. ASSUME NEW e \in Enrollments, StatusNext(e)
      PROVE  call' = call
    BY <1>3, StatusChanges
<1>4. ASSUME NEW c \in Calls, CallNext(c)
      PROVE  call' \in [Calls -> CallRecords] /\ \A d \in Calls : Known(call'[d])
  <2>1. /\ call' = [call EXCEPT ![c] = call'[c]]
        /\ call'[c] \in CallRecords
        /\ Known(call'[c])
    BY <1>4, CallTyped DEF IInv
  <2>2. \A d \in Calls : d # c => call'[d] = call[d]
    BY <1>4, OneMoves DEF IInv
  <2> QED BY <1>1, <2>1, <2>2
<1> QED BY <1>1, <1>2, <1>3, <1>4 DEF Next

LEMMA ClockTyped ==
    ASSUME IInv, Next
    PROVE  clock' \in Nat
<1>1. clock \in Nat
    BY DEF IInv, TypeOK
<1>2. CASE Tick
    BY <1>1, <1>2 DEF Tick
<1>3. ASSUME NEW e \in Enrollments, StatusNext(e)
      PROVE  clock' = clock
    BY <1>3, StatusChanges
<1>4. ASSUME NEW c \in Calls, CallNext(c)
      PROVE  clock' = clock
    BY <1>4, CallCases, StartKeepsRows, FinishEnds
<1> QED BY <1>1, <1>2, <1>3, <1>4 DEF Next

LEMMA InitInv == Init => IInv
<1> SUFFICES ASSUME Init PROVE IInv
    OBVIOUS
<1>1. /\ \A e \in Enrollments : bill[e] = NoBill
      /\ \A c \in Calls : call[c] = Idle
    BY DEF Init
<1>2. /\ NoBill.voucher = None /\ NoBill.held = FALSE
      /\ Idle.step = "idle" /\ Idle.voucher = None /\ Idle.enrollment = None /\ Idle.naming = FALSE
    BY DEF NoBill, Idle
<1>3. \A v \in VoucherIds :
          voucher[v] \in VoucherRows \cup {NoVoucher} /\ voucher[v].uses = 0
    BY DEF Init, VoucherRows, NoVoucher
<1>4. TypeOK
  <2>1. voucher \in [VoucherIds -> VoucherRows \cup {NoVoucher}]
    BY DEF Init, VoucherRows
  <2>2. bill \in [Enrollments -> Bills \cup {NoBill}]
    BY DEF Init
  <2>3. call \in [Calls -> CallRecords] /\ \A c \in Calls : Known(call[c])
    BY <1>1, IdleType DEF Init
  <2>4. clock \in Nat
    BY DEF Init
  <2> QED BY <1>1, <1>2, <2>1, <2>2, <2>3, <2>4 DEF TypeOK, CallRecords, Known
<1>5. Locks /\ Reads
    BY <1>1, <1>2 DEF Locks, Apart, Reads, Argued, CheckoutRead, RowRead, CodeRead
<1>6. \A v : Holders(v) = {}
    BY <1>1, <1>2 DEF Holders
<1>7. Cardinality({}) = 0
    BY FS_EmptySet
<1>8. Referenced /\ UsesAreHeld /\ HeldVoucherNotDeleted /\ SnapshotAddsUp
    BY <1>1, <1>2, <1>3, <1>6, <1>7
       DEF Referenced, UsesAreHeld, HeldVoucherNotDeleted, SnapshotAddsUp
<1>9. QuotaHolds
  <2>1. \A v : Prompt(v) = {}
    BY <1>6 DEF Prompt
  <2>2. \A v \in VoucherIds : voucher[v].state # "absent" => voucher[v].terms.max \in Nat
    BY <1>3, RowNumbers DEF NoVoucher
  <2> QED BY <1>7, <2>1, <2>2, QuotaOfPrompt
<1>10. LiveCodesUnique
    BY DEF Init, LiveCodesUnique
<1> QED BY <1>4, <1>5, <1>8, <1>9, <1>10 DEF IInv

LEMMA NextInv == IInv /\ [Next]_vars => IInv'
<1> SUFFICES ASSUME IInv, [Next]_vars PROVE IInv'
    OBVIOUS
<1>1. CASE UNCHANGED vars
  <2> USE <1>1 DEF vars
  <2>1. TypeOK' /\ Locks' /\ Referenced'
    BY DEF IInv, TypeOK, Locks, Apart, Referenced
  <2>2. Reads'
    BY DEF IInv, Reads, Argued, CheckoutRead, RowRead, CodeRead, Live, QuotaLeft, CodeUnused,
           SameCode
  <2>3. \A v : Holders(v)' = Holders(v)
    BY DEF Holders
  <2>4. UsesAreHeld' /\ QuotaHolds' /\ HeldVoucherNotDeleted' /\ LiveCodesUnique' /\ SnapshotAddsUp'
    BY <2>3 DEF IInv, UsesAreHeld, QuotaHolds, HeldVoucherNotDeleted, LiveCodesUnique,
                SnapshotAddsUp, Live, SameCode
  <2> QED BY <2>1, <2>2, <2>4 DEF IInv
<1>2. CASE Next
  <2>1. RowInv'
    BY <1>2, RowsKeepInv
  <2>2. TypeOK'
    <3>1. call' \in [Calls -> CallRecords] /\ \A d \in Calls : Known(call'[d])
        BY <1>2, CallsTyped
    <3>2. clock' \in Nat
        BY <1>2, ClockTyped
    <3> QED BY <2>1, <3>1, <3>2 DEF TypeOK, RowInv, RowTypes, CallRecords, Known
  <2>3. Locks' /\ Reads'
    <3>1. CASE Tick
        BY <3>1 DEF IInv, Tick, Locks, Apart, Reads, Argued, CheckoutRead, RowRead, CodeRead, Live,
                    QuotaLeft, CodeUnused, SameCode
    <3>2. ASSUME NEW e \in Enrollments, StatusNext(e)
          PROVE  Locks' /\ Reads'
        BY <3>2, StatusChanges, StatusKeepsReads DEF IInv, Locks, Apart, Reads
    <3>3. ASSUME NEW c \in Calls, CallNext(c)
          PROVE  Locks' /\ Reads'
        BY <3>3, LocksKept, ReadsKept
    <3> QED BY <1>2, <3>1, <3>2, <3>3 DEF Next
  <2> QED BY <2>1, <2>2, <2>3 DEF IInv, RowInv
<1> QED BY <1>1, <1>2

\* What the locks exclude and what calls have read holds for good.
THEOREM Invariance == Spec => []IInv
BY InitInv, NextInv, PTL DEF Spec

-----------------------------------------------------------------------------
(* Theorems *)

\* Rows and calls keep their types: prepareVoucherCheckout, the voucher handlers
\* and the accounting trigger store what the columns hold.
THEOREM TypeCorrect == Spec => []TypeOK
BY Invariance, PTL DEF IInv

\* The counter of a voucher is the number of transactions that hold a use, for
\* ReserveUseForCode, edits that save the whole row, and every status change.
THEOREM CounterExact == Spec => []UsesAreHeld
BY Invariance, PTL DEF IInv

\* No more uses are held than max_uses, late payments aside.
THEOREM QuotaRespected == Spec => []QuotaHolds
BY Invariance, PTL DEF IInv

\* A voucher that a transaction holds is not deleted under it.
THEOREM HeldIsKept == Spec => []HeldVoucherNotDeleted
BY Invariance, PTL DEF IInv

\* requireCodeFree and the lock around it keep live codes apart in any case.
THEOREM CodesApart == Spec => []LiveCodesUnique
BY Invariance, PTL DEF IInv

\* Amounts of every transaction add up, for any terms, prices and policies the
\* checks let through, in 64 bits.
THEOREM AmountsAddUp == Spec => []SnapshotAddsUp
BY Invariance, PTL DEF IInv

LEMMA PriceStep ==
    ASSUME IInv, Next, NEW e \in Enrollments,
           bill[e] = NoBill, bill'[e] # NoBill, bill'[e].voucher # None
    PROVE  LET v == bill'[e].voucher
           IN  /\ Live(v) /\ voucher[v].terms.active /\ QuotaLeft(v)
               /\ bill'[e].price.discount =
                      Discount(voucher[v].terms, bill'[e].price.subtotal)
<1>0. bill \in [Enrollments -> Bills \cup {NoBill}] /\ NoBill.voucher = None
    BY DEF IInv, TypeOK, NoBill
<1>1. ASSUME NEW x, NEW b, Same(x, b)
      PROVE  FALSE
  <2>1. bill' = [bill EXCEPT ![x] = b] /\ (b.voucher # None => b.voucher = bill[x].voucher)
    BY <1>1 DEF Same, Billed
  <2> QED BY <1>0, <2>1
<1>2. bill' # bill
    OBVIOUS
<1>3. CASE Tick
    BY <1>2, <1>3 DEF Tick
<1>4. ASSUME NEW x \in Enrollments, StatusNext(x)
      PROVE  FALSE
  <2>1. PICK b \in Bills :
            /\ bill[x] # NoBill
            /\ \/ Gain(x, b, b.voucher) \/ Lose(x, b, b.voucher)
               \/ Same(x, b)
    BY <1>4, StatusChanges
  <2>2. bill' = [bill EXCEPT ![x] = b]
    BY <2>1 DEF Gain, Lose, Same, Billed
  <2> QED BY <1>0, <2>1, <2>2
<1>5. ASSUME NEW c \in Calls, Starts(c)
      PROVE  FALSE
    BY <1>2, <1>5, StartKeepsRows
<1>6. ASSUME NEW c \in Calls, NEW p \in Policies, ChecksOut(c, p)
      PROVE  FALSE
    BY <1>1, <1>6, ChecksOutChanges
<1>7. ASSUME NEW c \in Calls, NEW p \in Policies, Redeems(c, p)
      PROVE  LET v == bill'[e].voucher
             IN  /\ Live(v) /\ voucher[v].terms.active /\ QuotaLeft(v)
                 /\ bill'[e].price.discount =
                        Discount(voucher[v].terms, bill'[e].price.subtotal)
  <2>1. PICK b \in Bills :
            /\ Gain(call[c].enrollment, b, call[c].voucher)
            /\ b.price.discount = Discount(call[c].terms, b.price.subtotal)
    BY <1>7, RedeemsChanges
  <2>2. bill' = [bill EXCEPT ![call[c].enrollment] = b] /\ b.voucher = call[c].voucher
    BY <2>1 DEF Gain, Billed
  <2>3. bill'[e] = b
    BY <1>0, <2>2
  <2>4. /\ Live(call[c].voucher) /\ QuotaLeft(call[c].voucher) /\ call[c].terms.active
        /\ voucher[call[c].voucher].terms = call[c].terms
    BY <1>7, RedeemsChanges
  <2> QED BY <2>1, <2>2, <2>3, <2>4
<1>8. ASSUME NEW c \in Calls, Creates(c) \/ Edits(c) \/ Deletes(c) \/ RollsBack(c)
      PROVE  FALSE
    BY <1>2, <1>8 DEF Creates, Edits, Deletes, RollsBack
<1> QED BY <1>3, <1>4, <1>5, <1>6, <1>7, <1>8, CallCases DEF Next, Finishes

\* A checkout is charged by the terms in force when it commits.
THEOREM ChargedAsAgreed == Spec => PriceIsCurrent
<1>1. IInv /\ [Next]_vars =>
        [\A e \in Enrollments :
           LET v == bill'[e].voucher
           IN  bill[e] = NoBill /\ bill'[e] # NoBill /\ v # None =>
                   /\ Live(v) /\ voucher[v].terms.active /\ QuotaLeft(v)
                   /\ bill'[e].price.discount =
                          Discount(voucher[v].terms, bill'[e].price.subtotal)]_vars
    BY PriceStep
<1> QED BY <1>1, Invariance, PTL DEF Spec, PriceIsCurrent

-----------------------------------------------------------------------------
(* The quota *)

Takers == [v \in VoucherIds |-> Holders(v)]

Late(v) == {e \in Holders(v) : bill[e].late}

Overs == [v \in VoucherIds |-> Late(v)]

CapOf(v) == IF voucher[v] = NoVoucher THEN 0 ELSE voucher[v].terms.max

Caps == [v \in VoucherIds |-> CapOf(v)]

LEMMA CapIsNat ==
    ASSUME IInv, NEW v \in VoucherIds
    PROVE  CapOf(v) \in Nat
<1>1. voucher[v] \in VoucherRows \cup {NoVoucher}
    BY DEF IInv, TypeOK
<1> QED BY <1>1, RowNumbers DEF CapOf

\* The instance counts as this module does.
LEMMA QuotaCounts ==
    ASSUME NEW S
    PROVE  Quota!Cardinality(S) = Cardinality(S)
BY Zenon DEF Quota!Cardinality, Cardinality

LEMMA InitQuota == Init => Quota!Init
<1> SUFFICES ASSUME Init PROVE Quota!Init
    OBVIOUS
<1>1. \A v : Holders(v) = {}
    BY DEF Init, NoBill, Holders
<1>2. Takers = [v \in VoucherIds |-> {}] /\ Overs = [v \in VoucherIds |-> {}]
    BY <1>1 DEF Takers, Overs, Late
<1>3. Caps \in [VoucherIds -> Nat]
    BY InitInv, CapIsNat DEF Caps
<1> QED BY <1>2, <1>3 DEF Quota!Init, Takers, Overs, Late, Caps, CapOf

LEMMA SameStutters ==
    ASSUME IInv, NEW e, NEW b, Same(e, b)
    PROVE  Takers' = Takers /\ Overs' = Overs /\ Caps' = Caps
<1>1. /\ bill' = [bill EXCEPT ![e] = b] /\ voucher' = voucher /\ e \in Enrollments
      /\ b.held = bill[e].held /\ b.late = bill[e].late
      /\ b.held => b.voucher = bill[e].voucher
    BY DEF Same, Billed
<1>2. /\ \A x \in Enrollments \ {e} : bill'[x] = bill[x]
      /\ bill'[e] = b
    BY <1>1 DEF IInv, TypeOK
<1>3. \A v : Holders(v)' = Holders(v) /\ Late(v)' = Late(v)
    BY <1>1, <1>2 DEF Holders, Late
<1> QED BY <1>1, <1>3 DEF Takers, Overs, Caps, CapOf

LEMMA GainTakes ==
    ASSUME IInv, NEW e, NEW b, NEW v, Gain(e, b, v)
    PROVE  Quota!Take(v, e) \/ Quota!TakeOver(v, e)
<1>1. /\ e \in Enrollments /\ bill' = [bill EXCEPT ![e] = b]
      /\ v \in VoucherIds /\ voucher[v] \in VoucherRows
      /\ voucher' = [voucher EXCEPT ![v].uses = voucher[v].uses + 1]
      /\ b.held /\ b.voucher = v /\ ~bill[e].held
    BY DEF Gain, Billed
<1>2. /\ \A x \in Enrollments \ {e} : bill'[x] = bill[x]
      /\ bill'[e] = b
      /\ \A w \in VoucherIds \ {v} : voucher'[w] = voucher[w]
      /\ voucher'[v] \in VoucherRows /\ voucher'[v].terms = voucher[v].terms
    BY <1>1 DEF IInv, TypeOK, VoucherRows
<1>3. /\ \A w : e \notin Holders(w)
      /\ Holders(v)' = Holders(v) \cup {e}
      /\ Late(v)' = IF b.late THEN Late(v) \cup {e} ELSE Late(v)
      /\ \A w \in VoucherIds \ {v} : Holders(w)' = Holders(w) /\ Late(w)' = Late(w)
    BY <1>1, <1>2 DEF Holders, Late
<1>4. Caps' = Caps
  <2>1. voucher[v] # NoVoucher /\ voucher'[v] # NoVoucher
    BY <1>1, <1>2, RowNumbers DEF NoVoucher
  <2>2. \A w \in VoucherIds : CapOf(w)' = CapOf(w)
    BY <1>2, <2>1 DEF CapOf
  <2> QED BY <2>2 DEF Caps
<1>5. Takers' = [Takers EXCEPT ![v] = @ \cup {e}] /\ \A w \in VoucherIds : e \notin Takers[w]
    BY <1>1, <1>3 DEF Takers
<1>6. CASE b.late
  <2>1. Overs' = [Overs EXCEPT ![v] = @ \cup {e}]
    BY <1>1, <1>3, <1>6 DEF Overs
  <2>2. Quota!TakeOver(v, e)
    BY <1>4, <1>5, <2>1 DEF Quota!TakeOver, Takers, Overs, Late, Caps, CapOf
  <2> QED BY <2>2
<1>7. CASE ~b.late
  <2>1. Overs' = Overs
    BY <1>3, <1>7 DEF Overs
  <2>2. QuotaLeft(v)
    BY <1>7 DEF Gain
  <2>3. CapOf(v) = voucher[v].terms.max /\ voucher[v].uses = Cardinality(Holders(v))
    BY <1>1, RowNumbers DEF CapOf, NoVoucher, IInv, UsesAreHeld
  <2>4. Quota!Allows(Caps[v], Cardinality(Takers[v]) + 1)
    BY <1>1, <2>2, <2>3, RowNumbers DEF Quota!Allows, Caps, Takers, QuotaLeft
  <2>5. Quota!Take(v, e)
    BY <1>4, <1>5, <2>1, <2>4, QuotaCounts DEF Quota!Take, Takers, Overs, Late, Caps, CapOf
  <2> QED BY <2>5
<1> QED BY <1>6, <1>7

LEMMA LoseReleases ==
    ASSUME IInv, NEW e, NEW b, NEW v, Lose(e, b, v)
    PROVE  Quota!Release(v, e)
<1>1. /\ e \in Enrollments /\ bill' = [bill EXCEPT ![e] = b]
      /\ v \in VoucherIds /\ voucher[v] \in VoucherRows /\ voucher[v].uses > 0
      /\ voucher' = [voucher EXCEPT ![v].uses = voucher[v].uses - 1]
      /\ ~b.held /\ b.voucher = v /\ bill[e].held /\ bill[e].voucher = v
    BY DEF Lose, Billed
<1>2. /\ \A x \in Enrollments \ {e} : bill'[x] = bill[x]
      /\ bill'[e] = b
      /\ \A w \in VoucherIds \ {v} : voucher'[w] = voucher[w]
      /\ voucher'[v] \in VoucherRows /\ voucher'[v].terms = voucher[v].terms
    BY <1>1 DEF IInv, TypeOK, VoucherRows
<1>3. /\ e \in Holders(v)
      /\ Holders(v)' = Holders(v) \ {e}
      /\ Late(v)' = Late(v) \ {e}
      /\ \A w \in VoucherIds \ {v} : Holders(w)' = Holders(w) /\ Late(w)' = Late(w)
    BY <1>1, <1>2 DEF Holders, Late
<1>4. Caps' = Caps
  <2>1. voucher[v] # NoVoucher /\ voucher'[v] # NoVoucher
    BY <1>1, <1>2, RowNumbers DEF NoVoucher
  <2>2. \A w \in VoucherIds : CapOf(w)' = CapOf(w)
    BY <1>2, <2>1 DEF CapOf
  <2> QED BY <2>2 DEF Caps
<1>5. e \in Takers[v] /\ Takers' = [Takers EXCEPT ![v] = @ \ {e}]
    BY <1>1, <1>3 DEF Takers
<1>6. Overs' = [Overs EXCEPT ![v] = @ \ {e}]
    BY <1>1, <1>3 DEF Overs
<1> QED BY <1>4, <1>5, <1>6 DEF Quota!Release, Takers, Overs, Late, Caps, CapOf

LEMMA ReviseRecaps ==
    ASSUME IInv, NEW v, NEW r, Revise(v, r)
    PROVE  Quota!Recap(v) \/ (Takers' = Takers /\ Overs' = Overs /\ Caps' = Caps)
<1>1. /\ v \in VoucherIds /\ r \in VoucherRows /\ r.uses = voucher[v].uses
      /\ voucher' = [voucher EXCEPT ![v] = r] /\ bill' = bill
    BY DEF Revise
<1>2. /\ \A w \in VoucherIds \ {v} : voucher'[w] = voucher[w]
      /\ voucher'[v] = r
    BY <1>1 DEF IInv, TypeOK
<1>3. r # NoVoucher /\ r.terms.max \in Nat
    BY <1>1, RowNumbers DEF NoVoucher
<1>4. Takers' = Takers /\ Overs' = Overs
    BY <1>1 DEF Takers, Overs, Late, Holders
<1>5. CapOf(v)' = r.terms.max /\ \A w \in VoucherIds \ {v} : CapOf(w)' = CapOf(w)
    BY <1>2, <1>3 DEF CapOf
<1>6. CASE r.state = "deleted"
  <2>1. voucher[v] # NoVoucher /\ r.terms = voucher[v].terms
    BY <1>6, RowNumbers DEF Revise, NoVoucher
  <2>2. \A w \in VoucherIds : CapOf(w)' = CapOf(w)
    BY <1>5, <2>1 DEF CapOf
  <2> QED BY <1>4, <2>2 DEF Caps
<1>7. CASE r.state = "live"
  <2>1. r.terms.max = 0 \/ r.terms.max >= r.uses
    BY <1>7 DEF Revise, Editable
  <2>2. r.uses = Cardinality(Holders(v))
    BY <1>1 DEF IInv, UsesAreHeld
  <2>3. Caps' = [Caps EXCEPT ![v] = Caps'[v]] /\ Caps'[v] = r.terms.max
    BY <1>1, <1>5 DEF Caps
  <2>4. Quota!Allows(Caps'[v], Cardinality(Takers[v]))
    BY <1>1, <2>1, <2>2, <2>3, RowNumbers DEF Quota!Allows, Takers
  <2>5. Quota!Recap(v)
    BY <1>3, <1>4, <2>3, <2>4, QuotaCounts DEF Quota!Recap, Takers, Overs, Late, Caps, CapOf
  <2> QED BY <2>5
<1> QED BY <1>1, <1>6, <1>7 DEF VoucherRows

LEMMA NextQuota == IInv /\ [Next]_vars => [Quota!Next]_(Quota!vars)
<1> SUFFICES ASSUME IInv, [Next]_vars
             PROVE  Quota!Next \/ (Takers' = Takers /\ Overs' = Overs /\ Caps' = Caps)
    BY DEF Quota!vars, Takers, Overs, Late, Caps, CapOf
<1>1. CASE voucher' = voucher /\ bill' = bill
    BY <1>1 DEF Takers, Overs, Late, Caps, CapOf, Holders
<1>2. CASE UNCHANGED vars
    BY <1>1, <1>2 DEF vars
<1>3. ASSUME NEW e \in Enrollments, NEW b \in Bills, Same(e, b)
      PROVE  Takers' = Takers /\ Overs' = Overs /\ Caps' = Caps
    BY <1>3, SameStutters
<1>4. ASSUME NEW e \in Enrollments, NEW b \in Bills, NEW v \in VoucherIds,
             Gain(e, b, v) \/ Lose(e, b, v)
      PROVE  Quota!Next
    BY <1>4, GainTakes, LoseReleases DEF Quota!Next
<1>5. ASSUME NEW v \in VoucherIds, NEW r \in VoucherRows, Revise(v, r)
      PROVE  Quota!Next \/ (Takers' = Takers /\ Overs' = Overs /\ Caps' = Caps)
    BY <1>5, ReviseRecaps DEF Quota!Next
<1> QED BY <1>1, <1>2, <1>3, <1>4, <1>5, RowChanges

\* Checkouts, edits, deletions and the accounting trigger implement the quota.
THEOREM QuotaRefined == Spec => ImplementsQuota
BY InitQuota, NextQuota, Invariance, PTL DEF Spec, ImplementsQuota, Quota!Spec

=============================================================================
