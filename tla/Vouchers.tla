------------------------------ MODULE Vouchers ------------------------------
(***************************************************************************)
(* The vouchers of one tenant: checkouts that redeem them, the tenant that *)
(* creates, edits and deletes them, and the accounting trigger that gives a *)
(* use back when the transaction it was reserved for stops being payable,  *)
(* and takes it again when the transaction is claimed or paid after that.  *)
(*                                                                         *)
(* A call is split where its database transaction waits for a lock or has  *)
(* read what it later relies on; its writes become visible when it commits, *)
(* with its last step.  A statement that changes the status of a           *)
(* transactions row is one step, its trigger included.  A call that is     *)
(* refused before it wrote anything takes no step.                         *)
(***************************************************************************)
EXTENDS Pricing, FiniteSets

CONSTANTS
    Calls,       \* checkouts and tenant requests in flight at a time
    Enrollments, \* what is paid for: one transactions row each
    VoucherIds,  \* rows the vouchers table may get
    Spellings,   \* voucher codes as they are written
    Upper,       \* NormalizeVoucherCode of each of them
    Terms,       \* what a voucher may say
    Subtotals,   \* prices before the discount
    Gateway,     \* payment gateway fee
    Policies,    \* platform fee policies that may be applied
    MaxTime,     \* bound on the clock
    None

ASSUME ConstantsAssumption ==
    /\ IsFiniteSet(Enrollments)
    /\ Upper \in [Spellings -> Spellings]
    /\ \A s \in Spellings : Upper[Upper[s]] = Upper[s]
    /\ Terms \subseteq [type : {"percentage", "fixed_amount"}, value : Nat, cap : Nat,
                        least : Nat, max : Nat, active : BOOLEAN, from : Nat, until : Nat]
    /\ Subtotals \subseteq Nat
    /\ Gateway \in Nat
    /\ Policies \subseteq [percent : Nat, fixed : Nat]
    /\ MaxTime \in Nat
    /\ None \notin Calls \cup Enrollments \cup VoucherIds \cup Spellings

VARIABLES
    voucher, \* the vouchers rows
    bill,    \* the transactions row of each enrollment
    call,    \* what each call in flight has read and is about to write
    clock

vars == <<voucher, bill, call, clock>>

NoVoucher == [state |-> "absent", code |-> None, terms |-> None, uses |-> 0]

VoucherRows == [state : {"live", "deleted"}, code : Spellings, terms : Terms, uses : Nat]

\* late is set while the use was taken back by a payment: no check of the
\* voucher comes before that.
NoBill == [status |-> "none", voucher |-> None, held |-> FALSE, late |-> FALSE, price |-> None]

Statuses == {"pending", "creating", "paid", "failed", "expired", "cancelled", "refunded"}

Prices == [subtotal : Int, discount : Int, gross : Int, fee : Int, gateway : Int, net : Int,
           policy : Policies]

Bills == [status : Statuses, voucher : VoucherIds \cup {None}, held : BOOLEAN,
          late : BOOLEAN, price : Prices]

Steps == {"idle", "checkout", "reserved", "create", "edit", "delete"}

Idle == [step |-> "idle", enrollment |-> None, voucher |-> None, naming |-> FALSE,
         code |-> None, terms |-> None, uses |-> 0, subtotal |-> 0, at |-> 0]

\* Type correctness; only a transaction with a voucher holds a use, and a call
\* that is about to write a voucher knows its row.
TypeOK ==
    /\ voucher \in [VoucherIds -> VoucherRows \cup {NoVoucher}]
    /\ bill \in [Enrollments -> Bills \cup {NoBill}]
    /\ \A e \in Enrollments : bill[e].held => bill[e].voucher \in VoucherIds
    /\ call \in [Calls -> [step : Steps, enrollment : Enrollments \cup {None},
                           voucher : VoucherIds \cup {None}, naming : BOOLEAN,
                           code : Spellings \cup {None}, terms : Terms \cup {None},
                           uses : Nat, subtotal : Nat, at : Nat]]
    /\ \A c \in Calls :
        /\ call[c].step \in {"checkout", "reserved"} => call[c].enrollment \in Enrollments
        /\ call[c].step \in {"reserved", "create", "edit", "delete"} =>
               call[c].voucher \in VoucherIds
        /\ call[c].step \in {"reserved", "create", "edit"} => call[c].terms \in Terms
        /\ call[c].step \in {"create", "edit"} => call[c].code \in Spellings
    /\ clock \in Nat

SameCode(s, t) == Upper[s] = Upper[t]

Live(v) == voucher[v].state = "live"

\* Vouchers written before codes were stored in upper case exist.
Init ==
    /\ voucher \in [VoucherIds ->
                       [state : {"live"}, code : Spellings, terms : Terms, uses : {0}]
                           \cup {NoVoucher}]
    /\ \A v, w \in VoucherIds :
           Live(v) /\ Live(w) /\ SameCode(voucher[v].code, voucher[w].code) => v = w
    /\ bill = [e \in Enrollments |-> NoBill]
    /\ call = [c \in Calls |-> Idle]
    /\ clock = 0

-----------------------------------------------------------------------------
(* Locks and rules *)

\* Mutant: the row is read without FOR UPDATE.
RowUnlocked(v) == TRUE

\* Nobody holds the lock on the row of voucher v.
RowFree(v) ==
    \A d \in Calls :
        ~ (call[d].voucher = v /\ call[d].step \in {"reserved", "edit", "delete"})

\* Nobody holds the advisory lock on the codes of the tenant.
CodesFree == \A d \in Calls : ~call[d].naming

\* Nobody holds the advisory lock on the checkout of enrollment e.
CheckoutFree(e) == \A d \in Calls : call[d].enrollment # e

\* Mutant: only the exact spelling is looked for.
CodeUnusedExact(v, s) == \A w \in VoucherIds \ {v} : Live(w) => voucher[w].code # s

\* requireCodeFree: no other live voucher has the code, in whatever case.
CodeUnused(v, s) == \A w \in VoucherIds \ {v} : Live(w) => ~SameCode(voucher[w].code, s)

\* The unique index compares exactly and covers deleted rows.
CodeFitsIndex(v, s) == \A w \in VoucherIds \ {v} : voucher[w].code # s

QuotaLeft(v) == voucher[v].terms.max = 0 \/ voucher[v].uses < voucher[v].terms.max

\* A live voucher that can be redeemed at a time.
Redeemable(v, at) ==
    /\ Live(v)
    /\ voucher[v].terms.active
    /\ voucher[v].terms.from <= at
    /\ at <= voucher[v].terms.until
    /\ QuotaLeft(v)

\* ValidateVoucherFields against the uses of the locked row.
Editable(t, uses) ==
    /\ ValidTerms(t)
    /\ t.max = 0 \/ t.max >= uses
    /\ t.from <= t.until

Deletable(v) == Live(v) /\ voucher[v].uses = 0

Begin(c, r) == call[c] = Idle /\ call' = [call EXCEPT ![c] = r]

Ends(c) == call' = [call EXCEPT ![c] = Idle]

-----------------------------------------------------------------------------
(* Checkout: prepareVoucherCheckout *)

\* The time a voucher is judged by is read before the wait for its row.
CheckoutBegins(c, e, s) ==
    /\ CheckoutFree(e)
    /\ bill[e] = NoBill
    /\ s > 0
    /\ Begin(c, [Idle EXCEPT !.step = "checkout", !.enrollment = e, !.subtotal = s, !.at = clock])
    /\ UNCHANGED <<voucher, bill, clock>>

\* ReserveUseForCode and ValidateVoucherForRedemption.
Reserves(c, v) ==
    /\ call[c].step = "checkout"
    /\ RowFree(v)
    /\ Redeemable(v, call[c].at)
    /\ Editable(voucher[v].terms, 0)
    /\ call[c].subtotal >= voucher[v].terms.least
    /\ call' = [call EXCEPT ![c].step = "reserved", ![c].voucher = v, ![c].terms = voucher[v].terms]
    /\ UNCHANGED <<voucher, bill, clock>>

NewBill(v, price) ==
    [status |-> "pending", voucher |-> v, held |-> v # None, late |-> FALSE, price |-> price]

\* Commit of a checkout without a code.
ChecksOut(c, p) ==
    /\ call[c].step = "checkout"
    /\ Payable(p, call[c].subtotal, Gateway)
    /\ bill' = [bill EXCEPT ![call[c].enrollment] =
                   NewBill(None, Snapshot(p, call[c].subtotal, 0, Gateway))]
    /\ Ends(c)
    /\ UNCHANGED <<voucher, clock>>

\* Commit of a checkout that redeems its voucher.
Redeems(c, p) ==
    LET s == call[c].subtotal
        d == Discount(call[c].terms, s)
        v == call[c].voucher
    IN  /\ call[c].step = "reserved"
        /\ Payable(p, s - d, Gateway)
        /\ bill' = [bill EXCEPT ![call[c].enrollment] = NewBill(v, Snapshot(p, s, d, Gateway))]
        /\ voucher' = [voucher EXCEPT ![v].uses = @ + 1]
        /\ Ends(c)
        /\ UNCHANGED clock

-----------------------------------------------------------------------------
(* The tenant's voucher management *)

CreateBegins(c, v, s, t) ==
    /\ voucher[v] = NoVoucher
    /\ \A d \in Calls : call[d].voucher # v
    /\ CodesFree
    /\ Editable(t, 0)
    /\ CodeUnused(v, s)
    /\ Begin(c, [Idle EXCEPT !.step = "create", !.voucher = v, !.naming = TRUE,
                             !.code = Upper[s], !.terms = t])
    /\ UNCHANGED <<voucher, bill, clock>>

Creates(c) ==
    LET v == call[c].voucher
    IN  /\ call[c].step = "create"
        /\ CodeFitsIndex(v, call[c].code)
        /\ voucher' = [voucher EXCEPT ![v] = [state |-> "live", code |-> call[c].code,
                                              terms |-> call[c].terms, uses |-> 0]]
        /\ Ends(c)
        /\ UNCHANGED <<bill, clock>>

\* An edit that leaves the code alone takes the row lock only.
EditBegins(c, v, t) ==
    /\ Live(v)
    /\ RowFree(v)
    /\ Editable(t, voucher[v].uses)
    /\ Begin(c, [Idle EXCEPT !.step = "edit", !.voucher = v, !.code = voucher[v].code,
                             !.terms = t, !.uses = voucher[v].uses])
    /\ UNCHANGED <<voucher, bill, clock>>

\* A rename takes the lock on the codes first.
RenameBegins(c, v, s, t) ==
    /\ Live(v)
    /\ CodesFree
    /\ RowFree(v)
    /\ Editable(t, voucher[v].uses)
    /\ CodeUnused(v, s)
    /\ Begin(c, [Idle EXCEPT !.step = "edit", !.voucher = v, !.naming = TRUE, !.code = Upper[s],
                             !.terms = t, !.uses = voucher[v].uses])
    /\ UNCHANGED <<voucher, bill, clock>>

\* The whole row is saved, with the uses the call has read.
Edits(c) ==
    LET v == call[c].voucher
    IN  /\ call[c].step = "edit"
        /\ CodeFitsIndex(v, call[c].code)
        /\ voucher' = [voucher EXCEPT ![v].code = call[c].code, ![v].terms = call[c].terms,
                                      ![v].uses = call[c].uses]
        /\ Ends(c)
        /\ UNCHANGED <<bill, clock>>

DeleteBegins(c, v) ==
    /\ RowFree(v)
    /\ Deletable(v)
    /\ Begin(c, [Idle EXCEPT !.step = "delete", !.voucher = v])
    /\ UNCHANGED <<voucher, bill, clock>>

Deletes(c) ==
    /\ call[c].step = "delete"
    /\ voucher' = [voucher EXCEPT ![call[c].voucher].state = "deleted"]
    /\ Ends(c)
    /\ UNCHANGED <<bill, clock>>

\* A statement of the call fails, or the process dies: the transaction rolls back.
RollsBack(c) ==
    /\ call[c] # Idle
    /\ Ends(c)
    /\ UNCHANGED <<voucher, bill, clock>>

-----------------------------------------------------------------------------
(* The status of a transaction, with transaction_voucher_accounting *)

\* Mutant: a use is given back once more by every later closing status.
GivesBackAgain(e, s) == bill[e].voucher # None /\ s \in {"expired", "cancelled", "failed"}

GivesBack(e, s) == bill[e].held /\ s \in {"expired", "cancelled", "failed"}

TakesAgain(e, s) ==
    bill[e].voucher # None /\ ~bill[e].held /\ s \in {"creating", "pending", "paid"}

\* Mutant: a replaced invoice takes the use back unconditionally.
MayTakeAlways(e, s) == TRUE

\* Money that arrived is never refused; a new invoice needs a voucher that
\* could be redeemed now.
MayTake(e, s) == s = "paid" \/ Redeemable(bill[e].voucher, clock)

Uses(v, n) == voucher' = [voucher EXCEPT ![v].uses = n]

\* The row of enrollment e gets status s.
Becomes(e, s) ==
    /\ \/ /\ GivesBack(e, s)
          /\ RowFree(bill[e].voucher)
          /\ Uses(bill[e].voucher, IF voucher[bill[e].voucher].uses > 0
                                       THEN voucher[bill[e].voucher].uses - 1 ELSE 0)
          /\ bill' = [bill EXCEPT ![e].status = s, ![e].held = FALSE, ![e].late = FALSE]
       \/ /\ TakesAgain(e, s)
          /\ RowFree(bill[e].voucher)
          /\ MayTake(e, s)
          /\ Uses(bill[e].voucher, voucher[bill[e].voucher].uses + 1)
          /\ bill' = [bill EXCEPT ![e].status = s, ![e].held = TRUE, ![e].late = (s = "paid")]
       \/ /\ ~GivesBack(e, s) /\ ~TakesAgain(e, s)
          /\ bill' = [bill EXCEPT ![e].status = s]
          /\ UNCHANGED voucher
    /\ UNCHANGED <<call, clock>>

\* ClaimInvoice and ClaimReinvoice.
Claims(e) == bill[e].status \in {"pending", "failed", "expired"} /\ Becomes(e, "creating")

\* MarkInvoiceIssued.
Issues(e) == bill[e].status = "creating" /\ Becomes(e, "pending")

\* RestoreFailedInvoiceClaim, and the failure callback.
Fails(e) == bill[e].status \in {"pending", "creating"} /\ Becomes(e, "failed")

\* ExpireDue.
Expires(e) == bill[e].status = "pending" /\ Becomes(e, "expired")

\* CancelUnpaid.
Cancels(e) ==
    bill[e].status \in {"pending", "creating", "failed", "expired"} /\ Becomes(e, "cancelled")

\* The success callback.
Pays(e) ==
    /\ bill[e].status \in {"pending", "creating", "failed", "expired", "cancelled"}
    /\ Becomes(e, "paid")

\* RecordRefund: a refunded payment keeps its use.
Refunds(e) == bill[e].status = "paid" /\ Becomes(e, "refunded")

Tick ==
    /\ clock < MaxTime
    /\ clock' = clock + 1
    /\ UNCHANGED <<voucher, bill, call>>

CallNext(c) ==
    \/ \E e \in Enrollments, s \in Subtotals : CheckoutBegins(c, e, s)
    \/ \E v \in VoucherIds : Reserves(c, v) \/ DeleteBegins(c, v)
    \/ \E p \in Policies : ChecksOut(c, p) \/ Redeems(c, p)
    \/ \E v \in VoucherIds, t \in Terms :
           \/ EditBegins(c, v, t)
           \/ \E s \in Spellings : CreateBegins(c, v, s, t) \/ RenameBegins(c, v, s, t)
    \/ Creates(c) \/ Edits(c) \/ Deletes(c) \/ RollsBack(c)

StatusNext(e) ==
    \/ Claims(e) \/ Issues(e) \/ Fails(e) \/ Expires(e) \/ Cancels(e) \/ Pays(e) \/ Refunds(e)

Next ==
    \/ \E c \in Calls : CallNext(c)
    \/ \E e \in Enrollments : StatusNext(e)
    \/ Tick

Spec == Init /\ [][Next]_vars

-----------------------------------------------------------------------------
(* Correctness *)

\* The enrollments that hold a use of voucher v.
Holders(v) == {e \in Enrollments : bill[e].voucher = v /\ bill[e].held}

\* The usage counter is the number of transactions that hold a use, whatever
\* checkouts, edits that save the whole row, and status changes overlap.
UsesAreHeld == \A v \in VoucherIds : voucher[v].uses = Cardinality(Holders(v))

\* No more uses are held than the voucher allows, those that payments of already
\* released transactions took back aside.
QuotaHolds ==
    \A v \in VoucherIds :
        voucher[v].state # "absent" /\ voucher[v].terms.max # 0 =>
            Cardinality({e \in Holders(v) : ~bill[e].late}) <= voucher[v].terms.max

\* A deleted voucher is held by late payments only: no transaction that is being
\* charged its discount, or was paid while it held it, loses it.
HeldVoucherNotDeleted ==
    \A e \in Enrollments :
        bill[e].held /\ ~bill[e].late => Live(bill[e].voucher)

\* Two live vouchers never have the same code in different case, although the
\* index only compares exactly and renames and creations overlap.
LiveCodesUnique ==
    \A v, w \in VoucherIds :
        Live(v) /\ Live(w) /\ SameCode(voucher[v].code, voucher[w].code) => v = w

AddsUp(p) ==
    /\ p.gross > 0
    /\ p.gross + p.discount = p.subtotal
    /\ p.discount >= 0
    /\ p.fee = (p.gross * p.policy.percent) \div 10000 + p.policy.fixed
    /\ p.fee + p.gateway + p.net = p.gross
    /\ p.net >= 0

\* The stored amounts add up: the parent pays something, the platform fee is the
\* exact floor of its share, and what is left for the tenant is not negative.
SnapshotAddsUp == \A e \in Enrollments : bill[e] # NoBill => AddsUp(bill[e].price)

\* A checkout that redeems a voucher is charged by the terms in force when it
\* commits: nobody edits, exhausts or deletes the voucher under it.
PriceIsCurrent ==
    [][\A e \in Enrollments :
           LET v == bill'[e].voucher
           IN  bill[e] = NoBill /\ bill'[e] # NoBill /\ v # None =>
                   /\ Live(v) /\ voucher[v].terms.active /\ QuotaLeft(v)
                   /\ bill'[e].price.discount =
                          Discount(voucher[v].terms, bill'[e].price.subtotal)]_vars

Quota == INSTANCE UsageQuota
    WITH taken <- [v \in VoucherIds |-> Holders(v)],
         over  <- [v \in VoucherIds |-> {e \in Holders(v) : bill[e].late}],
         cap   <- [v \in VoucherIds |->
                      IF voucher[v] = NoVoucher THEN 0 ELSE voucher[v].terms.max]

\* The counter and the checks around it implement the quota of each voucher.
ImplementsQuota == Quota!Spec

=============================================================================
