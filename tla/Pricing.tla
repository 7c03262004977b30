------------------------------ MODULE Pricing ------------------------------
(***************************************************************************)
(* What an enrollment is charged and how the amount is divided: the voucher *)
(* discount, the platform fee and the net amount of the tenant, in whole   *)
(* rupiah.  Voucher values are numeric(15,2) and are given in hundredths.  *)
(* Amounts are int64 in the code; MaxInt is the largest one, so that the   *)
(* arithmetic that could leave the range wraps around as it does there.    *)
(***************************************************************************)
EXTENDS Integers

CONSTANTS
    MaxInt,     \* the largest int64
    MaxPercent, \* PlatformFeeMaxPercentBps
    MaxFixed    \* PlatformFeeMaxFixedFee

ASSUME PricingAssumption ==
    /\ MaxInt \in Nat
    /\ MaxPercent \in Nat
    /\ MaxFixed \in 0..MaxInt

\* What a product or sum becomes in an int64.
Int64(x) ==
    IF x \in -(MaxInt + 1)..MaxInt
        THEN x ELSE ((x + MaxInt + 1) % (2 * (MaxInt + 1))) - (MaxInt + 1)

Smaller(a, b) == IF a <= b THEN a ELSE b

\* Terms of a voucher that have a discount and an amount it starts at; a cap of
\* zero stands for no cap.
PriceTerms == [type : {"percentage", "fixed_amount"}, value : Nat, cap : Nat, least : Nat]

ValidTerms(t) ==
    /\ t.type = "percentage" => t.value \in 100..10000
    /\ t.type = "fixed_amount" => t.value > 0

\* Exact for a percentage, which is computed on rationals; a nominal loses its cents.
Granted(t, subtotal) ==
    IF t.type = "percentage" THEN (t.value * subtotal) \div 10000 ELSE t.value \div 100

Capped(t, amount) == IF t.cap = 0 THEN amount ELSE Smaller(amount, t.cap)

\* ComputeVoucherDiscount.
Discount(t, subtotal) == Smaller(Capped(t, Granted(t, subtotal)), subtotal)

\* PlatformFeePolicy.Validate.
PolicyValid(p) == p.percent \in 0..MaxPercent /\ p.fixed \in 0..MaxFixed

\* Mutant: the multiplication is not checked for overflow.
FeeUnchecked(p, gross) == PolicyValid(p) /\ gross > 0

\* The amounts PlatformFeePolicy.Fee accepts.
FeeDefined(p, gross) ==
    /\ PolicyValid(p)
    /\ gross > 0
    /\ p.percent > 0 => gross <= (MaxInt - p.fixed) \div p.percent

\* PlatformFeePolicy.Fee.
Fee(p, gross) == Int64(Int64(gross * p.percent) \div 10000 + p.fixed)

\* ComputePlatformFee refuses fees that exceed the amount they are taken from.
Payable(p, gross, gateway) ==
    /\ gateway >= 0
    /\ FeeDefined(p, gross)
    /\ Fee(p, gross) <= gross
    /\ gateway <= gross - Fee(p, gross)

\* The amounts a new transactions row stores.
Snapshot(p, subtotal, discount, gateway) ==
    LET gross == subtotal - discount
        fee   == Fee(p, gross)
    IN  [subtotal |-> subtotal, discount |-> discount, gross |-> gross, fee |-> fee,
         gateway |-> gateway, net |-> gross - fee - gateway, policy |-> p]

=============================================================================
