----------------------------- MODULE MCVouchers -----------------------------
EXTENDS Vouchers, TLC

CONSTANTS c1, c2, v1, v2, lower, capital

\* One code in the two ways it may be written.
Spelled == {lower, capital}

Capitals == [s \in Spelled |-> capital]

\* Half the price once, a nominal above the smaller price twice and not from the
\* beginning, and a voucher switched off.
Half == [type |-> "percentage", value |-> 5000, cap |-> 0, least |-> 0,
         max |-> 1, active |-> TRUE, from |-> 0, until |-> 1]

Nominal == [type |-> "fixed_amount", value |-> 60050, cap |-> 0, least |-> 100,
            max |-> 2, active |-> TRUE, from |-> 1, until |-> 1]

Offers == {Half, Nominal, [Half EXCEPT !.active = FALSE]}

\* A fifth of the price, which overflows for the larger price.
Fifth == {[percent |-> 2000, fixed |-> 5]}

Symmetry == Permutations(Calls) \cup Permutations(VoucherIds) \cup Permutations(Enrollments)

=============================================================================
