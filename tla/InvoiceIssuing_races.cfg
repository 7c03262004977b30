\* Any interleaving, late calls and failure callbacks included.
CONSTANTS
    Requesters = {r1, r2}
    Private = TRUE
    ClaimTimeout = 1
    Validity = 1
    Timely = FALSE
    FailureCallbacks = TRUE
    MaxTime = 3
    MaxInvoices = 3
SPECIFICATION Spec
SYMMETRY Symmetry
INVARIANTS
    PaidOwesActivation
    CreditedOnce
    RecordedPaymentIsReal
    CurrentLinkHonoured
PROPERTY ImplementsOutcome
