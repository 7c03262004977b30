\* Two calls and the status changes of two transactions, two vouchers.
CONSTANTS
    c1 = c1
    c2 = c2
    v1 = v1
    v2 = v2
    lower = lower
    capital = capital
    Calls = {c1, c2}
    VoucherIds = {v1, v2}
    Enrollments = {e1, e2}
    Spellings <- Spelled
    Upper <- Capitals
    Terms <- Offers
    Subtotals = {500, 1000}
    Gateway = 10
    Policies <- Fifth
    MaxTime = 1
    MaxInt = 1048575
    MaxPercent = 2000
    MaxFixed = 50
    None = None
SPECIFICATION Spec
SYMMETRY Symmetry
CHECK_DEADLOCK FALSE
INVARIANTS
    UsesAreHeld
    LiveCodesUnique
    SnapshotAddsUp
PROPERTIES
    PriceIsCurrent
    ImplementsQuota
