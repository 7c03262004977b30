\* One request of a caller and one without a token, two tenants; an export in batches
\* of one row.
CONSTANTS
    m1 = m1
    p1 = p1
    p2 = p2
    a1 = a1
    t1 = t1
    t2 = t2
    creator = creator
    teacher = teacher
    payout = payout
    foreign = foreign
    purse = purse
    bank = bank
    code = code
    Requests = {q1}
    ServiceCalls = {w1}
    Members = {m1}
    Parents = {p1}
    Admins = {a1}
    Home <- OneTenant
    Grants <- CreatorOnly
    Transactions = {1, 2, 3}
    Resources = {payout, foreign, purse, bank, code}
    Kind <- Kinds
    Owner <- Owners
    Payer <- Payers
    Served = {"list", "get", "summary", "export", "refund",
              "wallet", "account", "withdrawal", "readVoucher", "platform"}
    Filters <- Ranges
    Environments <- Starts
    BatchSize = 1
    PageSize = 2
    Day = 1
    MaxTime = 1
    MaxFactor = 2
    Second = 4
    MaxDuration = 199
    DefaultProvider = 1
    DefaultWrite = 6
    DefaultPermission = 3
    AcademicTimeout = 4
    None = None
SPECIFICATION Spec
CHECK_DEADLOCK FALSE
CONSTRAINT
    PaymentsApart
INVARIANTS
    AnsweredAsEntitled
    StayingRowsExported
    ExportMatchesSummary
    CountedAnswersInTime
