\* Renewal or private lesson, two replicas, one request at a time.
CONSTANTS
    Workers = {w1, w2}
    Parents = {p1}
    Hooks = {h1}
    Dispatchers = {d1, d2}
    MaxInvoices = 2
    MaxFaults = 1
    None = None
SPECIFICATION Spec
CHECK_DEADLOCK FALSE
INVARIANTS
    OnePayableInvoice
    AnnouncedOnce
    RenewalHoldsOff
    SentMeansMailed
    OutcomeToldOnce
PROPERTIES
    PrivateMailed
    DueIsInvoiced
