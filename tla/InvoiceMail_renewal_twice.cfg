\* One worker, whose first transaction is rolled back after its mail was sent.
CONSTANTS
    Workers = {w1}
    Parents = {p1}
    Hooks = {h1}
    Dispatchers = {d1}
    MaxInvoices = 2
    MaxFaults = 1
    None = None
SPECIFICATION Spec
CHECK_DEADLOCK FALSE
INVARIANT NeverInvoicedTwice
