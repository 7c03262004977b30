\* Two calls of any kind at a time.
CONSTANTS
    Calls = {c1, c2}
    Payments = {p1, p2}
    Net = 3
    Keys = {k1, k2}
    Amounts = {2}
    Accounts = {a1, a2}
    None = None
SPECIFICATION FairSpec
INVARIANTS
    WalletLedgerInvariant
    EvidenceMatchesStatus
    OpenDestinationKept
PROPERTIES
    ImplementsBalance
    EditKeepsPrimary
    CallsEnd
\* When everything has been paid, requested and deleted, nothing is left to do.
CHECK_DEADLOCK FALSE
