CONSTANTS
    d1 = d1  d2 = d2  l1 = l1  c1 = c1  t1 = t1  t2 = t2
    Devices = {d1, d2}
    Ledgers = {l1}
    Contacts = {c1}
    Transactions = {t1, t2}
    LedgerOf <- MCLedgerOf
    ContactOf <- MCContactOf
    Fields = {f1}
    Rank <- MCRank
    Second = 1
    Shared = {l1, c1, t1}
    Menu <- Mixed
    Cycles = {"push", "pull"}
    Skew <- NoSkew
    CanRefuse = TRUE
    PageLimit = 1
    MaxAttempts = 2
    MaxWrites = 2
    MaxFaults = 1
SPECIFICATION Spec
INVARIANTS TypeOK LoggedOnce NothingSkipped SettledIsKept BalanceIsTheBooks
PROPERTIES SyncContractHolds
SYMMETRY Symmetry
CHECK_DEADLOCK FALSE
