CONSTANTS
    d1 = d1  d2 = d2  l1 = l1  c1 = c1  t1 = t1  t2 = t2
    Devices = {d1}
    Ledgers = {l1}
    Contacts = {c1}
    Transactions = {t1}
    LedgerOf <- MCLedgerOf
    ContactOf <- MCContactOf
    Fields = {f1}
    Rank <- MCRank
    Second = 3
    Shared = {l1}
    Menu <- FirstSales
    Cycles = {"sync"}
    Skew <- NoSkew
    CanRefuse = FALSE
    PageLimit = 1
    MaxAttempts = 2
    MaxWrites = 2
    MaxFaults = 0
SPECIFICATION FairSpec
PROPERTIES QueueDrains
CHECK_DEADLOCK FALSE
