CONSTANTS
    Contacts = {c1}
    Allowlisted = {c1}
    Instances = {i1, i2}
    ConfirmFlows = {f1}
    RetryFlows = {r1, r2}
    None = None
    MaxRestarts = 1
SPECIFICATION FairSpec
INVARIANTS TypeOK OneCallPerAttempt RetryOnlyUnanswered RowShowsItsCall
PROPERTIES ContractHolds RowsSettle
CHECK_DEADLOCK FALSE
