CONSTANTS
    ContactCards = {k}
    MoneyCards = {m1, m2}
    Taps = {t1, t2, t3}
    None = None
    TurnId = TurnId
    MaxFaults = 1
    MaxTurns = 1
SPECIFICATION Spec
INVARIANTS TypeOK TwiceOnlyAfterFailure CommittedIsWritten BusyHasOwner
PROPERTIES ProposalContractHolds
SYMMETRY Symmetry
CHECK_DEADLOCK FALSE
