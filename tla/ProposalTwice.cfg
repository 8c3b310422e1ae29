CONSTANTS
    ContactCards = {k}
    MoneyCards = {m1}
    Taps = {t1, t2}
    None = None
    TurnId = TurnId
    MaxFaults = 1
    MaxTurns = 0
SPECIFICATION Spec
INVARIANTS MoneyOncePerProposal
SYMMETRY Symmetry
CHECK_DEADLOCK FALSE
