CONSTANTS
    Contacts = {c1, c2}
    ConfirmFlows = {f1}
    RetryFlows = {r1}
    Senders = {s1}
    None = None
    MaxSessions = 2
    MaxDeaths = 1
SPECIFICATION Spec
INVARIANTS TypeOK BatchClosesLast CompletedIsClean
PROPERTIES RunFiledOnce
SYMMETRY Symmetry
CHECK_DEADLOCK FALSE
