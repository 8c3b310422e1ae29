CONSTANTS
    Contacts = {c1}
    ConfirmFlows = {f1}
    RetryFlows = {}
    Senders = {s1, s2}
    None = None
    MaxSessions = 2
    MaxDeaths = 0
SPECIFICATION FairSpec
INVARIANTS SendNeedsConsent
CHECK_DEADLOCK FALSE
