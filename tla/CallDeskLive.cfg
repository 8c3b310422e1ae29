CONSTANTS
    Contacts = {c1}
    ConfirmFlows = {f1, f2}
    RetryFlows = {r1}
    Senders = {}
    None = None
    MaxSessions = 2
    MaxDeaths = 0
SPECIFICATION FairSpec
PROPERTIES PolledRunIsFiled
CHECK_DEADLOCK FALSE
