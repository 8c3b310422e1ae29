CONSTANTS
    Contacts = {c1, c2, c3}
    Mailboxes = {m1, m2}
    Flows = {f1, f2}
    MaxEmailRecipients = 2
    None = None
SPECIFICATION Spec
INVARIANTS TypeOK OneMailPerApproval SentRowWasMailed NothingLeftSending SavedIsTheDesk
PROPERTIES EmailContractHolds
SYMMETRY Symmetry
CHECK_DEADLOCK FALSE
