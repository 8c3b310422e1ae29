CONSTANTS
    Requests <- MCRequests
    Calls <- MCCalls
    Desks <- MCDesks
    Results <- MCResults
SPECIFICATION Spec
INVARIANTS
    TypeOK
    MoneyAsSpoken IdNeedsUniqueName DraftsReachTheNamed
    SpokenAsComposed TwinGatesAgree OnlyAllowedCalls PreviewAgrees PromiseIsWhatWasSaid
CONSTRAINT Apart
CHECK_DEADLOCK FALSE
