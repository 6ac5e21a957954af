SPECIFICATION FairSpec
CONSTANTS
    Uploads = {u1, u2}
    Folders = {f1}
    Reject = Reject
    NoDecision = NoDecision
    Nobody = Nobody
    UI = UI
    MayDisconnect = FALSE
CHECK_DEADLOCK FALSE
PROPERTY OpenReturns
