SPECIFICATION Spec
CONSTANTS
    Uploads = {u1, u2}
    Folders = {f1}
    Reject = Reject
    NoDecision = NoDecision
    Nobody = Nobody
    UI = UI
    MayDisconnect = TRUE
CHECK_DEADLOCK FALSE
SYMMETRY UploadSymmetry
PROPERTY NoUploadSkipped
