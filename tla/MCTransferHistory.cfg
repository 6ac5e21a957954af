SPECIFICATION FairSpec
CONSTANTS
    Sends = {1, 2, 3}
    Names <- OneTwo
    NameOf <- MCNameOf
    Nothing = Nothing
    MaxHistory = 1
CHECK_DEADLOCK FALSE
INVARIANTS
    NoPhantomUpload
    SuccessRecorded
PROPERTY BarGoes
