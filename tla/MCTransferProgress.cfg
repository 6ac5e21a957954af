SPECIFICATION FairSpec
CONSTANTS
    Transfers = {1, 3}
    Senders = {1}
    Names <- OneTwo
    NameOf <- MCNameOf
    Chunks = 3
    UI = UI
CHECK_DEADLOCK FALSE
INVARIANTS
    FlagsHaveTransfers
    RowsAreRunning
    CancelledStaysHidden
    RunningIsListed
PROPERTIES
    CancelHasReason
    CountsNeverShrink
    ImplementsList
    CancelStops
