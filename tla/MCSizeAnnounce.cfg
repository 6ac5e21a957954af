SPECIFICATION Spec
CONSTANTS
    Transfers = {1, 2, 3, 4, 6}
    Names <- AllNames
    NameOf <- MCNameOf
    Trimmed <- MCTrimmed
    Base <- MCBase
    Unknown = Unknown
CHECK_DEADLOCK FALSE
INVARIANTS
    NoSizeTwice
    OpenFindsItsSize
