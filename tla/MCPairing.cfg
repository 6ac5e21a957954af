SPECIFICATION Spec
CONSTANTS
    Clicks = {c1, c2}
    Preload = Preload
    Sessions = {s1}
    Old = Old
    NoFile = NoFile
    NoQR = NoQR
    Failed = Failed
    MayFail = TRUE
CHECK_DEADLOCK FALSE
SYMMETRY ClickSymmetry
INVARIANTS
    KeyShown
    TokenShown
    GenerateIsFresh
