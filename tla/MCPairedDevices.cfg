SPECIFICATION FairSpec
CONSTANTS
    Phones <- AB
    Sessions = {1, 2}
    PhoneOf <- MCPhoneOf
    MaxTokens = 2
    MaxChanges = 2
    MaxCrashes = 1
CHECK_DEADLOCK FALSE
INVARIANTS
    RegisteredCanReturn
    StaleTokenRegistersNobody
    PairedIsAuthorized
PROPERTY OnlineSettles
