SPECIFICATION FairSpec
CONSTANTS
    Peers = {p1, p2}
    Self = Self
    Ttl = 2
    MaxBuffer = 1
INVARIANTS
    LateRecordAtMostOne
    GoodbyeOwed
PROPERTIES
    ToggleKept
    DisabledEmptiesList
    SilentPeerLeaves
    GoodbyeSent
