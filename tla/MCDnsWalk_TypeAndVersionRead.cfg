SPECIFICATION FairPacketSpec
CONSTANTS
    Device <- MCDevice
    Arrivals <- MCArrivals
    MaxBody = 4
CHECK_DEADLOCK FALSE
INVARIANT TypeAndVersionRead
