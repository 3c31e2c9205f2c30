\* A ring that overflows, and a lossy network
SPECIFICATION FairSpec
CONSTANTS
    Capacity = 2
    Given <- Lossless
    Command <- MCCommand
    Disconnect <- MCDisconnect
    NewMap <- MCNewMap
    Supersedes <- MCSupersedes
    MaxAdded = 3
    MaxInFlight = 1
    MaxLost = 1
    MaxLevels = 1
    MaxGamestates = 1
PROPERTIES
    EventuallyExecuted
    OverflowDrops
CHECK_DEADLOCK FALSE
