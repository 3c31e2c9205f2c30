\* Two maps, and more commands than half a ring, so that compacting shifts
SPECIFICATION Spec
CONSTANTS
    Capacity = 4
    Given <- Mixed
    Command <- MCCommand
    Disconnect <- MCDisconnect
    NewMap <- MCNewMap
    Supersedes <- MCSupersedes
    MaxAdded = 4
    MaxInFlight = 1
    MaxLost = 1
    MaxLevels = 2
    MaxGamestates = 1
INVARIANTS
    TypeOK
    ExecutedBeforeSnapshot
    ExecutedInOrder
    DecodedWithItsKey
PROPERTIES
    SentIsStable
CHECK_DEADLOCK FALSE
