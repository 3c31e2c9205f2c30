\* Differences to bases that are recent, old, written over or lost, over two maps
SPECIFICATION Spec
CONSTANTS
    Kind = {"entities", "clients"}
    Size <- MCSize
    PACKET_BACKUP = 4
    Margin = 1
    Seen <- MCSeen
    Others <- MCOthers
    MaxMessage = 5
    MaxNext = 6
    MaxInFlight = 1
    MaxLevel = 2
INVARIANTS
    TypeOK
    SeesTheGame
    HasBase
    OwnMap
CHECK_DEADLOCK FALSE
