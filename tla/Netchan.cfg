\* Messages of one, two (empty last fragment) and three units in packets of two
SPECIFICATION Spec
CONSTANTS
    FRAGMENT_SIZE = 2
    Lengths = {1, 2, 3}
    MaxMessages = 3
    MaxFaults = 2
INVARIANTS
    TypeOK
    WholeUnlessAbandoned
    NothingTwice
    ArrivesWithoutFaults
PROPERTIES
    ImplementsLossyChannel
CHECK_DEADLOCK FALSE
