\* As Netchan.cfg, without faults: the callers alone break the claim
SPECIFICATION Spec
CONSTANTS
    FRAGMENT_SIZE = 2
    Lengths = {1, 2, 3}
    MaxMessages = 3
    MaxFaults = 0
INVARIANTS
    SentInCorrectOrder
CHECK_DEADLOCK FALSE
