\* Downloads begun, broken off, refused, redirected and ended, over two maps
SPECIFICATION FairSpec
CONSTANTS
    File = {"a", "b", "x"}
    NoFile = "none"
    Paks = {"a", "b"}
    SizeOf <- MCSizeOf
    Unreadable = {"b"}
    BlockSize = 2
    Request <- MCRequest
    MaxDownloads = 2
    MaxLevel = 2
INVARIANTS
    TypeOK
    OneHandle
PROPERTIES
    PartIsWhole
    BegunIsAnswered
    GivenGamestate
CHECK_DEADLOCK FALSE
