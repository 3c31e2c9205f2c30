\* The server queues a stream, the client acknowledges it
SPECIFICATION Spec
CONSTANTS
    Server = server
    Client = client
    Data <- MCData
    NoData = nodata
    Stream <- MCStream
    ServerLen = 3
    ClientLen = 0
    TxWindow = 2
    RxWindow = 2
    BufferSize = 2
    Greedy <- ServerOnly
    MaxInFlight = 2
    MaxFaults = 1
INVARIANTS
    TypeOK
    SendBufferIntact
    SkipsOnlyHeld
PROPERTIES
    ImplementsChannel
