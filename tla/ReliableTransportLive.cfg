\* A stream from the server and one from the client, with fairness
SPECIFICATION FairSpec
CONSTANTS
    Server = server
    Client = client
    Data <- MCData
    NoData = nodata
    Stream <- MCStream
    ServerLen = 2
    ClientLen = 1
    TxWindow = 2
    RxWindow = 2
    BufferSize = 2
    Greedy <- Both
    MaxInFlight = 1
    MaxFaults = 1
PROPERTIES
    EventuallyDelivered
    EventuallyAcknowledged
