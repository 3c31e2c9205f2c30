\* A private and a public slot, two players at one IP, one of them outdated
SPECIFICATION FairSpec
CONSTANTS
    Player = {"a", "b", "c"}
    NoPlayer = "none"
    IpOf <- MCIpOf
    Outdated = {"b"}
    Trusted = {"c"}
    MaxClients = 2
    PrivateClients = 1
    QueueLength = 2
    Timeout = 1
    ConnectTimeout = 1
    ConnectedTime = 1
    ZombieTime = 0
    UpdateTimeout = 2
    QueueTimeout = 1
    Patience = 1
    MaxUpdates = 1
INVARIANTS
    TypeOK
    OneSlotPerAddress
    TransportsKept
PROPERTIES
    GoneIsFreed
