\* Buckets found, taken, expired and refused; intervals that are no ints
SPECIFICATION Spec
CONSTANTS
    Address = {"a", "b", "c"}
    NoAddress = "none"
    MaxBuckets = 2
    MaxHashes = 2
    HashFor <- MCHashFor
    Query = {"status", "info"}
    BurstOf <- MCBurstOf
    Period = 2
    IntRange = 16
    CharRange = 8
    Watched = "a"
INVARIANTS
    TypeOK
    ChainsIntact
    AnswersBounded
    SilentIsAnswered
