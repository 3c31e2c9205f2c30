\* Both copies, identifiers used again, and a table that gets full
SPECIFICATION FairSpec
CONSTANTS
    MAX_CALLBACKS = 3
    Tid = {t1, t2}
    MaxJobs = 4
INVARIANTS
    TypeOK
    OneDownload
    FirstSlotIsKept
    CalledBackOnce
PROPERTIES
    FirstSlotCompletes
CHECK_DEADLOCK FALSE
