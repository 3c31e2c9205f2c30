\* What the description of sv_mapDownloadCompletedCmd says
SPECIFICATION FairSpec
CONSTANTS
    MAX_CALLBACKS = 2
    Tid = {t1, t2}
    MaxJobs = 2
PROPERTIES
    ReceivedMapIsExecuted
CHECK_DEADLOCK FALSE
