SPECIFICATION FairSpec
CONSTANTS
    t1 = t1
    t2 = t2
    NoTask = NoTask
    Tasks = {t1, t2}
    NumBlocks = 1
    LogsOf <- MCLogsOf
    Durable = TRUE
    MaxReorgs = 1
    MaxCrashes = 1
    MaxStoreFaults = 1
    MaxTroubles = 2
INVARIANTS OneSessionPerTask SubmittedOnce
PROPERTIES TaskIsRecorded
CHECK_DEADLOCK FALSE
