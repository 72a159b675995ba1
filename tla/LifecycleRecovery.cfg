SPECIFICATION FairSpec
CONSTANTS
    t1 = t1
    t2 = t2
    NoTask = NoTask
    Tasks = {t1, t2}
    NumBlocks = 1
    LogsOf <- MCLogsOf
    Durable = TRUE
    MaxReorgs = 0
    MaxCrashes = 1
    MaxStoreFaults = 0
    MaxTroubles = 1
PROPERTIES PendingIsRequeued
CHECK_DEADLOCK FALSE
