SPECIFICATION FairSpec
CONSTANTS
    Setups <- MCSetups
    StartHeight = 1
    MaxHeight = 5
    MaxReorgs = 2
INVARIANTS StoredChainLinked AlwaysResumable TasksMatchChain
PROPERTIES CatchesUp
CHECK_DEADLOCK FALSE
