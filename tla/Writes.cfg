SPECIFICATION FairWrites
CONSTANTS
    w1 = w1
    w2 = w2
    Writers = {w1, w2}
    CallChoices <- Choices
    FactChoices <- Contracts
    Fees = {1, 2}
    MaxAttempts = 5
    MaxFaults = 1
INVARIANTS SuccessIsOnChain NoNonceGap
PROPERTIES SubmissionsEnd
CHECK_DEADLOCK FALSE
