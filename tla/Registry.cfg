SPECIFICATION Spec
CONSTANTS
    Addresses <- MCAddresses
    AvsOf <- MCAvsOf
    Chains = {"l1", "l2"}
    Mailboxes = {"l1"}
    Requests <- MCRequests
    Regs = {r1, r2}
    Configs <- MCConfigs
    None = None
INVARIANTS AcknowledgedRuns NoStrayPoller PassedWasTaken
CHECK_DEADLOCK FALSE
