SPECIFICATION TablesSpec
CONSTANTS
    o1 = o1
    o2 = o2
    Ops = {o1, o2}
    L1 = L1
    L2 = L2
    t1 = t1
    t2 = t2
    Transports = {t1, t2}
    NoTable = NoTable
    Ignores <- IgnoresOf
    Registers <- RegistersOf
    Setups <- SetupsOf
    MaxBlocks = 3
    MaxFaults = 1
INVARIANTS ProofsMatchCertificate IndexNamesItsLeaf SuccessMeansTable TableIsOfItsBlock
CHECK_DEADLOCK FALSE
