SPECIFICATION FairSpec
CONSTANTS
    o1 = o1
    o2 = o2
    o3 = o3
    Operators <- MCOperators
    Digests = {d1, d2}
    NoDigest = NoDigest
    Spellings = {"table", "other"}
    TableSpelling = "table"
    Weight <- MCWeight
    StakeOf <- MCStakeOf
    ThresholdBips = 5000
    Bn254 = TRUE
    RpcMayFail = FALSE
PROPERTIES ImplementsQuorumCertificate QuorumReturns
CHECK_DEADLOCK FALSE
