SPECIFICATION FairSpec
CONSTANTS
    BSS = BSS
    SGSN = SGSN
    v1 = v1
    v2 = v2
    VcList <- TheVcs
    ResetRetries = 0
    BlockRetries = 1
    AliveRetries = 1
    Environments <- Stalling
CHECK_DEADLOCK FALSE
PROPERTY BlockedIsUnblocked
