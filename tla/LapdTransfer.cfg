SPECIFICATION FairSpec
CONSTANTS
    A = A
    B = B
    K = 3
    VRange = 4
    HistRange = 4
    N200 = 2
    N200EstRel = 1
    Reestablish = TRUE
    T203On = FALSE
    Rts = FALSE
    Drop2ndRej = FALSE
    Msgs = {1, 2, 3, 4}
    Segs <- FirstInTwo
    MaxF = 2
    Environments <- Transfer
INVARIANTS WindowKept WholeOnOneLink RepairedByRetransmission
PROPERTY EveryMessageSettled
CHECK_DEADLOCK FALSE
