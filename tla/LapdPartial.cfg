SPECIFICATION Spec
CONSTANTS
    A = A
    B = B
    K = 2
    VRange = 4
    HistRange = 4
    N200 = 1
    N200EstRel = 1
    Reestablish = TRUE
    T203On = TRUE
    Rts = FALSE
    Drop2ndRej = FALSE
    Msgs = {1, 2}
    Segs <- FirstInTwo
    MaxF = 2
    Environments <- Broken
INVARIANTS WholeMessages
CHECK_DEADLOCK FALSE
