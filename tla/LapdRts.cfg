SPECIFICATION Spec
CONSTANTS
    A = A
    B = B
    K = 1
    VRange = 8
    HistRange = 2
    N200 = 1
    N200EstRel = 1
    Reestablish = FALSE
    T203On = FALSE
    Rts = TRUE
    Drop2ndRej = FALSE
    Msgs = {1, 2}
    Segs <- OneSegment
    MaxF = 2
    Environments <- Polled
INVARIANTS SenderNeverStranded
CHECK_DEADLOCK FALSE
