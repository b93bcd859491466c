SPECIFICATION Spec
CONSTANTS
    Mode = "NETWORK"
    K = 1
    VRange = 2
    HistRange = 2
    N200 = 1
    N200EstRel = 1
    Reestablish = TRUE
    T203On = TRUE
    Rts = FALSE
    Drop2ndRej = TRUE
    Msgs = {1}
    Segs <- OneSegment
    MaxF = 1
    Infos = {0, 1}
    QueueBound = 1
PROPERTY ResendIndex
INVARIANTS TimersMatchState NoStrayIFrames L3KnowsTheState SabmGuarded ContentionEnds RetransmissionsBounded
CHECK_DEADLOCK FALSE
