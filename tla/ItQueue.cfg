SPECIFICATION FairSpec
CONSTANTS
    Producers = {p1, p2, p3}
    Items = {a, b, c}
    MaxLength = 2
    EfdMax = 3
INVARIANTS LengthAgrees NoLostWakeup
PROPERTY EveryItemLeaves
