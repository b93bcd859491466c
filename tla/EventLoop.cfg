SPECIFICATION FairSpec
CONSTANTS
    Ofds = {o1, o2}
    Numbers = {1, 2}
    Timers = {t1, t2}
    MaxLength = 2
    MaxTimeout = 1
    Environments <- All
INVARIANTS EvictedAreDue NoUseAfterFree WrittenInOrder
PROPERTIES TimersFire QueuesDrain
CHECK_DEADLOCK FALSE
