CONSTANTS
    Threads = {t1, t2}
    Modulus = 6
    MaxTicks = 14
    MaxHeld = 2
SPECIFICATION BoundedSpec
INVARIANTS
    PastHeldIds
PROPERTIES
    RepeatNeedsRound
CHECK_DEADLOCK FALSE
