CONSTANTS
    Threads = {t1, t2}
    Modulus = 4
    MaxTicks = 9
    MaxHeld = 2
SPECIFICATION BoundedSpec
INVARIANTS
    NeverInvalid
CHECK_DEADLOCK FALSE
