CONSTANTS
    MaxAttempts = 3
    IdRange = 2
    PortRange = 5
    FirstPort = 2
    Others = {4}
SPECIFICATION FairSpec
INVARIANTS
    TypeOK
    PendingIsGuarded
    PortsLast
PROPERTIES
    TimeoutIsOwn
    TimerEndsWait
CHECK_DEADLOCK FALSE
