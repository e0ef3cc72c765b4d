CONSTANTS
    si1 = si1
    si2 = si2
    callA = callA
    callB = callB
    callC = callC
    NoSI = NoSI
    SIs = {si1}
    Calls = {callA, callB}
    SiOf <- OneSI
    Guarded = {callA, callB}
    Retries = 1
    Method <- OneSIMethod
SPECIFICATION FairSpec
INVARIANTS
    TypeOK
    HandlersMatchCells
    PendingCallCanEnd
    ResolvedCallUnregistered
    TimeoutAfterAllAttempts
PROPERTIES
    OutcomeIsFinal
    CancelOnlyAnswered
    GuardedCallEnds
CHECK_DEADLOCK FALSE
