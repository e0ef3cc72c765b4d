CONSTANTS
    si1 = si1
    si2 = si2
    callA = callA
    callB = callB
    callC = callC
    NoSI = NoSI
    SIs = {si1, si2}
    Calls = {callA, callB, callC}
    SiOf <- TwoSIs
    Guarded = {callA}
    Retries = 1
    Method <- TwoSIsMethod
SPECIFICATION Spec
INVARIANTS
    HandlersMatchCells
PROPERTIES
    KeepsPromise
CHECK_DEADLOCK FALSE
