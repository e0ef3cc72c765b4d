CONSTANTS
    Graphs <- AsyncGraph
    Final = Final
SPECIFICATION Spec
INVARIANTS
    NoUseAfterRelease
CHECK_DEADLOCK FALSE
