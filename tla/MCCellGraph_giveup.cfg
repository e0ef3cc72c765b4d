CONSTANTS
    Graphs <- SingleGraph
    Final = Final
SPECIFICATION Spec
INVARIANTS
    NoUseAfterRelease
CHECK_DEADLOCK FALSE
