CONSTANTS
    Graphs <- LateActionGraph
    Final = Final
SPECIFICATION Spec
INVARIANTS
    NoUseAfterRelease
CHECK_DEADLOCK FALSE
