CONSTANTS
    Graphs <- AllGraphs
    Final = Final
SPECIFICATION FairSpec
INVARIANTS
    TypeOK
    AnsweredOnce
    NoLostUpdate
    OrderlyGraphSafe
PROPERTIES
    WriteOnce
    SIEnds
CHECK_DEADLOCK FALSE
