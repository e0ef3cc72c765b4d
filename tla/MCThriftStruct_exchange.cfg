CONSTANTS
    a = a
    b = b
    Objs = {a, b}
    Casts <- AllCasts
    Touched = {1, 2, 3, 10, 12, 13, 15, 17}
    Values <- FewValues
    MaxChanges = 2
    Cuts = {0, 1, 2}
    DefaultSize = 2
    Types <- AllTypes
    Depth <- DepthOf
    ElemDefault <- AnyDefault
    ElemEqual <- AnyEqual
    ElemWrite <- AnyWrite
    ElemRead <- AnyRead
    ElemTorn <- AnyTorn
    ElemFits <- AnyFits
    ElemApart <- AnyApart
SPECIFICATION Spec
INVARIANTS
    TypeOK
    RoundTripKeeps
    VersionsUnderstand
    UsedObjectsOverwritten
    BufferGivenBack
    MarkedCameWhole
CHECK_DEADLOCK FALSE
