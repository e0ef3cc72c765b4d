CONSTANTS
    y = y
    z = z
    yResolver = yResolver
    zResolver = zResolver
    Services = {y, z}
    Instances = {1}
    Nodes <- OneNode
    Listeners = {yResolver, zResolver}
    Listens <- ListensYZ
    Collected = {}
    Filtering = FALSE
    MaxChanges = 3
    MaxPicks = 0
SPECIFICATION Spec
INVARIANTS
    OldServicesOwned
CHECK_DEADLOCK FALSE
