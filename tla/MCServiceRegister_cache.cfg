CONSTANTS
    y = y
    z = z
    yResolver = yResolver
    zResolver = zResolver
    Services = {y, z}
    Instances = {1, 2}
    Nodes <- ThreeNodes
    Listeners = {yResolver}
    Listens <- ListensY
    Collected = {yResolver}
    Filtering = TRUE
    MaxChanges = 3
    MaxPicks = 2
SPECIFICATION FairSpec
INVARIANTS
    TypeOK
    StaleOnlyIfPending
    ListenersInSync
    RoundRobinBalanced
PROPERTIES
    Converges
CHECK_DEADLOCK FALSE
