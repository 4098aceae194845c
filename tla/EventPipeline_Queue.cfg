SPECIFICATION FairSpec
CONSTANTS
    EventNum = 3
    ListSize = 3
    Types = {1, 2}
    Bodies = {b1, b2}
    ZeroBody = b1
INVARIANTS
    TypeOK
    PoolMatchesList
PROPERTIES
    ImplementsEventQueue
    FullPoolDrains
