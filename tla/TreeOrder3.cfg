SPECIFICATION Spec
CONSTANTS
    N = 7
    Key <- MCKey
    Val <- MCVal
    Entry <- OneValueEach
    Order = 3
    IdSpace = 32
    None = None
INVARIANTS
    TypeOK
    NoLeakNoAlias
    SameDepth
    FramesHold
    ShallowTree
    Occupancy
    Routing
    LenExact
VIEW
    View
