SPECIFICATION Spec
CONSTANTS
    N = 7
    Key <- MCKey
    Val <- MCVal
    Entry <- OneValueEach
    Order = 4
    IdSpace = 32
    None = None
INVARIANTS
    NoLeakNoAlias
    Occupancy
    Routing
    LenExact
VIEW
    View
