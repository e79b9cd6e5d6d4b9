\* The run ends when the tree is loaded.
SPECIFICATION LoadSpec
CONSTANTS
    N = 60
    Key <- MCKey
    Val <- MCVal
    Entry <- OneValueEach
    Order = 4
    IdSpace = 64
    None = None
    Input <- FirstEntries
INVARIANTS
    LoadedTree
    LoadedOccupancy
    LoadedRouting
    LevelsOrdered
PROPERTIES
    LoadExact
    LoadLinear
    LoadReturns
CHECK_DEADLOCK FALSE
