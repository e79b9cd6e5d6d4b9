SPECIFICATION LoadUseSpec
CONSTANTS
    N = 7
    Key <- MCKey
    Val <- MCVal
    Entry <- OneKeyTwice
    Order = 3
    IdSpace = 32
    None = None
    Input <- AnyInput
INVARIANTS
    LoadedTree
    LoadedOccupancy
    LoadedRouting
PROPERTIES
    LoadExact
    LoadLinear
VIEW
    LoadView
