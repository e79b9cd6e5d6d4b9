SPECIFICATION ChurnSpec
CONSTANTS
    N = 16
    Key <- MCKey
    Val <- MCVal
    Entry <- OneValueEach
    Order = 5
    IdSpace = 32
    None = None
    Input <- Lopsided
INVARIANTS
    LoadedTree
    LoadedOccupancy
    LoadedRouting
VIEW
    LoadView
