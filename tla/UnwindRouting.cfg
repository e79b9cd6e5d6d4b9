SPECIFICATION UnwindSpec
CONSTANTS
    N = 6
    Key <- MCKey
    Val <- MCVal
    Entry <- OneValueEach
    Order = 3
    IdSpace = 32
    None = None
    PanicBound = 1
INVARIANT
    Routing
VIEW
    UnwindView
