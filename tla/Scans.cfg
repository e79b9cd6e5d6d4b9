SPECIFICATION ScanSpec
CONSTANTS
    N = 6
    Key <- MCKey
    Val <- MCVal
    Entry <- OneValueEach
    Order = 3
    IdSpace = 32
    None = None
INVARIANTS
    CursorsValid
    StepsMove
PROPERTY
    ImplementsScan
VIEW
    ScanView
