SPECIFICATION FairSpec
CONSTANTS
    N = 6
    Key <- MCKey
    Val <- MCVal
    Entry <- OneKeyTwice
    Order = 3
    IdSpace = 32
    None = None
PROPERTIES
    ImplementsMap
    CallsReturn
    CallsEnd
VIEW
    View
