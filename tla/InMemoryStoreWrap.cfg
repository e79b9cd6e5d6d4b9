\* The client lets the slab grow past the id space (2^32 nodes in the code).
SPECIFICATION Spec
CONSTANTS
    Key <- MCKey
    Val = {1}
    IdSpace = 2
    Content <- MCContent
    SlabBound = 3
PROPERTY
    FreshId
