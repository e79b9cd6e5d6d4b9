\* No id wraps: the client keeps the slab within the id space.
SPECIFICATION Spec
CONSTANTS
    Key <- MCKey
    Val = {1}
    IdSpace = 4
    Content <- MCContent
    SlabBound = 4
INVARIANTS
    TypeOK
    FreeListSound
PROPERTY
    ImplementsBackend
