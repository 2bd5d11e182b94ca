\* Four nodes, two lists: the pool empties and wraps, both lists fill, and
\* nodes move between the lists through the pool.
CONSTANTS
    l1 = l1
    l2 = l2
    None = None
    Lists <- MC_Lists
    SizeLog2N <- MC_SizeLog2N
    ItemSize = 2
SPECIFICATION Spec
SYMMETRY MC_Symmetry
INVARIANT PoolTypeOK
INVARIANT SlotAccounting
INVARIANT NodeOwnership
PROPERTY ImplementsAbstractPool
PROPERTY ListsImplementDeques
