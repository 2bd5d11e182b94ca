\* A queue of 4 cells carrying 2 handles: fills, empties and wraps.
CONSTANTS
    h1 = h1
    h2 = h2
    None = None
    Handles <- MC_Handles
    SizeLog2N = 2
SPECIFICATION CQSpec
INVARIANT CQTypeOK
PROPERTY ImplementsFifo
