\* Critical sections that disable the interrupt: a 4-cell queue, two handles.
CONSTANTS
    h1 = h1
    h2 = h2
    None = None
    Handles <- MC_Handles
    SizeLog2N = 2
    Locked = TRUE
SPECIFICATION Spec
INVARIANT SQTypeOK
INVARIANT QueueConsistent
