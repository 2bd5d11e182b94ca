\* Relay, one signal: checks ListenerOwnership alone.
CONSTANTS
    e1 = e1
    e2 = e2
    e3 = e3
    s1 = s1
    s2 = s2
    p1 = p1
    p2 = p2
    Params <- MC_Params1
    Events <- MC_Events
    Signals <- MC_Signals1
    NodePoolSize = 2
    EventQueueCap = 2
    MaxListens = 3
    None = None
SPECIFICATION Spec
INVARIANT ListenerOwnership
