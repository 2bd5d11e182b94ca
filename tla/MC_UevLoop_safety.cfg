\* Pools and queues smaller than the number of live events: every failure
\* path of the scheduling API and of the internal pushes is reachable.
CONSTANTS
    e1 = e1
    e2 = e2
    e3 = e3
    Events <- MC_Events
    NULL = NULL
    NodePoolSize = 2
    EventQueueCap = 2
    ScheduleQueueCap = 2
    Delays = {0, 1}
    Periods = {2}
    MaxTime = 3

SPECIFICATION Spec

INVARIANT TypeOK
INVARIANT EventOwnership
INVARIANT NodeAccounting
INVARIANT TimerListOrdered
INVARIANT NeverEarly
INVARIANT NoDrift
INVARIANT RunloopSnapshot
INVARIANT NoLostWakeup
