\* Three event slots and two-slot queues: more timers can fall due or be
\* rescheduled at once than the queue they are pushed to holds.
CONSTANTS
    e1 = e1
    e2 = e2
    e3 = e3
    Events <- MC_Events
    NULL = NULL
    NodePoolSize = 3
    EventQueueCap = 2
    ScheduleQueueCap = 2
    Delays = {1}
    Periods = {2}
    MaxTime = 2

SPECIFICATION Spec

INVARIANT EventsNeverDropped
