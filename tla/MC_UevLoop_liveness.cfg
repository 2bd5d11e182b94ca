\* Queues as large as the event pool (two slots), so no push is ever dropped:
\* every queued timer and event can be followed to its closure running.
\* The same instance checks the refinement of TimerService.
CONSTANTS
    e1 = e1
    e2 = e2
    e3 = e3
    Events <- MC_Events2
    NULL = NULL
    NodePoolSize = 2
    EventQueueCap = 2
    ScheduleQueueCap = 2
    Delays = {0, 1}
    Periods = {2}
    MaxTime = 3

SPECIFICATION Spec

PROPERTY DueTimerRuns
PROPERTY QueuedEventRuns
PROPERTY ScheduledTimerRuns
PROPERTY ImplementsTimerService
