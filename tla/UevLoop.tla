------------------------------ MODULE UevLoop ------------------------------
(***************************************************************************)
(* The event-dispatch engine of uEvLoop: the two system pools, the two     *)
(* system queues, the scheduler (uel_sch), the event loop (uel_evloop) and *)
(* the application tick that drives them (uel_app_tick), as seen by        *)
(* the main context and by the periodic timer ISR (uel_app_update_timer).  *)
(*                                                                         *)
(* Events are the slots of the event pool.  A closure is abstracted to the *)
(* calls its body makes: while it runs, the scheduling API may be called   *)
(* any number of times, which is also what the ISR may do at any moment.  *)
(***************************************************************************)
EXTENDS Naturals, Sequences, SequencesExt, Bags, FiniteSets

CONSTANTS
    Events,           \* the slots of the event pool (model values)
    NodePoolSize,     \* slots of the linked-list node pool
    EventQueueCap,    \* capacity of the event queue
    ScheduleQueueCap, \* capacity of the schedule queue
    Delays,           \* timeouts passed to uel_sch_run_later
    Periods,          \* periods passed to uel_sch_run_at_intervals
    MaxTime,          \* bound on the millisecond counter fed by the ISR
    NULL              \* no event

ASSUME /\ NULL \notin Events
       /\ NodePoolSize \in Nat
       /\ EventQueueCap \in Nat \ {0}
       /\ ScheduleQueueCap \in Nat \ {0}
       /\ Delays \subseteq Nat
       /\ Periods \subseteq Nat \ {0}
       /\ MaxTime \in Nat

VARIABLES
    eventPool,     \* free queue of the event pool, in release order
    freeNodes,     \* free slots of the linked-list node pool
    eventQueue,    \* system event queue: events ready to run
    scheduleQueue, \* system schedule queue: timers ready to be scheduled
    timerList,     \* scheduler timer list
    event,         \* contents of each event slot
    timer,         \* scheduler->timer, written by the ISR
    runScheduler,  \* app->run_scheduler
    pc,            \* where the main context is inside uel_app_tick
    collected,     \* due timers detached from the list, not yet enqueued
    pending,       \* events of the runloop's snapshot not yet run
    current,       \* the event whose closure is running, or NULL
    lost,          \* events dropped by a push to a full queue
    fresh,         \* events pushed to the event queue since the runloop began
    inserted,      \* the timer list in order of insertion
    base           \* the due time each timer was first scheduled for

vars == <<eventPool, freeNodes, eventQueue, scheduleQueue, timerList, event,
          timer, runScheduler, pc, collected, pending, current, lost, fresh,
          inserted, base>>

-----------------------------------------------------------------------------
Kinds == {"closure", "timer"}
EventRec == [kind : Kinds, due : Nat, period : Nat, repeating : BOOLEAN]

\* uel_event_config_closure
ClosureEvent == [kind |-> "closure", due |-> 0, period |-> 0, repeating |-> FALSE]

\* uel_event_config_timer: due_time is taken from the current timer
TimerEvent(due, period, repeating) ==
    [kind |-> "timer", due |-> due, period |-> period, repeating |-> repeating]

\* Mutant: a timer counts as due one millisecond early.
IsDueOneEarly(e) == event[e].due <= timer + 1

\* Mutant: a timer only counts as due once its due time has passed.
IsDueStrict(e) == event[e].due < timer

\* A timer is due when its due time is not after the scheduler's timer.
IsDue(e) == event[e].due <= timer

\* Mutant: a new timer goes before the listed timers with its due time.
InsertPositionBeforeEqual(e) ==
    LET i == SelectInSeq(timerList, LAMBDA x : event[x].due >= event[e].due)
    IN  IF i = 0 THEN Len(timerList) + 1 ELSE i

\* Position of the first listed timer due strictly later than e: inserting
\* there keeps timers with equal due times in insertion order.
InsertPosition(e) ==
    LET i == SelectInSeq(timerList, LAMBDA x : event[x].due > event[e].due)
    IN  IF i = 0 THEN Len(timerList) + 1 ELSE i

\* Number of due timers at the head of the list.
DueCount ==
    LET i == SelectInSeq(timerList, LAMBDA x : ~IsDue(x))
    IN  IF i = 0 THEN Len(timerList) ELSE i - 1

\* uel_evloop_run takes its snapshot of the event queue size.
StartRunloop ==
    /\ pc' = "run"
    /\ pending' = Len(eventQueue)
    /\ fresh' = {}

-----------------------------------------------------------------------------
Init ==
    /\ eventPool = SetToSeq(Events)
    /\ freeNodes = NodePoolSize
    /\ eventQueue = <<>>
    /\ scheduleQueue = <<>>
    /\ timerList = <<>>
    /\ event = [e \in Events |-> ClosureEvent]
    /\ timer = 0
    /\ runScheduler = TRUE
    /\ pc = "idle"
    /\ collected = <<>>
    /\ pending = 0
    /\ current = NULL
    /\ lost = {}
    /\ fresh = {}
    /\ inserted = <<>>
    /\ base = [e \in Events |-> 0]

-----------------------------------------------------------------------------
(* The scheduling API, called by a running closure or by an ISR.          *)

\* Mutant: the push result is ignored and a full queue grows.
EnqueueClosureIgnoreFull ==
    /\ eventPool /= <<>>
    /\ LET e == Head(eventPool) IN
       /\ event' = [event EXCEPT ![e] = ClosureEvent]
       /\ eventQueue' = Append(eventQueue, e)
       /\ eventPool' = Tail(eventPool)
       /\ fresh' = fresh \cup {e}
    /\ UNCHANGED <<freeNodes, scheduleQueue, timerList, timer, runScheduler,
                   pc, collected, pending, current, lost, inserted, base>>

\* uel_evloop_enqueue_closure: acquire an event, configure it and push it
\* to the event queue; on a full queue the event is released again.
EnqueueClosure ==
    /\ eventPool /= <<>>
    /\ LET e == Head(eventPool) IN
       /\ event' = [event EXCEPT ![e] = ClosureEvent]
       /\ \/ /\ Len(eventQueue) < EventQueueCap
             /\ eventQueue' = Append(eventQueue, e)
             /\ eventPool' = Tail(eventPool)
             /\ fresh' = fresh \cup {e}
          \/ /\ Len(eventQueue) = EventQueueCap
             /\ eventPool' = Append(Tail(eventPool), e)
             /\ UNCHANGED <<eventQueue, fresh>>
    /\ UNCHANGED <<freeNodes, scheduleQueue, timerList, timer, runScheduler,
                   pc, collected, pending, current, lost, inserted, base>>

\* Mutant: a push to a full queue forgets to release the event.
ScheduleTimerLeakOnFull(t, immediate) ==
    /\ eventPool /= <<>>
    /\ LET e   == Head(eventPool)
           q   == IF immediate THEN eventQueue ELSE scheduleQueue
           cap == IF immediate THEN EventQueueCap ELSE ScheduleQueueCap
       IN
       \/ /\ freeNodes = 0
          /\ eventPool' = Append(Tail(eventPool), e)
          /\ UNCHANGED <<event, base, freeNodes, eventQueue, scheduleQueue,
                         fresh>>
       \/ /\ freeNodes > 0
          /\ Len(q) = cap
          /\ eventPool' = Tail(eventPool)
          /\ event' = [event EXCEPT ![e] = t]
          /\ UNCHANGED <<base, freeNodes, eventQueue, scheduleQueue, fresh>>
       \/ /\ freeNodes > 0
          /\ Len(q) < cap
          /\ eventPool' = Tail(eventPool)
          /\ freeNodes' = freeNodes - 1
          /\ event' = [event EXCEPT ![e] = t]
          /\ base' = [base EXCEPT ![e] = t.due]
          /\ \/ /\ immediate
                /\ eventQueue' = Append(eventQueue, e)
                /\ fresh' = fresh \cup {e}
                /\ UNCHANGED scheduleQueue
             \/ /\ ~immediate
                /\ scheduleQueue' = Append(scheduleQueue, e)
                /\ UNCHANGED <<eventQueue, fresh>>
    /\ UNCHANGED <<timerList, timer, runScheduler, pc, collected, pending,
                   current, lost, inserted>>

\* uel_sch_run_later / uel_sch_run_at_intervals: acquire an event and a
\* node, configure the timer t and push it to the schedule queue, or, for
\* an immediate interval timer, straight to the event queue.  A failure
\* releases what was acquired.
ScheduleTimer(t, immediate) ==
    /\ eventPool /= <<>>
    /\ LET e   == Head(eventPool)
           q   == IF immediate THEN eventQueue ELSE scheduleQueue
           cap == IF immediate THEN EventQueueCap ELSE ScheduleQueueCap
       IN
       \/ /\ freeNodes = 0
          /\ eventPool' = Append(Tail(eventPool), e)
          /\ UNCHANGED <<event, base, freeNodes, eventQueue, scheduleQueue,
                         fresh>>
       \/ /\ freeNodes > 0
          /\ Len(q) = cap
          /\ eventPool' = Append(Tail(eventPool), e)
          /\ event' = [event EXCEPT ![e] = t]
          /\ UNCHANGED <<base, freeNodes, eventQueue, scheduleQueue, fresh>>
       \/ /\ freeNodes > 0
          /\ Len(q) < cap
          /\ eventPool' = Tail(eventPool)
          /\ freeNodes' = freeNodes - 1
          /\ event' = [event EXCEPT ![e] = t]
          /\ base' = [base EXCEPT ![e] = t.due]
          /\ \/ /\ immediate
                /\ eventQueue' = Append(eventQueue, e)
                /\ fresh' = fresh \cup {e}
                /\ UNCHANGED scheduleQueue
             \/ /\ ~immediate
                /\ scheduleQueue' = Append(scheduleQueue, e)
                /\ UNCHANGED <<eventQueue, fresh>>
    /\ UNCHANGED <<timerList, timer, runScheduler, pc, collected, pending,
                   current, lost, inserted>>

\* uel_sch_run_later(scheduler, delay, closure)
RunLater(d) == ScheduleTimer(TimerEvent(timer + d, d, FALSE), FALSE)

\* uel_sch_run_at_intervals(scheduler, period, immediate, closure)
RunAtIntervals(p, immediate) ==
    ScheduleTimer(TimerEvent(IF immediate THEN timer ELSE timer + p, p, TRUE),
                  immediate)

-----------------------------------------------------------------------------
(* The timer ISR: uel_app_update_timer(app, ++counter).                    *)

\* Mutant: the ISR updates the timer without raising run_scheduler.
UpdateTimerNoFlag ==
    /\ timer < MaxTime
    /\ timer' = timer + 1
    /\ UNCHANGED <<eventPool, freeNodes, eventQueue, scheduleQueue, timerList,
                   event, runScheduler, pc, collected, pending, current, lost,
                   fresh, inserted, base>>

UpdateTimer ==
    /\ timer < MaxTime
    /\ timer' = timer + 1
    /\ runScheduler' = TRUE
    /\ UNCHANGED <<eventPool, freeNodes, eventQueue, scheduleQueue, timerList,
                   event, pc, collected, pending, current, lost, fresh,
                   inserted, base>>

\* Past MaxTime the ISR keeps firing but the model stops counting.
UpdateTimerAtBound ==
    /\ timer = MaxTime
    /\ runScheduler' = TRUE
    /\ UNCHANGED <<eventPool, freeNodes, eventQueue, scheduleQueue, timerList,
                   event, timer, pc, collected, pending, current, lost, fresh,
                   inserted, base>>

-----------------------------------------------------------------------------
(* The main context: one uel_app_tick after another.                      *)

\* uel_app_tick with run_scheduler set: clear it, then manage the timers.
TickWithScheduler ==
    /\ pc = "idle"
    /\ runScheduler
    /\ runScheduler' = FALSE
    /\ pc' = "drain"
    /\ UNCHANGED <<eventPool, freeNodes, eventQueue, scheduleQueue, timerList,
                   event, timer, collected, pending, current, lost, fresh,
                   inserted, base>>

\* uel_app_tick with run_scheduler clear: straight to the runloop.
TickWithoutScheduler ==
    /\ pc = "idle"
    /\ ~runScheduler
    /\ StartRunloop
    /\ UNCHANGED <<eventPool, freeNodes, eventQueue, scheduleQueue, timerList,
                   event, timer, runScheduler, collected, current, lost,
                   inserted, base>>

\* uel_sch_manage_timers, step 1: pop one timer off the schedule queue and
\* insert it into the timer list in due-time order.
DrainScheduleQueue ==
    /\ pc = "drain"
    /\ scheduleQueue /= <<>>
    /\ LET e == Head(scheduleQueue) IN
       /\ timerList' = InsertAt(timerList, InsertPosition(e), e)
       /\ inserted' = Append(inserted, e)
    /\ scheduleQueue' = Tail(scheduleQueue)
    /\ UNCHANGED <<eventPool, freeNodes, eventQueue, event, timer,
                   runScheduler, pc, collected, pending, current, lost, fresh,
                   base>>

\* Mutant: manage_timers may split the list before the schedule queue is
\* drained.
CollectTimersUndrained ==
    /\ pc = "drain"
    /\ collected' = SubSeq(timerList, 1, DueCount)
    /\ timerList' = SubSeq(timerList, DueCount + 1, Len(timerList))
    /\ inserted' = SelectSeq(inserted, LAMBDA x : x \in ToSet(timerList'))
    /\ pc' = "move"
    /\ UNCHANGED <<eventPool, freeNodes, eventQueue, scheduleQueue, event,
                   timer, runScheduler, pending, current, lost, fresh, base>>

\* uel_sch_manage_timers, step 2: the list is split at the first timer
\* that is not yet due.
CollectTimers ==
    /\ pc = "drain"
    /\ scheduleQueue = <<>>
    /\ collected' = SubSeq(timerList, 1, DueCount)
    /\ timerList' = SubSeq(timerList, DueCount + 1, Len(timerList))
    /\ inserted' = SelectSeq(inserted, LAMBDA x : x \in ToSet(timerList'))
    /\ pc' = "move"
    /\ UNCHANGED <<eventPool, freeNodes, eventQueue, scheduleQueue, event,
                   timer, runScheduler, pending, current, lost, fresh, base>>

\* uel_sch_manage_timers, step 3: each detached timer is pushed to the
\* event queue; a push to a full queue drops it.
MoveToEventQueue ==
    /\ pc = "move"
    /\ collected /= <<>>
    /\ LET e == Head(collected) IN
       \/ /\ Len(eventQueue) < EventQueueCap
          /\ eventQueue' = Append(eventQueue, e)
          /\ fresh' = fresh \cup {e}
          /\ UNCHANGED lost
       \/ /\ Len(eventQueue) = EventQueueCap
          /\ lost' = lost \cup {e}
          /\ UNCHANGED <<eventQueue, fresh>>
    /\ collected' = Tail(collected)
    /\ UNCHANGED <<eventPool, freeNodes, scheduleQueue, timerList, event,
                   timer, runScheduler, pc, pending, current, inserted, base>>

\* uel_app_tick: manage_timers returned, run the event loop.
ManageTimersDone ==
    /\ pc = "move"
    /\ collected = <<>>
    /\ StartRunloop
    /\ UNCHANGED <<eventPool, freeNodes, eventQueue, scheduleQueue, timerList,
                   event, timer, runScheduler, collected, current, lost,
                   inserted, base>>

\* Mutant: the runloop goes on while the queue is not empty.
RunloopContinuesWhileQueued == eventQueue /= <<>>

\* Mutant: the runloop stops one event short of its snapshot.
RunloopContinuesOffByOne == pending > 1

\* uel_evloop_run: the runloop goes on while its snapshot lasts.
RunloopContinues == pending > 0

\* uel_evloop_run: pop the next event and invoke its closure.
RunEvent ==
    /\ pc = "run"
    /\ RunloopContinues
    /\ current' = Head(eventQueue)
    /\ eventQueue' = Tail(eventQueue)
    /\ pending' = pending - 1
    /\ pc' = "invoke"
    /\ UNCHANGED <<eventPool, freeNodes, scheduleQueue, timerList, event,
                   timer, runScheduler, collected, lost, fresh, inserted,
                   base>>

\* Mutant: a released one-shot timer keeps its list node.
ReleaseEventKeepNode ==
    /\ pc = "invoke"
    /\ ~event[current].repeating
    /\ eventPool' = Append(eventPool, current)
    /\ current' = NULL
    /\ pc' = "run"
    /\ UNCHANGED <<freeNodes, eventQueue, scheduleQueue, timerList, event,
                   timer, runScheduler, collected, pending, lost, fresh,
                   inserted, base>>

\* Mutant: the disposal releases the event whatever its kind.
ReleaseEventAnyKind ==
    /\ pc = "invoke"
    /\ eventPool' = Append(eventPool, current)
    /\ freeNodes' = IF event[current].kind = "timer" THEN freeNodes + 1
                                                     ELSE freeNodes
    /\ current' = NULL
    /\ pc' = "run"
    /\ UNCHANGED <<eventQueue, scheduleQueue, timerList, event, timer,
                   runScheduler, collected, pending, lost, fresh, inserted,
                   base>>

\* uel_evloop_run, after the closure returned: a closure event or a
\* one-shot timer is destroyed and released with its node.
ReleaseEvent ==
    /\ pc = "invoke"
    /\ ~event[current].repeating
    /\ eventPool' = Append(eventPool, current)
    /\ freeNodes' = IF event[current].kind = "timer" THEN freeNodes + 1
                                                     ELSE freeNodes
    /\ current' = NULL
    /\ pc' = "run"
    /\ UNCHANGED <<eventQueue, scheduleQueue, timerList, event, timer,
                   runScheduler, collected, pending, lost, fresh, inserted,
                   base>>

\* Mutant: the next due time is counted from now instead of the last one.
RescheduleEventFromNow ==
    /\ pc = "invoke"
    /\ event[current].repeating
    /\ event' = [event EXCEPT ![current].due = timer + event[current].period]
    /\ \/ /\ Len(scheduleQueue) < ScheduleQueueCap
          /\ scheduleQueue' = Append(scheduleQueue, current)
          /\ UNCHANGED lost
       \/ /\ Len(scheduleQueue) = ScheduleQueueCap
          /\ lost' = lost \cup {current}
          /\ UNCHANGED scheduleQueue
    /\ current' = NULL
    /\ pc' = "run"
    /\ UNCHANGED <<eventPool, freeNodes, eventQueue, timerList, timer,
                   runScheduler, collected, pending, fresh, inserted, base>>

\* uel_evloop_run, after the closure returned: a repeating timer gets its
\* next due time and goes back to the schedule queue.
RescheduleEvent ==
    /\ pc = "invoke"
    /\ event[current].repeating
    /\ event' = [event EXCEPT ![current].due = @ + event[current].period]
    /\ \/ /\ Len(scheduleQueue) < ScheduleQueueCap
          /\ scheduleQueue' = Append(scheduleQueue, current)
          /\ UNCHANGED lost
       \/ /\ Len(scheduleQueue) = ScheduleQueueCap
          /\ lost' = lost \cup {current}
          /\ UNCHANGED scheduleQueue
    /\ current' = NULL
    /\ pc' = "run"
    /\ UNCHANGED <<eventPool, freeNodes, eventQueue, timerList, timer,
                   runScheduler, collected, pending, fresh, inserted, base>>

\* uel_evloop_run returns once its snapshot is exhausted.
RunloopDone ==
    /\ pc = "run"
    /\ ~RunloopContinues
    /\ pc' = "idle"
    /\ UNCHANGED <<eventPool, freeNodes, eventQueue, scheduleQueue, timerList,
                   event, timer, runScheduler, collected, pending, current,
                   lost, fresh, inserted, base>>

-----------------------------------------------------------------------------
Api ==
    \/ EnqueueClosure
    \/ \E d \in Delays : RunLater(d)
    \/ \E p \in Periods, imm \in BOOLEAN : RunAtIntervals(p, imm)

Isr == UpdateTimer \/ UpdateTimerAtBound

Main ==
    \/ TickWithScheduler
    \/ TickWithoutScheduler
    \/ DrainScheduleQueue
    \/ CollectTimers
    \/ MoveToEventQueue
    \/ ManageTimersDone
    \/ RunEvent
    \/ ReleaseEvent
    \/ RescheduleEvent
    \/ RunloopDone

Next == Api \/ Isr \/ Main

\* The main loop calls uel_app_tick forever and the timer ISR fires
\* periodically; neither can be held off for ever.
Spec == Init /\ [][Next]_vars /\ WF_vars(Main) /\ WF_vars(Isr)

-----------------------------------------------------------------------------
(* Properties.                                                             *)

TypeOK ==
    /\ eventPool \in Seq(Events)
    /\ freeNodes \in 0 .. NodePoolSize
    /\ eventQueue \in Seq(Events) /\ Len(eventQueue) <= EventQueueCap
    /\ scheduleQueue \in Seq(Events) /\ Len(scheduleQueue) <= ScheduleQueueCap
    /\ timerList \in Seq(Events)
    /\ event \in [Events -> EventRec]
    /\ timer \in 0 .. MaxTime
    /\ runScheduler \in BOOLEAN
    /\ pc \in {"idle", "drain", "move", "run", "invoke"}
    /\ collected \in Seq(Events)
    /\ pending \in 0 .. Len(eventQueue)
    /\ current \in Events \cup {NULL}
    /\ lost \subseteq Events

\* Where each event can be: the pool's free queue, either system queue, the
\* timer list, the detached due timers, the running slot, or dropped.
Owners ==
    ToBag(eventPool) (+) ToBag(eventQueue) (+) ToBag(scheduleQueue)
    (+) ToBag(timerList) (+) ToBag(collected)
    (+) SetToBag(IF current = NULL THEN {} ELSE {current})

Holdings == Owners (+) SetToBag(lost)

\* Every event slot is held by exactly one owner at a time: the pool, a
\* queue, the timer list, the runloop, or (when a push failed) nobody.  A
\* path of run_later, manage_timers or evloop_run that releases twice,
\* forgets to release, or pushes one event to two places breaks it.
EventOwnership == \A e \in Events : CopiesIn(e, Holdings) = 1

\* What the spec states of the event pool: an event slot is always in
\* exactly one of the pool, the schedule queue, the event queue, the timer
\* list or the hand of the code running it, and a one-shot event goes back
\* to the pool after its closure ran.
EventsNeverDropped == \A e \in Events : CopiesIn(e, Owners) = 1

\* Every list node not in the node pool belongs to exactly one live timer:
\* a failed run_later gives its node back, and a released one-shot timer
\* returns its node with the event.
NodeAccounting ==
    freeNodes + Cardinality({e \in Events \ ToSet(eventPool) :
                                event[e].kind = "timer"}) = NodePoolSize

\* The timer list is ordered by due time and, among equal due times, by
\* the order in which manage_timers inserted the timers.
TimerListOrdered ==
    \A i, j \in 1 .. Len(timerList) :
        i < j =>
          \/ event[timerList[i]].due < event[timerList[j]].due
          \/ /\ event[timerList[i]].due = event[timerList[j]].due
             /\ SelectInSeq(inserted, LAMBDA x : x = timerList[i])
                  < SelectInSeq(inserted, LAMBDA x : x = timerList[j])

\* A timer's closure never runs before the timer is due.
NeverEarly ==
    (current /= NULL /\ event[current].kind = "timer")
        => event[current].due <= timer

\* A repeating timer does not drift: however late manage_timers collected
\* it, its due times stay on the grid first_due + k * period.
NoDrift ==
    \A e \in Events \ ToSet(eventPool) :
        event[e].repeating =>
            /\ event[e].due >= base[e]
            /\ (event[e].due - base[e]) % event[e].period = 0

\* uel_evloop_run only runs the events that were queued when it began: an
\* event pushed meanwhile, by a closure, the scheduler or an ISR, waits for
\* the next runloop.
RunloopSnapshot == pc = "invoke" => current \notin fresh

\* When the main context is idle with run_scheduler clear, no timer in the
\* list is due: every timer update since the last manage_timers set the
\* flag, so no due timer waits for a wake-up that already happened.
NoLostWakeup ==
    (pc = "idle" /\ ~runScheduler) =>
        \A i \in 1 .. Len(timerList) : ~IsDue(timerList[i])

\* Every timer in the timer list that falls due within the modelled time
\* eventually has its closure run.
DueTimerRuns ==
    \A e \in Events :
        (e \in ToSet(timerList) /\ event[e].due <= MaxTime) ~> (current = e)

\* Every timer waiting in the schedule queue (run_later or run_at_intervals
\* from a closure or the ISR) that falls due within the modelled time
\* eventually has its closure run: it does not stay in the queue because
\* manage_timers only runs on ticks after a timer update.
ScheduledTimerRuns ==
    \A e \in Events :
        (e \in ToSet(scheduleQueue) /\ event[e].due <= MaxTime) ~> (current = e)

\* Every event on the event queue eventually runs.
QueuedEventRuns ==
    \A e \in Events : (e \in ToSet(eventQueue)) ~> (current = e)

-----------------------------------------------------------------------------
(* Refinement: seen through TimerView, the pools, queues, timer list and   *)
(* tick are one abstract timer service.  A slot is idle when it is free,   *)
(* holds a closure event or was dropped; running while its closure runs;   *)
(* armed otherwise, wherever it waits (schedule queue, timer list,         *)
(* detached, or event queue).                                              *)

TimerView(e) ==
    IF e \in ToSet(eventPool) \/ event[e].kind /= "timer" \/ e \in lost
    THEN [st |-> "idle", due |-> 0, period |-> 0, repeating |-> FALSE]
    ELSE [st |-> IF pc = "invoke" /\ current = e THEN "running" ELSE "armed",
          due |-> event[e].due, period |-> event[e].period,
          repeating |-> event[e].repeating]

Service == INSTANCE TimerService
               WITH Timers <- Events, now <- timer,
                    tm <- [e \in Events |-> TimerView(e)]

\* The scheduler and the loop implement the timer service: a timer is armed
\* for now or one period ahead, runs only once due, a one-shot timer is
\* released after its run and a repeating one re-armed one period after its
\* last due time, and nothing else ever moves a timer's due time.
ImplementsTimerService == Service!TSSpec

=============================================================================
