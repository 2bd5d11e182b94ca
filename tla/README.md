# TLA+ models of µEvLoop

µEvLoop is a cooperative, statically allocated event loop and timer
scheduler for small microcontrollers. It has one main context that calls
`uel_app_tick` forever. It also has a periodic timer ISR that calls
`uel_app_update_timer(app, ++counter)`, and it may call the scheduling API.
This directory holds TLA+ models of the engine, the TLC configurations that
check them, and `PROJECT.json`. That file lists the components, runs,
mutants, findings and hazards, and maps each definition to its source lines.

## What the repository gives us

Only a few C files of the repository are under `src/`:
`include/uevloop/utils/object-pool.h` (the pool API), `src/uel_config.h`
(pool and queue sizes), two README versions, and the application test
suite (`src/unnamed/part_000`, after the README text). The test suite shows
the `run_scheduler` flag and where an immediate interval timer is pushed.
The `.c` files of the scheduler, event loop, queues, lists and relay are not
under `src/`. Their behaviour is taken from the READMEs, the tests and
`spec.md`. Definitions that have only the spec as their source are marked
`spec_modelled` in the map.

## Inventory

| Component | State | Operations | Interacts with |
|---|---|---|---|
| Circular queue | buffer, head, tail, count; capacity `2^k` | push (fails when full), pop, peek, count | used by pools and the system queues |
| Object pool | slot buffer; free queue of slot handles | init (all slots, in order), acquire (NULL when empty), release (false when queue full), is_empty | backed by a circular queue |
| Linked list | head, tail, nodes `{value, next}` | push/pop head/tail, remove | nodes come from the node pool |
| Closure | fn, context, params, return value, destructor | create, invoke, destroy | embedded in events |
| Event | kind; timer: due_time, period, repeating, immediate; listener: signal, relay, recurring, listening | config_closure / timer / signal_listener | allocated from the event pool |
| System pools | event pool (2^7), node pool (2^7) | init | shared by scheduler, loop, relay |
| System queues | event queue (2^5), schedule queue (2^4) | init, counts | scheduler → loop, loop → scheduler |
| Scheduler | timer (32-bit ms), timer list sorted by due time | update_timer, run_later, run_at_intervals, manage_timers | schedule queue in, event queue out |
| Event loop | — | enqueue_closure, run (snapshot at entry) | event queue in, schedule queue out (repeating timers), pool |
| Signal relay | `width` listener lists | listen, listen_once, emit, unlisten | pushes listener events to the event queue |
| Application | pools, queues, scheduler, loop, relay, `run_scheduler` | init, update_timer (ISR), tick (main) | drives everything |
| Critical sections | platform lock | enter / exit (default no-op) | brackets every shared queue/pool access |

How they interact: the API (`enqueue_closure`, `run_later`,
`run_at_intervals`, relay `emit`) acquires an event and pushes it onto the
event queue or the schedule queue. The ISR advances `timer` and raises
`run_scheduler`. `uel_app_tick` checks the flag. If the flag is set, it
clears it and runs `manage_timers`. That flushes the schedule queue into the
sorted timer list, splits the list at the first timer that is not due, and
pushes the due timers onto the event queue. Then `evloop_run` runs exactly
as many events as the event queue held at entry. After its closure returns,
a closure event or one-shot timer is released. A repeating timer gets
`due += period` and goes back onto the schedule queue. A listener is kept,
or released when it was one-shot or unlistened.

What is hard: the ISR interleaving with every step of the tick; both pools
and both queues running out, and the failure paths that follow; the
ordering of equal due times; late ticks (drift); the runloop snapshot;
wake-ups (`run_scheduler`) lost between the ISR and main; the 32-bit counter
wrapping; and, in the relay, unlisten or a second emit racing a listener
that is already queued.

Correctness per component:
- pools: every slot is owned exactly once (free, queued, listed, running),
  and nodes are counted by the live timers;
- scheduler: the timer list is sorted and stable, no timer runs early,
  repeating timers do not drift, no timer update goes unserved, and every
  due timer eventually runs;
- event loop: a runloop runs only its snapshot, and every queued event
  runs;
- relay: one-shot listeners run at most once, unlistened ones never run
  again, and every listener event is released exactly once;
- circular queue and object pool: the masked indices behave as a bounded
  FIFO, and every object is free once or held by one client.

## Modules

### `UevLoop.tla` — the core (pools, queues, scheduler, loop, application)

State:

| Variable | Code |
|---|---|
| `eventPool` | the free queue of the event pool (acquire = `Head`, release = `Append`) |
| `freeNodes` | free slots of the node pool |
| `eventQueue`, `scheduleQueue` | the two system queues |
| `timerList` | `scheduler->timer_list` |
| `event` | the event slots: kind, due time, period, repeating |
| `timer` | `scheduler->timer` |
| `runScheduler` | `app->run_scheduler` |
| `pc` | where the main context is in `uel_app_tick` |
| `collected` | due timers detached but not yet pushed |
| `pending` | what is left of `evloop_run`'s snapshot |
| `current` | the event whose closure is running |

Ghost variables: `lost` (events dropped by a failed push), `fresh` (events
pushed since the runloop began), `inserted` (the timer list in insertion
order) and `base` (each timer's first due time).

Actions:
- API, enabled in every state, because a running closure or the ISR may call
  it: `EnqueueClosure`, `RunLater(d)` and `RunAtIntervals(p, immediate)`.
  The last two go through `ScheduleTimer`: acquire an event, then a node,
  then push, and give back what was taken on failure. An immediate interval
  timer goes straight to the event queue. The application test at
  part_000:764 shows this.
- ISR: `UpdateTimer` (`timer + 1`, set `run_scheduler`).
  `UpdateTimerAtBound` is the ISR firing after the model stops counting at
  `MaxTime`.
- main: `TickWithScheduler` / `TickWithoutScheduler`,
  `DrainScheduleQueue` (one timer per step), `CollectTimers`,
  `MoveToEventQueue` (one per step; a full queue drops the timer),
  `ManageTimersDone`, `RunEvent`, `ReleaseEvent`, `RescheduleEvent`,
  `RunloopDone`.

Granularity: each critical section is one atomic step. Main steps are split
where the ISR can observe the difference: between queue pops and pushes, and
between clearing the flag and reading the timer. ISR calls are atomic with
respect to main.

A pool's failure path that changes nothing (acquire from an empty pool
returns NULL) is a stuttering step, so it is not written as an action.

Node ownership is the spec's reading. `run_later` takes a node with the
event (§4.7). A timer keeps that node until the event is released, so a
repeating timer holds its node for ever.

Fairness: `WF(Main)`, because the main loop calls `uel_app_tick` forever.
`WF(Isr)`, because the timer ISR is periodic. API calls have no fairness.

### `SignalRelay.tla`: the relay and the loop's listener dispatch

State: the event pool's free queue, free nodes, `lists` (one listener list
per signal: `relay->signal_vector`), the event queue, and `listener` (each
event slot's signal, `recurring` and `listening`). Ghosts: `gen` (which
registration a slot holds), `handles` (every handle the application got
back), `runs` (0..2), `invoked`, `unlistened` and `staleHit`.

Actions: `Listen(s, recurring)` (acquire an event, then a node, and push to
the list's tail; without a node the event goes back), `Unlisten(h)` for any
handle ever returned, `Emit(s, p)` (one atomic walk of the list), and
`RunListener` (one dispatch by `uel_evloop_run`). The spec and the README
disagree on emit. Spec §4.9 queues every listener that is still listening.
The README's example says a second emit of a `listen_once` signal prints
nothing, and that emit has already marked that listener unlistened. The
model follows the README, through `EmitDetaches`. Its mutant
`EmitDetachesNever` is the spec's reading: under `relay_safety` it runs a
`listen_once` listener twice, so the check reproduces that consequence. An emit that
finds the queue full pushes what fits; the others stay listed.

### `CircularQueue.tla`, `BoundedFifo.tla`

`buffer`, `head`, `tail`, `count`, with indices masked by `2^k - 1` (the
Bitwise `&`). `Contents` reads the queue oldest-first, and
`Fifo == INSTANCE BoundedFifo WITH items <- Contents` gives the refinement.
The queue's source is not under `src/`, so this module follows spec §2 and
§4.1.

### `ObjectPool.tla`, `AbstractPool.tla`, `UelConfig.tla`

`ObjectPool` translates `object-pool.h`. Objects are addresses
`i * item_size` in the pool buffer. `uel_objpool_init` fills a
`CircularQueue` instance with them in order. `acquire` pops (NULL is a
stutter), `release` pushes, and `is_empty` asks the queue. The free set is
the queue's contents, and `held` (a ghost) records which client holds each
object. `AbstractPool` is the promise: each slot is free, or held by one
owner. `UelConfig` holds the `#define`s of `uel_config.h`. The pool is checked
as the node pool of `NodeLists` (below); `MC_NodeLists` scales the default
node pool (2^7) down by 2^5. `MC_SignalRelay` assumes
no more listens than `UEL_SIGNAL_MAX_LISTENERS`.

### `LinkedList.tla`, `Deque.tla`, `NodeLists.tla`: lists over the node pool

`LinkedList` is `llist_t` at node level: `head` and `tail` per list and
`next` per node. `Walk` follows `next` from `head` (RECURSIVE, cut one
node past the node count, so a cycle shows as a walk that is too long).
The actions are `llist_init`, `push_head`, `push_tail`, `pop_head`,
`pop_tail` (which walks to the tail's predecessor) and `remove`. A popped
node keeps its `next`; `push_tail` clears it. The pointer code is not under
`src/`, so the module follows spec §2 and §4.3 and the README's usage
example. `Deque` is what the lists promise: sequences pushed and popped at
either end, and each node in at most one list. `NodeLists` composes the
node pool (`ObjectPool`, whose clients are the lists) with the lists. Users
acquire a node and push it in one step, and pop or remove a node and
release it in one step. That is how the relay and the scheduler use them.
`ListsImplementDeques` maps each list's walk onto `Deque`.

### `TimerService.tla`: what the scheduler promises

A timer slot is idle, armed with a due time, or running. `Arm` sets the due
time to now or one period ahead. `Fire` needs `due <= now`. `Retire` applies
to a one-shot timer after its run, and `Rearm` adds one period to a
repeating timer's last due time. `UevLoop` maps onto it through `TimerView`:
- a free slot, a closure event or a dropped timer is idle;
- the event whose closure runs (`pc = "invoke"`) is running;
- a timer anywhere else (schedule queue, list, detached, event queue) is
  armed;
- `now` is `scheduler->timer`.

`ImplementsTimerService` is checked in a configuration where no push can
fail. A dropped timer leaves the service without a step, which is the
`dropped_events` finding.

### `SharedQueue.tla`: critical sections

The schedule queue is shared by main, which drains it and pushes repeating
timers back, and by an ISR that calls `run_later`. The ISR runs to
completion, so its push is one step. Main's push is split into its buffer
write, its tail update, and `count++` as a load and a store; its pop likewise
ends with the load and store of `count--`. The model writes these accesses
in the order the spec gives; the queue's `.c` is not under `src/`. `Locked`
says whether `UEVLOOP_CRITICAL_ENTER/EXIT` disable the interrupt around
main's access (`IsrMayRun`); the run sets it, as the README asks. A ghost `expected` holds what the operations
meant the queue to contain.

## Runs

| Run | cfg | Expect | Shows |
|---|---|---|---|
| `core_safety` | `MC_UevLoop_safety.cfg` | pass | ownership, node accounting, sorted and stable list, never early, no drift, runloop snapshot, no lost wake-up |
| `core_liveness` | `MC_UevLoop_liveness.cfg` | pass | every due timer, in the list or still in the schedule queue, and every queued event runs; `UevLoop` implements `TimerService` |
| `dropped_events` | `MC_UevLoop_dropped.cfg` | violation | a push to a full queue inside `manage_timers` or `evloop_run` leaves the event with no owner |
| `relay_safety` | `MC_SignalRelay_safety.cfg` | pass | a one-shot listener runs at most once; a listening listener, one that found the queue full included, stays listed; a recurring listener unlistened while queued never runs |
| `relay_ownership` | `MC_SignalRelay_ownership.cfg` | violation | unlisten, then emit: the node is freed, the event never (`ListenerOwnership`) |
| `relay_stale_handle` | `MC_SignalRelay_stale_handle.cfg` | violation | unlisten through a spent one-shot handle marks the slot's next owner |
| `cqueue_refines_fifo` | `MC_CircularQueue.cfg` | pass | the masked queue implements a bounded FIFO |
| `node_lists` | `MC_NodeLists.cfg` | pass | the node pool under two lists: slot accounting, every node in the list that acquired it and no cycle, refinement of the abstract pool and of the deques |
| `relay_params` | `MC_SignalRelay_params.cfg` | violation | a listener queued by two emits sees the second emit's params in both runs |
| `shared_queue_locked` | `MC_SharedQueue_locked.cfg` | pass | with interrupts disabled in critical sections, main and ISR keep the queue consistent |

Bounds.
- `core_safety`: 3 event slots, 2 nodes, queues of 2, delays {0, 1},
  period 2, `MaxTime` 3. Both pools and both queues fill, equal due times
  occur, and a timer can be collected late, so drift would show. Delay 0
  exercises the `<=` boundary. The run takes about 1 minute and finds about
  1.2M distinct states.
- `core_liveness`: 2 event slots, queues of 2. No push can fail, so every
  event that is queued can be followed to its closure.
- `dropped_events`: 3 slots and queues of 2, the shape of the default
  configuration (128 events, 32 + 16 queue slots) in small.

- relay runs: 3 event slots and 2 nodes, so both pools run out; a queue
  of 2, so an emit can find it full and one listener can be queued twice;
  at most 3 listens (4 make the safety run take two minutes but find
  nothing new). `relay_safety` has two signals (599k states, about 25 s). The
  violation runs use one; `relay_stale_handle` has two event slots, so the
  slot a one-shot listener released is the next one listen takes.
- `cqueue_refines_fifo`: 4 cells and 2 handles. The queue fills, empties
  and wraps both indices (369 states).
- `node_lists`: 4 nodes and 2 lists, with list symmetry (96k states,
  about 90 s). The pool empties and wraps, and either list can hold every
  node. A node passes from one list, through the pool, to the other, so a
  stale `next` would reach the other list.
- The refinement in `core_liveness` (2 slots, queues of 2, 38k states). Late collection, equal due times and immediate
  interval timers all occur.
- `shared_queue_*`: 4 cells and 2 handles. The ISR can preempt every one of
  main's steps, and the queue can fill.
- relay runs have one params value. Only `relay_params` uses two, because
  params carry no control elsewhere.
Fairness: the relay, queue, pool and list models check safety only. Their
actions are API calls, which have no fairness.

## Findings

- **spec_gap** (`dropped_events`). The default queues are smaller than the
  event pool. The spec says a push to a full queue fails with no side
  effect, but it does not say what `manage_timers` or `evloop_run` do with
  the event whose push failed. The event then has no owner. A repeating
  timer stops for ever, and its slot and node leak. This contradicts the
  spec's claim that every event is always in exactly one place.

- **spec_gap** (`relay_ownership`). The node of an unlistened listener that
  is not queued is dropped at the next emit, but its event is never
  released. `ListenerOwnership` (the spec's "exactly one place" for
  listener events) also fails the other way: a recurring listener queued
  twice and then unlistened is released twice, and the free queue holds its
  slot twice.
- **spec_gap** (`relay_stale_handle`). The README unlistens `listener_2`
  after it fired and calls that harmless. Once its event is released and a
  later listen reuses the slot (two event slots, so reuse happens), the
  unlisten through the old handle marks the new listener, which the next
  emit drops without queueing it.
- **spec_code_divergence** (`relay_params`). The README's snippet emits
  SIGNAL_1 with 'a' and then 'c' before any runloop, and says it prints
  `1a` and `1c`. One params field per listener means it prints `1c`
  twice.
- `uel_config.h:24` says the schedule queue defaults to 32 events, but
  `(4)` gives 16. No run is needed to see this.

## Not modelled (yet)

- The timer list's ordered insert is modelled on sequences in `UevLoop`,
  not at node level in `LinkedList`. Node payloads are left out.
- Outside `SharedQueue`, critical sections are abstracted as atomicity:
  each guarded pool or queue operation is one step.
- Closures' return values and destructors carry no control. Params are
  modelled only for listeners.
- Wraparound of the 32-bit millisecond counter: the spec says it is not
  handled (spec §9) and leaves its policy undefined, so no property states
  behaviour across it; `MaxTime` keeps every run below the wrap.
- Critical sections left as the no-op default: the README says they must
  be overridden (for example to disable interrupts), so `SharedQueue`
  checks the overridden case; the `IsrMayRunAlways` mutant shows what the
  default would break.
- Observer events are an unused extension.
- The test harness and build tooling have no state.
