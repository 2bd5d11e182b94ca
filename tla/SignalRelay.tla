---------------------------- MODULE SignalRelay ----------------------------
(***************************************************************************)
(* The signal relay of uEvLoop (uel_signal_listen, listen_once, emit,      *)
(* unlisten) together with the part of uel_evloop_run that dispatches      *)
(* SIGNAL_LISTENER events.  Listener events come from the event pool and   *)
(* each listed listener holds one node of the node pool.                   *)
(*                                                                         *)
(* The application keeps every handle listen returned and may pass any of  *)
(* them to unlisten at any time, as the README example does after the      *)
(* listener already fired.  A handle is the slot plus the registration it  *)
(* was returned for; the code only sees the slot.                          *)
(***************************************************************************)
EXTENDS Naturals, Sequences, SequencesExt, FiniteSets

CONSTANTS
    Events,         \* the slots of the event pool (model values)
    Signals,        \* the signals of the relay (its width)
    NodePoolSize,   \* slots of the linked-list node pool
    EventQueueCap,  \* capacity of the event queue
    MaxListens,     \* bound on the number of listen calls
    Params,         \* values emit passes as the closures' params
    None            \* no listener

ASSUME /\ NodePoolSize \in Nat
       /\ EventQueueCap \in Nat \ {0}
       /\ MaxListens \in Nat

VARIABLES
    eventPool,   \* free queue of the event pool
    freeNodes,   \* free slots of the node pool
    lists,       \* relay->signal_vector: the listener list of each signal
    eventQueue,  \* system event queue
    listener,    \* listener fields of each event slot
    gen,         \* registration each slot currently holds (ghost)
    listens,     \* listen calls made so far (ghost, bounded)
    handles,     \* handles the application holds: <<slot, registration>>
    runs,        \* closure invocations of the slot's registration, 0..2 (ghost)
    invoked,     \* the listener whose closure the last step ran, or None
    unlistened,  \* registrations an unlisten call actually marked (ghost)
    staleHit,    \* an unlisten marked a live registration not its own (ghost)
    params,      \* closure->params of each listener
    sentParams   \* params each event-queue entry was emitted with (ghost)

vars == <<eventPool, freeNodes, lists, eventQueue, listener, gen, listens,
          handles, runs, invoked, unlistened, staleHit, params, sentParams>>

ListenerRec == [signal : Signals, recurring : BOOLEAN, listening : BOOLEAN]

-----------------------------------------------------------------------------
\* Mutant: the queue's full check is off by one.
RoomOffByOne == EventQueueCap + 1 - Len(eventQueue)

\* Room left in the event queue: a push to a full queue fails.
Room == EventQueueCap - Len(eventQueue)

\* Mutant: emit leaves one-shot listeners listed and listening.
EmitDetachesNever(e) == FALSE

\* uel_signal_emit takes a one-shot listener off its list and marks it
\* unlistened when it queues it, so a second emit does not queue it again.
EmitDetaches(e) == ~listener[e].recurring

\* Mutant: the runloop invokes every listener it pops.
InvokesAlways(e) == TRUE

\* uel_evloop_run invokes a popped listener unless it is a recurring one
\* that was unlistened while queued.
Invokes(e) == listener[e].listening \/ ~listener[e].recurring

Init ==
    /\ eventPool = SetToSeq(Events)
    /\ freeNodes = NodePoolSize
    /\ lists = [s \in Signals |-> <<>>]
    /\ eventQueue = <<>>
    /\ listener = [e \in Events |->
                     [signal |-> CHOOSE s \in Signals : TRUE,
                      recurring |-> FALSE, listening |-> FALSE]]
    /\ gen = [e \in Events |-> 0]
    /\ listens = 0
    /\ handles = {}
    /\ runs = [e \in Events |-> 0]
    /\ invoked = None
    /\ unlistened = {}
    /\ staleHit = FALSE
    /\ params = [e \in Events |-> None]
    /\ sentParams = <<>>

-----------------------------------------------------------------------------
\* uel_signal_listen / uel_signal_listen_once: acquire an event and a node,
\* configure the listener and push it at the tail of the signal's list.
\* Without a node the event goes back to the pool.
Listen(s, recurring) ==
    /\ listens < MaxListens
    /\ eventPool /= <<>>
    /\ LET e == Head(eventPool) IN
       \/ /\ freeNodes = 0
          /\ eventPool' = Append(Tail(eventPool), e)
          /\ UNCHANGED <<freeNodes, lists, listener, gen, listens, handles,
                         runs>>
       \/ /\ freeNodes > 0
          /\ eventPool' = Tail(eventPool)
          /\ freeNodes' = freeNodes - 1
          /\ lists' = [lists EXCEPT ![s] = Append(@, e)]
          /\ listener' = [listener EXCEPT ![e] =
                            [signal |-> s, recurring |-> recurring,
                             listening |-> TRUE]]
          /\ listens' = listens + 1
          /\ gen' = [gen EXCEPT ![e] = listens + 1]
          /\ handles' = handles \cup {<<e, listens + 1>>}
          /\ runs' = [runs EXCEPT ![e] = 0]
    /\ invoked' = None
    /\ UNCHANGED <<eventQueue, unlistened, staleHit, params, sentParams>>

\* uel_signal_unlisten(handle): mark the slot the handle points to.
Unlisten(h) ==
    /\ listener' = [listener EXCEPT ![h[1]].listening = FALSE]
    /\ unlistened' = unlistened \cup {<<h[1], gen[h[1]]>>}
    /\ staleHit' = (staleHit \/ (gen[h[1]] /= h[2] /\ h[1] \notin ToSet(eventPool)))
    /\ invoked' = None
    /\ UNCHANGED <<eventPool, freeNodes, lists, eventQueue, gen, listens,
                   handles, runs, params, sentParams>>

\* Mutant: the walk drops every one-shot listener it visits from the list,
\* also those that did not fit in the queue.
EmitDropsUnqueued(s, p) ==
    LET l       == lists[s]
        active  == SelectSeq(l, LAMBDA x : listener[x].listening)
        pushed  == SubSeq(active, 1, IF Len(active) < Room THEN Len(active)
                                                          ELSE Room)
        queued  == ToSet(pushed)
        stays(x) == listener[x].listening /\ ~EmitDetaches(x)
        kept    == SelectSeq(l, stays)
    IN
    /\ l /= <<>>
    /\ eventQueue' = eventQueue \o pushed
    /\ sentParams' = sentParams \o [i \in 1 .. Len(pushed) |-> p]
    /\ params' = [e \in Events |->
                    IF e \in ToSet(active) THEN p ELSE params[e]]
    /\ lists' = [lists EXCEPT ![s] = kept]
    /\ freeNodes' = freeNodes + (Len(l) - Len(kept))
    /\ listener' = [e \in Events |->
                      IF e \in queued /\ EmitDetaches(e)
                      THEN [listener[e] EXCEPT !.listening = FALSE]
                      ELSE listener[e]]
    /\ invoked' = None
    /\ UNCHANGED <<eventPool, gen, listens, handles, runs, unlistened,
                   staleHit>>

\* uel_signal_emit(signal, p): walk the list in subscription order.  Every
\* listening listener gets p as its closure's params and is pushed to the
\* event queue while it has room;
\* listeners that are not listening lose their node, and a queued one-shot
\* listener leaves the list and is marked unlistened.
Emit(s, p) ==
    LET l       == lists[s]
        active  == SelectSeq(l, LAMBDA x : listener[x].listening)
        pushed  == SubSeq(active, 1, IF Len(active) < Room THEN Len(active)
                                                          ELSE Room)
        queued  == ToSet(pushed)
        stays(x) == listener[x].listening /\ ~(x \in queued /\ EmitDetaches(x))
        kept    == SelectSeq(l, stays)
    IN
    /\ l /= <<>>
    /\ eventQueue' = eventQueue \o pushed
    /\ sentParams' = sentParams \o [i \in 1 .. Len(pushed) |-> p]
    /\ params' = [e \in Events |->
                    IF e \in ToSet(active) THEN p ELSE params[e]]
    /\ lists' = [lists EXCEPT ![s] = kept]
    /\ freeNodes' = freeNodes + (Len(l) - Len(kept))
    /\ listener' = [e \in Events |->
                      IF e \in queued /\ EmitDetaches(e)
                      THEN [listener[e] EXCEPT !.listening = FALSE]
                      ELSE listener[e]]
    /\ invoked' = None
    /\ UNCHANGED <<eventPool, gen, listens, handles, runs, unlistened,
                   staleHit>>

\* uel_evloop_run on a SIGNAL_LISTENER event: a listening recurring
\* listener runs and stays; a recurring listener unlistened while queued
\* does not run, is released and leaves its list; a one-shot listener runs
\* and is released.
RunListener ==
    /\ eventQueue /= <<>>
    /\ LET e == Head(eventQueue)
           s == listener[e].signal
       IN
       /\ runs' = IF Invokes(e) THEN [runs EXCEPT ![e] = IF @ < 2 THEN @ + 1
                                                                  ELSE 2]
                                ELSE runs
       /\ invoked' = IF Invokes(e) THEN e ELSE None
       /\ \/ /\ listener[e].recurring /\ listener[e].listening
             /\ UNCHANGED <<eventPool, freeNodes, lists>>
          \/ /\ listener[e].recurring /\ ~listener[e].listening
             /\ eventPool' = Append(eventPool, e)
             /\ lists' = [lists EXCEPT ![s] = Remove(@, e)]
             /\ freeNodes' = freeNodes + (Len(lists[s]) - Len(lists'[s]))
          \/ /\ ~listener[e].recurring
             /\ eventPool' = Append(eventPool, e)
             /\ UNCHANGED <<freeNodes, lists>>
    /\ eventQueue' = Tail(eventQueue)
    /\ sentParams' = Tail(sentParams)
    /\ UNCHANGED <<listener, gen, listens, handles, unlistened, staleHit,
                   params>>

Next ==
    \/ \E s \in Signals, r \in BOOLEAN : Listen(s, r)
    \/ \E h \in handles : Unlisten(h)
    \/ \E s \in Signals, p \in Params : Emit(s, p)
    \/ RunListener

Spec == Init /\ [][Next]_vars

-----------------------------------------------------------------------------
(* Properties.                                                             *)

TypeOK ==
    /\ eventPool \in Seq(Events)
    /\ freeNodes \in 0 .. NodePoolSize
    /\ lists \in [Signals -> Seq(Events)]
    /\ eventQueue \in Seq(Events) /\ Len(eventQueue) <= EventQueueCap
    /\ listener \in [Events -> ListenerRec]
    /\ listens \in 0 .. MaxListens
    /\ runs \in [Events -> 0 .. 2]
    /\ invoked \in Events \cup {None}
    /\ params \in [Events -> Params \cup {None}]
    /\ handles \subseteq Events \X (1 .. MaxListens)

\* A listener registered with listen_once has its closure run at most once,
\* however often its signal is emitted before the runloop gets to it (the
\* README's listener_2 prints "2b" and nothing for the second emit).
ListenOnceRunsOnce ==
    \A e \in Events :
        ~listener[e].recurring => runs[e] <= 1

\* Once unlisten marked a recurring listener's registration, its closure is
\* never run again, even if an emit had already queued it.
UnlistenedNeverRuns ==
    [][invoked' /= None /\ listener[invoked'].recurring
          => <<invoked', gen[invoked']>> \notin unlistened]_vars

\* The pool's free queue holds each slot at most once, and a slot in it is
\* neither queued nor listed: nothing the relay or the loop still uses has
\* been released.
PoolIntegrity ==
    /\ IsInjective(eventPool)
    /\ \A e \in ToSet(eventPool) :
          /\ e \notin ToSet(eventQueue)
          /\ \A s \in Signals : e \notin ToSet(lists[s])

\* Every listener event that is not in the pool is still reachable from a
\* listener list or the event queue, so something will release it.
NoListenerLeak ==
    \A e \in Events \ ToSet(eventPool) :
        \/ e \in ToSet(eventQueue)
        \/ \E s \in Signals : e \in ToSet(lists[s])

\* Every listener event is in exactly one place, as the spec claims of all
\* events: once in the pool's free queue, or out of it and still reachable
\* from a listener list or the event queue, so that exactly one release
\* will return it.
ListenerOwnership == PoolIntegrity /\ NoListenerLeak

\* A listener that is still listening is on its signal's list, so a later
\* emit reaches it: in particular a one-shot listener that an emit found
\* with the event queue full stays listed and listening.
ListenerPlaced ==
    \A e \in Events \ ToSet(eventPool) :
        listener[e].listening => e \in ToSet(lists[listener[e].signal])

\* Each run of a listener's closure sees the params of the emit that queued
\* that run (the README's listener_1 prints "1a", then "1c").
RunSeesItsParams ==
    [][invoked' /= None => params[invoked'] = Head(sentParams)]_vars

\* unlisten only ever marks the listener its handle was returned for: an
\* unlisten through the handle of a listener that is gone (the README's
\* "no effect" call) never marks a listener registered later in its slot.
UnlistenHitsOwnListener == ~staleHit

=============================================================================
