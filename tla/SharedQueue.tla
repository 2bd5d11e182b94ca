---------------------------- MODULE SharedQueue -----------------------------
(***************************************************************************)
(* A system queue shared by the main context and an ISR on a single core   *)
(* (the schedule queue: main drains it in manage_timers and pushes         *)
(* repeating timers back; an ISR may call run_later, which pushes).  The   *)
(* ISR runs to completion, so its push is one step; main's push and pop    *)
(* are the queue's individual memory accesses, and count++ / count-- are a *)
(* load and a store.  UEVLOOP_CRITICAL_ENTER/EXIT bracket main's access:   *)
(* with Locked they disable the interrupt, by default they are no-ops.     *)
(***************************************************************************)
EXTENDS Naturals, Sequences, Bitwise

CONSTANTS
    Handles,     \* timer events pushed (model values)
    SizeLog2N,   \* log2 of the queue's capacity
    None,
    Locked       \* the critical-section macros disable the interrupt

VARIABLES
    buffer, head, tail, count,  \* the circular queue
    mpc,         \* where main is inside its queue operation
    reg,         \* main's register copy of count
    expected     \* the queue's contents as the operations meant them (ghost)

vars == <<buffer, head, tail, count, mpc, reg, expected>>

Q == INSTANCE CircularQueue

\* Mutant: the ISR may preempt main anywhere.
IsrMayRunAlways == TRUE

\* UEVLOOP_CRITICAL_ENTER/EXIT: with the interrupt disabled the ISR cannot
\* run while main is inside a queue operation.
IsrMayRun == ~Locked \/ mpc = "idle"

Init == /\ Q!CQInit
        /\ mpc = "idle"
        /\ reg = 0
        /\ expected = <<>>

\* Main, uel_cqueue_push(x): the full check, then buffer[tail] = x.
MainPushBegin(x) ==
    /\ mpc = "idle" /\ ~Q!IsFull
    /\ buffer' = [buffer EXCEPT ![tail] = x]
    /\ expected' = Append(expected, x)
    /\ mpc' = "push_tail"
    /\ UNCHANGED <<head, tail, count, reg>>

\* tail = (tail + 1) & mask
MainPushTail ==
    /\ mpc = "push_tail"
    /\ tail' = (tail + 1) & Q!Mask
    /\ mpc' = "push_load"
    /\ UNCHANGED <<buffer, head, count, reg, expected>>

\* Mutant: pop skips the empty check.
MainPopBeginUnchecked ==
    /\ mpc = "idle"
    /\ head' = (head + 1) & Q!Mask
    /\ expected' = SubSeq(expected, 2, Len(expected))
    /\ mpc' = "pop_load"
    /\ UNCHANGED <<buffer, tail, count, reg>>

\* Main, uel_cqueue_pop: the empty check and head = (head + 1) & mask.
MainPopBegin ==
    /\ mpc = "idle" /\ ~Q!IsEmpty
    /\ head' = (head + 1) & Q!Mask
    /\ expected' = Tail(expected)
    /\ mpc' = "pop_load"
    /\ UNCHANGED <<buffer, tail, count, reg>>

\* count++ / count--: load count into a register ...
MainLoadCount ==
    /\ mpc \in {"push_load", "pop_load"}
    /\ reg' = count
    /\ mpc' = IF mpc = "push_load" THEN "push_store" ELSE "pop_store"
    /\ UNCHANGED <<buffer, head, tail, count, expected>>

\* ... and store the register plus or minus one.
MainStoreCount ==
    /\ mpc \in {"push_store", "pop_store"}
    /\ count' = IF mpc = "push_store" THEN reg + 1 ELSE reg - 1
    /\ mpc' = "idle"
    /\ UNCHANGED <<buffer, head, tail, reg, expected>>

\* The ISR: run_later pushes a timer to the queue, in one step.
IsrPush(x) ==
    /\ IsrMayRun
    /\ Q!CQPush(x)
    /\ expected' = Append(expected, x)
    /\ UNCHANGED <<mpc, reg>>

Next == \/ \E x \in Handles : MainPushBegin(x) \/ IsrPush(x)
        \/ MainPushTail \/ MainPopBegin \/ MainLoadCount \/ MainStoreCount

Spec == Init /\ [][Next]_vars

-----------------------------------------------------------------------------
SQTypeOK ==
    /\ Q!CQTypeOK
    /\ mpc \in {"idle", "push_tail", "push_load", "push_store", "pop_load",
                "pop_store"}
    /\ reg \in 0 .. Q!Size

\* Whenever main is outside a queue operation, the queue holds exactly what
\* main and the ISR pushed and main did not pop, in push order: no push is
\* lost or overwritten and no stale cell counts as an element.
QueueConsistent == mpc = "idle" => Q!Contents = expected

=============================================================================
