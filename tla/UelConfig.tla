----------------------------- MODULE UelConfig -----------------------------
(***************************************************************************)
(* The defaults of src/uel_config.h.  Pool and queue sizes are given in    *)
(* log2 form; the buffers hold 1 << log2n entries.                          *)
(***************************************************************************)
EXTENDS Naturals

\* Event pool: 2^7 = 128 events.
UEL_SYSPOOLS_EVENT_POOL_SIZE_LOG2N == 7

\* Linked-list node pool: 2^7 = 128 nodes.
UEL_SYSPOOLS_LLIST_NODE_POOL_SIZE_LOG2N == 7

\* Event queue: 2^5 = 32 events.
UEL_SYSQUEUES_EVENT_QUEUE_SIZE_LOG2N == 5

\* Schedule queue: 2^4 = 16 events (its comment says 32).
UEL_SYSQUEUES_SCHEDULE_QUEUE_SIZE_LOG2N == 4

\* Listeners per signal in one relay.
UEL_SIGNAL_MAX_LISTENERS == 5

=============================================================================
