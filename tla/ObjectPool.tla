---------------------------- MODULE ObjectPool -----------------------------
(***************************************************************************)
(* uel_objpool_t (include/uevloop/utils/object-pool.h): a buffer of        *)
(* 2^size_log2n objects of item_size bytes, and a circular queue holding   *)
(* the address of every free object.  Clients acquire and release through *)
(* the pool; a client only releases an object it holds (release is a      *)
(* trusted operation).                                                     *)
(***************************************************************************)
EXTENDS Naturals, FiniteSets, Bitwise

CONSTANTS
    Clients,     \* the code that acquires and releases objects
    SizeLog2N,   \* size_log2n given to uel_objpool_init
    ItemSize,    \* item_size given to uel_objpool_init
    None         \* NULL

VARIABLES
    buffer, head, tail, count,  \* pool->queue, the free queue of addresses
    held                        \* which client holds each object (ghost)

vars == <<buffer, head, tail, count, held>>

\* UEL_DECLARE_OBJPOOL_BUFFERS: 1 << size_log2n objects and queue cells.
PoolSize == 2 ^ SizeLog2N

\* The addresses of the objects, as offsets into pool->buffer.
SlotAddr(i) == i * ItemSize
Slots == {SlotAddr(i) : i \in 0 .. PoolSize - 1}

Q == INSTANCE CircularQueue WITH Handles <- Slots

\* Mutant: init populates one address too few.
uel_objpool_init_short ==
    /\ buffer = [i \in Q!Cells |-> IF i < PoolSize - 1 THEN SlotAddr(i)
                                                      ELSE None]
    /\ head = 0 /\ tail = PoolSize - 1 /\ count = PoolSize - 1
    /\ held = [a \in Slots |-> None]

\* uel_objpool_init: the free queue gets the address of every object, in
\* object order, and so starts full.
uel_objpool_init ==
    /\ buffer = [i \in Q!Cells |-> SlotAddr(i)]
    /\ head = 0 /\ tail = 0 /\ count = PoolSize
    /\ held = [a \in Slots |-> None]

\* Mutant: acquire peeks at the free queue instead of popping it.
uel_objpool_acquire_peek(c) ==
    /\ ~Q!IsEmpty
    /\ held' = [held EXCEPT ![Q!Peek] = c]
    /\ UNCHANGED <<buffer, head, tail, count>>

\* Mutant: acquire pops without checking that the pool is depleted.
uel_objpool_acquire_unchecked(c) ==
    /\ head' = (head + 1) & Q!Mask
    /\ count' = count - 1
    /\ held' = [held EXCEPT ![Q!Peek] = c]
    /\ UNCHANGED <<buffer, tail>>

\* uel_objpool_acquire: pop an address off the free queue.  A depleted
\* pool returns NULL and changes nothing, a stutter step.
uel_objpool_acquire(c) ==
    /\ Q!CQPop
    /\ held' = [held EXCEPT ![Q!Peek] = c]

\* uel_objpool_release: push the address back.  The push fails, and
\* release returns false, only when the free queue is full.
uel_objpool_release(c, a) ==
    /\ held[a] = c
    /\ Q!CQPush(a)
    /\ held' = [held EXCEPT ![a] = None]

\* uel_objpool_is_empty: every address has been given out.
uel_objpool_is_empty == Q!IsEmpty

Next == \E c \in Clients :
            \/ uel_objpool_acquire(c)
            \/ \E a \in Slots : uel_objpool_release(c, a)

Spec == uel_objpool_init /\ [][Next]_vars

-----------------------------------------------------------------------------
PoolTypeOK ==
    /\ Q!CQTypeOK
    /\ held \in [Slots -> Clients \cup {None}]

\* Every object's address is in the free queue exactly once or held by
\* exactly one client, never both; so the pool reports itself empty
\* exactly when all PoolSize objects are out (spec section 9).
SlotAccounting ==
    /\ \A a \in Slots :
          LET copies == Cardinality({i \in 1 .. count : Q!Contents[i] = a})
          IN  IF held[a] = None THEN copies = 1 ELSE copies = 0
    /\ uel_objpool_is_empty <=>
          Cardinality({a \in Slots : held[a] /= None}) = PoolSize

\* The pool implements the abstract pool: the free set is the set of
\* addresses in the free queue, and owners are the holders.
Abs == INSTANCE AbstractPool
           WITH free <- {Q!Contents[i] : i \in 1 .. count}, owner <- held

ImplementsAbstractPool == Abs!AbstractPoolSpec

=============================================================================
