----------------------------- MODULE NodeLists ------------------------------
(***************************************************************************)
(* The linked-list node pool of uel_syspools_t and the lists that draw     *)
(* from it (the timer list, the relay's listener lists).  A user acquires  *)
(* a node and pushes it in the same step; it pops or removes a node and    *)
(* releases it in the same step.  The pool is ObjectPool with the lists as *)
(* its clients, so held[n] names the list node n was acquired for.         *)
(***************************************************************************)
EXTENDS Naturals, Sequences, SequencesExt, FiniteSets

CONSTANTS Lists, SizeLog2N, ItemSize, None

VARIABLES
    buffer, head, tail, count, held,  \* the node pool
    lhead, ltail, next                \* the lists

vars == <<buffer, head, tail, count, held, lhead, ltail, next>>

Pool == INSTANCE ObjectPool WITH Clients <- Lists

Nodes == Pool!Slots

LL == INSTANCE LinkedList WITH head <- lhead, tail <- ltail

Init == Pool!uel_objpool_init /\ LL!LLInit

\* Acquire a node for list l and push it at either end.  With the pool
\* depleted the acquire returns NULL and the caller gives up.
AcquirePush(l) ==
    /\ Pool!uel_objpool_acquire(l)
    /\ \/ LL!llist_push_head(l, Pool!Q!Peek)
       \/ LL!llist_push_tail(l, Pool!Q!Peek)

\* Pop the node at either end of list l and release it to the pool.
PopRelease(l) ==
    \/ LL!llist_pop_head(l) /\ Pool!uel_objpool_release(l, lhead[l])
    \/ LL!llist_pop_tail(l) /\ Pool!uel_objpool_release(l, ltail[l])

\* Remove node n from list l and release it.
RemoveRelease(l, n) ==
    /\ LL!llist_remove(l, n)
    /\ Pool!uel_objpool_release(l, n)

Next == \E l \in Lists :
            \/ AcquirePush(l)
            \/ PopRelease(l)
            \/ \E n \in Nodes : RemoveRelease(l, n)

Spec == Init /\ [][Next]_vars

-----------------------------------------------------------------------------
\* The pool's type invariant, its slot accounting (every node free once or
\* held, empty exactly when all are out) and its refinement of the abstract
\* pool, now under list users that push and pop in between.
PoolTypeOK == Pool!PoolTypeOK

SlotAccounting == Pool!SlotAccounting

ImplementsAbstractPool == Pool!ImplementsAbstractPool

\* Every node is in the list it was acquired for and in no other, each
\* list runs from head to tail once without a cycle, and its tail is its
\* last node: nothing a list user ever did left a list pointing into the
\* free pool or into another list.
NodeOwnership ==
    \A l \in Lists :
        LET c == LL!Contents(l) IN
        /\ Len(c) <= Cardinality(Nodes)
        /\ IsInjective(c)
        /\ ltail[l] = IF c = <<>> THEN None ELSE Last(c)
        /\ \A n \in Nodes : held[n] = l <=> n \in ToSet(c)

\* The lists implement the abstract deques: what a walk from each head
\* finds changes only as a push, pop or remove of one node says.
DQ == INSTANCE Deque WITH items <- [l \in Lists |-> LL!Contents(l)]

ListsImplementDeques == DQ!DQSpec

=============================================================================
