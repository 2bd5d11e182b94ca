---------------------------- MODULE LinkedList -----------------------------
(***************************************************************************)
(* llist_t: singly linked lists of nodes drawn from a pool.  A list holds  *)
(* a head and a tail handle, a node holds the handle of its successor.     *)
(* The linked list's source is not in the repository; this module follows  *)
(* spec sections 2 and 4.3 and the README's usage example.  The payload a  *)
(* node carries is left out: the lists only reorder nodes.                 *)
(***************************************************************************)
EXTENDS Naturals, Sequences, SequencesExt, FiniteSets

CONSTANTS
    Lists,   \* the lists sharing one node pool
    Nodes,   \* the node handles
    None     \* NULL

VARIABLES
    head,    \* list->head of each list
    tail,    \* list->tail of each list
    next     \* node->next of each node

\* The nodes reached from n along next, at most k of them.  A well-formed
\* list ends in None; a corrupted one shows as a walk that never stops.
RECURSIVE Walk(_, _)
Walk(n, k) == IF n = None \/ k = 0 THEN <<>> ELSE <<n>> \o Walk(next[n], k - 1)

\* The list's nodes from head to tail, cut one node past the node count.
Contents(l) == Walk(head[l], Cardinality(Nodes) + 1)

\* The node before n in list l.
Pred(l, n) == CHOOSE p \in ToSet(Contents(l)) : next[p] = n

\* llist_init: both ends NULL; static node storage starts zeroed.
LLInit == /\ head = [l \in Lists |-> None]
          /\ tail = [l \in Lists |-> None]
          /\ next = [n \in Nodes |-> None]

\* llist_push_head: the node points at the old head and becomes the head;
\* in an empty list it is the tail as well.
llist_push_head(l, n) ==
    /\ next' = [next EXCEPT ![n] = head[l]]
    /\ head' = [head EXCEPT ![l] = n]
    /\ tail' = IF tail[l] = None THEN [tail EXCEPT ![l] = n] ELSE tail

\* Mutant: push_tail trusts the node's next to be NULL already.
llist_push_tail_keep_next(l, n) ==
    /\ next' = IF tail[l] = None THEN next ELSE [next EXCEPT ![tail[l]] = n]
    /\ tail' = [tail EXCEPT ![l] = n]
    /\ head' = IF head[l] = None THEN [head EXCEPT ![l] = n] ELSE head

\* llist_push_tail: the node ends the list, the old tail points at it; in
\* an empty list it is the head as well.
llist_push_tail(l, n) ==
    /\ next' = IF tail[l] = None THEN [next EXCEPT ![n] = None]
                                 ELSE [next EXCEPT ![n] = None, ![tail[l]] = n]
    /\ tail' = [tail EXCEPT ![l] = n]
    /\ head' = IF head[l] = None THEN [head EXCEPT ![l] = n] ELSE head

\* Mutant: pop_head leaves tail on the node it took out of the list.
llist_pop_head_keep_tail(l) ==
    /\ head[l] /= None
    /\ head' = [head EXCEPT ![l] = next[head[l]]]
    /\ UNCHANGED <<tail, next>>

\* llist_pop_head: the head's successor becomes the head; taking the last
\* node empties the list.  The popped node keeps its next.  An empty list
\* returns NULL and changes nothing.
llist_pop_head(l) ==
    /\ head[l] /= None
    /\ head' = [head EXCEPT ![l] = next[head[l]]]
    /\ tail' = IF next[head[l]] = None THEN [tail EXCEPT ![l] = None] ELSE tail
    /\ UNCHANGED next

\* llist_pop_tail: walk from head to the tail's predecessor, which ends the
\* list; taking the only node empties the list.
llist_pop_tail(l) ==
    /\ tail[l] /= None
    /\ IF head[l] = tail[l]
       THEN /\ head' = [head EXCEPT ![l] = None]
            /\ tail' = [tail EXCEPT ![l] = None]
            /\ UNCHANGED next
       ELSE LET p == Pred(l, tail[l]) IN
            /\ next' = [next EXCEPT ![p] = None]
            /\ tail' = [tail EXCEPT ![l] = p]
            /\ UNCHANGED head

\* llist_remove: unlink node n; removing the head is pop_head, removing the
\* tail moves the tail to n's predecessor.
llist_remove(l, n) ==
    /\ n \in ToSet(Contents(l))
    /\ IF n = head[l]
       THEN llist_pop_head(l)
       ELSE LET p == Pred(l, n) IN
            /\ next' = [next EXCEPT ![p] = next[n]]
            /\ tail' = IF n = tail[l] THEN [tail EXCEPT ![l] = p] ELSE tail
            /\ UNCHANGED head

=============================================================================
