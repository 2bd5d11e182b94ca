------------------------------- MODULE Deque --------------------------------
(***************************************************************************)
(* What llist_t promises its users (spec section 4.3): each list is a      *)
(* sequence of nodes, pushed and popped at either end or removed from the  *)
(* middle, and a node is in at most one list at a time.                    *)
(***************************************************************************)
EXTENDS Sequences, SequencesExt

CONSTANTS Lists, Nodes

VARIABLE items

\* The nodes in some list.
Listed == UNION {ToSet(items[l]) : l \in Lists}

DQInit == items = [l \in Lists |-> <<>>]

DQPushHead(l, n) == /\ n \notin Listed
                    /\ items' = [items EXCEPT ![l] = <<n>> \o @]

DQPushTail(l, n) == /\ n \notin Listed
                    /\ items' = [items EXCEPT ![l] = Append(@, n)]

DQPopHead(l) == /\ items[l] /= <<>>
                /\ items' = [items EXCEPT ![l] = Tail(@)]

DQPopTail(l) == /\ items[l] /= <<>>
                /\ items' = [items EXCEPT ![l] = Front(@)]

DQRemove(l, n) == /\ n \in ToSet(items[l])
                  /\ items' = [items EXCEPT ![l] = Remove(@, n)]

DQNext == \E l \in Lists :
            \/ DQPopHead(l) \/ DQPopTail(l)
            \/ \E n \in Nodes : DQPushHead(l, n) \/ DQPushTail(l, n)
                                \/ DQRemove(l, n)

DQSpec == DQInit /\ [][DQNext]_items

=============================================================================
