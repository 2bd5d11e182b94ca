---------------------------- MODULE BoundedFifo -----------------------------
(***************************************************************************)
(* What a circular queue promises (spec section 4.1): an insertion-ordered *)
(* queue of at most Capacity handles.  A push to a full queue and a pop    *)
(* from an empty one change nothing.                                       *)
(***************************************************************************)
EXTENDS Naturals, Sequences

CONSTANTS Handles, Capacity

VARIABLE items

FifoInit == items = <<>>

FifoPush(x) == /\ Len(items) < Capacity
               /\ items' = Append(items, x)

FifoPop == /\ items /= <<>>
           /\ items' = Tail(items)

FifoNext == (\E x \in Handles : FifoPush(x)) \/ FifoPop

FifoSpec == FifoInit /\ [][FifoNext]_items

=============================================================================
