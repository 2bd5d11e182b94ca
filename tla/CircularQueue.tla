--------------------------- MODULE CircularQueue ----------------------------
(***************************************************************************)
(* uel_cqueue: a buffer of 2^SizeLog2N handle slots with head and tail     *)
(* indices masked by size - 1 and a count that tells full from empty.      *)
(* The circular queue's source is not in the repository; this module       *)
(* follows spec section 2 ("Circular queue state") and section 4.1.        *)
(***************************************************************************)
EXTENDS Naturals, Sequences, Bitwise

CONSTANTS
    Handles,     \* the opaque handles the queue carries
    SizeLog2N,   \* log2 of the capacity
    None         \* the empty buffer cell and pop's "none"

VARIABLES buffer, head, tail, count

cqvars == <<buffer, head, tail, count>>

Size == 2 ^ SizeLog2N
Mask == Size - 1
Cells == 0 .. Mask

\* Mutant: the full check lets one push too many through.
IsFullLate == count > Size

\* uel_cqueue_is_full
IsFull == count = Size

IsEmpty == count = 0

\* uel_cqueue_peek: the oldest handle, or None
Peek == IF IsEmpty THEN None ELSE buffer[head]

\* uel_cqueue_init: bind the buffer; head = tail = count = 0
CQInit ==
    /\ buffer = [i \in Cells |-> None]
    /\ head = 0 /\ tail = 0 /\ count = 0

\* uel_cqueue_push: store at tail, advance tail by one under the mask.
\* A full queue refuses the push and changes nothing.
CQPush(x) ==
    /\ ~IsFull
    /\ buffer' = [buffer EXCEPT ![tail] = x]
    /\ tail' = (tail + 1) & Mask
    /\ count' = count + 1
    /\ UNCHANGED head

\* Mutant: pop forgets to advance head.
CQPopNoAdvance ==
    /\ ~IsEmpty
    /\ count' = count - 1
    /\ UNCHANGED <<buffer, head, tail>>

\* uel_cqueue_pop: take the handle at head, advance head under the mask.
CQPop ==
    /\ ~IsEmpty
    /\ head' = (head + 1) & Mask
    /\ count' = count - 1
    /\ UNCHANGED <<buffer, tail>>

CQNext == (\E x \in Handles : CQPush(x)) \/ CQPop

CQSpec == CQInit /\ [][CQNext]_cqvars

\* The handles in the queue, oldest first.
Contents == [i \in 1 .. count |-> buffer[(head + i - 1) & Mask]]

-----------------------------------------------------------------------------
CQTypeOK ==
    /\ buffer \in [Cells -> Handles \cup {None}]
    /\ head \in Cells /\ tail \in Cells
    /\ count \in 0 .. Size

\* The masked indices never lose the queue's contents: the queue as seen
\* through buffer, head and count behaves as a bounded FIFO.
Fifo == INSTANCE BoundedFifo WITH items <- Contents, Capacity <- Size

ImplementsFifo == Fifo!FifoSpec

=============================================================================
