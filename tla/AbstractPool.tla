---------------------------- MODULE AbstractPool ----------------------------
(***************************************************************************)
(* What an object pool promises: a fixed set of slots, each either free   *)
(* or held by one owner.  acquire hands out some free slot; only its owner *)
(* gives it back.                                                          *)
(***************************************************************************)
CONSTANTS Slots, Clients, None

VARIABLES free, owner

PoolInit == /\ free = Slots
            /\ owner = [a \in Slots |-> None]

PoolAcquire(c) == \E a \in free : /\ free' = free \ {a}
                                  /\ owner' = [owner EXCEPT ![a] = c]

PoolRelease(c, a) == /\ owner[a] = c
                     /\ free' = free \cup {a}
                     /\ owner' = [owner EXCEPT ![a] = None]

PoolNext == \E c \in Clients : PoolAcquire(c) \/ \E a \in Slots : PoolRelease(c, a)

AbstractPoolSpec == PoolInit /\ [][PoolNext]_<<free, owner>>

=============================================================================
