---------------------------- MODULE MC_UevLoop ----------------------------
(* Instantiation of UevLoop for TLC: three event slots and queues small    *)
(* enough that both system queues and both pools can fill up.             *)
EXTENDS UevLoop

CONSTANTS e1, e2, e3

MC_Events == {e1, e2, e3}

\* Two slots: enough for a timer and a closure to compete for the loop.
MC_Events2 == {e1, e2}
=============================================================================
