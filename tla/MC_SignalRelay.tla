--------------------------- MODULE MC_SignalRelay ---------------------------
(* Model-checking instance of SignalRelay: three event slots, two signals. *)
EXTENDS SignalRelay, UelConfig

CONSTANTS e1, e2, e3, s1, s2, p1, p2

MC_Events == {e1, e2, e3}
\* Two slots: a released slot is the next one listen takes.
MC_Events2 == {e1, e2}
MC_Signals == {s1, s2}
MC_Signals1 == {s1}
MC_Params1 == {p1}
MC_Params2 == {p1, p2}

\* The model never attaches more listeners to one signal than the relay is
\* configured for.
ASSUME MaxListens <= UEL_SIGNAL_MAX_LISTENERS

=============================================================================
