-------------------------- MODULE MC_CircularQueue --------------------------
EXTENDS CircularQueue

CONSTANTS h1, h2

MC_Handles == {h1, h2}

=============================================================================
