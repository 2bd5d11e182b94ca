--------------------------- MODULE MC_SharedQueue ---------------------------
EXTENDS SharedQueue

CONSTANTS h1, h2

MC_Handles == {h1, h2}

=============================================================================
