--------------------------- MODULE MC_NodeLists ----------------------------
(* The node pool of the default configuration scaled down by 2^5: four     *)
(* nodes of 2 bytes, shared by two lists.                                  *)
EXTENDS NodeLists, UelConfig, TLC

CONSTANTS l1, l2

MC_Lists == {l1, l2}
MC_SizeLog2N == UEL_SYSPOOLS_LLIST_NODE_POOL_SIZE_LOG2N - 5

\* The lists are interchangeable: nothing in the pool or the lists tells them
\* apart but their names.
MC_Symmetry == Permutations(MC_Lists)

=============================================================================
