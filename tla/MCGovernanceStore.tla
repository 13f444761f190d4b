------------------------- MODULE MCGovernanceStore --------------------------
(***************************************************************************)
(* A command, a window that polls and may govern too, and the node.        *)
(***************************************************************************)
EXTENDS GovernanceStore
=============================================================================
