---------------------------- MODULE MCNodeClaim -----------------------------
(***************************************************************************)
(* A window and a daemon on one store.  The clock counts units of two      *)
(* seconds: a heartbeat is stale after three of them and a process waits   *)
(* four (NODE_CLAIM_STALE, and two seconds more).                          *)
(***************************************************************************)
EXTENDS NodeClaim
=============================================================================
