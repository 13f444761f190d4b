------------------------------ MODULE MCContact ------------------------------
(* Two people and one conversation. *)
EXTENDS Contact
CONSTANTS ada, ben
==============================================================================
