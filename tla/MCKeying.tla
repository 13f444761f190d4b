------------------------------ MODULE MCKeying ------------------------------
(* An issuer, a friend who accepts the invite, and a third participant.     *)
EXTENDS Keying

CONSTANTS ada, ben, eve

MCOwn == -1
=============================================================================
