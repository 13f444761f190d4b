------------------------------- MODULE MCWindow -------------------------------
(* Two launches of the application, a network that may be set aside and one    *)
(* that may sleep.                                                             *)
EXTENDS Window
================================================================================
