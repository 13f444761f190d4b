---------------------------- MODULE MCAuthorLog -----------------------------
(* A reaction a window, and messages two ticks apart, over a clock one     *)
(* tick longer than the window.                                            *)
EXTENDS AuthorLog

Paced == [message |-> 2, reaction |-> 1, slowmode |-> 2]
=============================================================================
