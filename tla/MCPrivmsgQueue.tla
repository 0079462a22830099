--------------------------- MODULE MCPrivmsgQueue ---------------------------
(* PrivmsgQueue with two calling threads. *)
EXTENDS PrivmsgQueue

CONSTANTS c1, c2

MCCallers == {c1, c2}
=============================================================================
