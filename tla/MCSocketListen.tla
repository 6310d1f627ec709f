--------------------------- MODULE MCSocketListen ---------------------------
(* Three processes with one name. *)
EXTENDS SocketListen

CONSTANTS a, b, c
MCProcs == {a, b, c}
=============================================================================
