----------------------------- MODULE MCRateLimit -----------------------------
(* Three goroutines that hit one counter. *)
EXTENDS RateLimit

CONSTANTS g1, g2, g3
MCCallers == {g1, g2, g3}
=============================================================================
