------------------------------ MODULE MCMailbox ------------------------------
(* Model values and bounds for checking module Mailbox. *)
EXTENDS Mailbox

CONSTANTS p1, p2

MCProducers == {p1, p2}
MCSizes == {2}
MCCaps == {1, 2}
=============================================================================
