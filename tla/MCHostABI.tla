------------------------------ MODULE MCHostABI ------------------------------
(* Module HostABI with a narrow word; the .cfg files give its width. *)
EXTENDS HostABI
=============================================================================
