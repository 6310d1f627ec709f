----------------------------- MODULE MCConnTable -----------------------------
(* The instance of module ConnTable that TLC checks; the .cfg files give the *)
(* bounds.                                                                  *)
EXTENDS ConnTable
=============================================================================
