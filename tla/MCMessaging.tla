----------------------------- MODULE MCMessaging -----------------------------
(* Destination numbers and IDs for checking module Messaging. *)
EXTENDS Messaging, TLC

MCReceivers == {"A", "B"}
MCDests == {1, 2}
MCAssign == 1 :> "A" @@ 2 :> "B"
\* -d 1=A -d 2=A, which options.go accepts: with Assign <- MCAliases TLC finds
\* SenderOrder violated.
MCAliases == 1 :> "A" @@ 2 :> "A"
=============================================================================
