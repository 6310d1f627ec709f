------------------------------- MODULE ConnSpec -------------------------------
(***************************************************************************)
(* What the connection table promises of the events that one connection     *)
(* leaves in the mailbox: "start, continue, end" (docs/spec §5.3) as far as *)
(* conn.go keeps to it.  Only the closed event is never dropped; data keeps *)
(* its order; and the one chunk that a reader held when somebody else       *)
(* announced the closure may come after it.  Module ConnTable implements    *)
(* this (ImplementsConnSpec) while ids are not reused, or the guest does    *)
(* not write.                                                               *)
(***************************************************************************)
EXTENDS MailboxQueue

CONSTANTS Conns, MaxChunk

VARIABLES stage,   \* stage[c]: "new", "open", "late" (announced as closed,
                   \* a chunk is still held) or "ended"
          told     \* told[c]: the events of c that entered the mailbox

Start == [kind |-> KindEstablished, n |-> 0]
Chunk(n) == [kind |-> KindData, n |-> n]
Closure == [kind |-> KindClosed, n |-> 0]

Init ==
    /\ stage = [c \in Conns |-> "new"]
    /\ told = [c \in Conns |-> <<>>]

Step(c, from, to) == stage[c] \in from /\ stage' = [stage EXCEPT ![c] = to]
Tell(c, e) == told' = [told EXCEPT ![c] = Append(@, e)]
Drop == UNCHANGED told

\* Chunk n is later than every chunk told of.
Later(c, n) == \A i \in DOMAIN told[c] : told[c][i].n < n

Begin(c) == Step(c, {"new"}, "open") /\ (Tell(c, Start) \/ Drop)

Data(c) ==
    /\ Step(c, {"open", "late"}, IF stage[c] = "late" THEN "ended" ELSE "open")
    /\ \/ \E n \in 1..MaxChunk : Later(c, n) /\ Tell(c, Chunk(n))
       \/ Drop

End(c) == (\E to \in {"late", "ended"} : Step(c, {"open"}, to)) /\ Tell(c, Closure)

Next == \E c \in Conns : Begin(c) \/ Data(c) \/ End(c)

Spec == Init /\ [][Next]_<<stage, told>>
=============================================================================
