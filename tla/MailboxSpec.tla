---------------------------- MODULE MailboxSpec -----------------------------
(***************************************************************************)
(* What a mailbox promises to its guest and to the goroutines that push to  *)
(* it (docs/spec §3.6, §4.2, §5.3), without locks or wake-ups:              *)
(*   - an accepted event joins the end of one FIFO and is taken from its    *)
(*     front, at most once;                                                 *)
(*   - a recv that the guest has started returns as soon as the box holds   *)
(*     an event, or its context is done;                                    *)
(*   - a recv started on a non-empty box never reports a timeout.           *)
(* Module Mailbox, the code with its mutex and notify channel, implements   *)
(* this specification.                                                      *)
(***************************************************************************)
EXTENDS MailboxQueue

CONSTANTS Message,   \* the events that can be pushed
          Caps       \* the buffer sizes a guest may pass to recv

VARIABLES box,       \* the events waiting, oldest first
          taken,     \* the events handed to the guest, in order
          waiting,   \* TRUE while the guest is inside recv
          cap,       \* buf_cap of that recv
          mayExpire, \* its context: "never", "later" or "done"
          startedEmpty  \* the box was empty when that recv started

vars == <<box, taken, waiting, cap, mayExpire, startedEmpty>>

Init ==
    /\ box = <<>>
    /\ taken = <<>>
    /\ waiting = FALSE
    /\ cap \in Caps
    /\ mayExpire = "never"
    /\ startedEmpty = TRUE

\* A push: the event joins the box or, when the box is full, vanishes.
Arrive(m) ==
    /\ box' = Pushed(box, m)
    /\ UNCHANGED <<taken, waiting, cap, mayExpire, startedEmpty>>

\* The guest calls recv.
Call(c, x) ==
    /\ ~waiting
    /\ waiting' = TRUE
    /\ cap' = c
    /\ mayExpire' = x
    /\ startedEmpty' = (box = <<>>)
    /\ UNCHANGED <<box, taken>>

\* The context of the call in progress ends.
Expire ==
    /\ waiting
    /\ mayExpire = "later"
    /\ mayExpire' = "done"
    /\ UNCHANGED <<box, taken, waiting, cap, startedEmpty>>

\* recv returns the oldest event, which leaves the box.
Deliver ==
    /\ waiting
    /\ box # <<>>
    /\ Head(box).size <= cap
    /\ taken' = Append(taken, Head(box))
    /\ box' = Tail(box)
    /\ waiting' = FALSE
    /\ UNCHANGED <<cap, mayExpire, startedEmpty>>

\* recv reports that the oldest event does not fit; it stays in the box.
Refuse ==
    /\ waiting
    /\ box # <<>>
    /\ Head(box).size > cap
    /\ waiting' = FALSE
    /\ UNCHANGED <<box, taken, cap, mayExpire, startedEmpty>>

\* recv reports a timeout.
GiveUp ==
    /\ waiting
    /\ mayExpire = "done"
    /\ startedEmpty
    /\ waiting' = FALSE
    /\ UNCHANGED <<box, taken, cap, mayExpire, startedEmpty>>

Return == Deliver \/ Refuse \/ GiveUp

Next ==
    \/ \E m \in Message : Arrive(m)
    \/ \E c \in Caps, x \in {"never", "later", "done"} : Call(c, x)
    \/ Expire
    \/ Return

\* A recv that can return does return.
Spec == Init /\ [][Next]_vars /\ WF_vars(Return)
=============================================================================
