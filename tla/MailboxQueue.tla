---------------------------- MODULE MailboxQueue ----------------------------
(***************************************************************************)
(* The queue inside a Mailbox (sandbox/mailbox.go) as a value: the kinds of *)
(* event it carries and the admission rule that Mailbox.push applies under  *)
(* the mailbox mutex.  Every module that has a mailbox uses these           *)
(* operators, so there is one statement of the tail-drop rule.              *)
(***************************************************************************)
EXTENDS Integers, Sequences

CONSTANT Limit      \* Mailbox.limit, the -b/--mailbox-limit message count

ASSUME LimitAssumption == Limit \in Nat

\* Message.Kind
KindMessage     == 0    \* sandbox-to-sandbox message
KindEstablished == 1    \* external connection established
KindData        == 2    \* external connection data
KindClosed      == 3    \* external connection closed
Kinds == {KindMessage, KindEstablished, KindData, KindClosed}

\* Faulty variants, substituted by the mutation runs only.
FullOffByOne(q, m) == m.kind # KindClosed /\ Len(q) > Limit
FullForAll(q, m) == Len(q) >= Limit

\* The `full` test of Mailbox.push.  Push passes dropOnFull = TRUE and
\* PushDisconnect, the only way a KindClosed event is pushed, passes FALSE.
Full(q, m) == m.kind # KindClosed /\ Len(q) >= Limit

\* What the critical section of Mailbox.push leaves in mb.queue.
Pushed(q, m) == IF Full(q, m) THEN q ELSE Append(q, m)

\* In a queue built by Pushed and Tail, an event that is subject to the cap
\* sits within the first Limit positions: it found room when it was pushed
\* and Tail only moves it forward.
WithinLimit(q) == \A i \in DOMAIN q : q[i].kind # KindClosed => i <= Limit
=============================================================================
