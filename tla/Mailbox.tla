------------------------------- MODULE Mailbox -------------------------------
(***************************************************************************)
(* sandbox/mailbox.go at the granularity of its critical sections.  Any     *)
(* number of goroutines push; the guest's goroutine is the only receiver.   *)
(*                                                                          *)
(* A push is one critical section (append or tail-drop), then, outside the  *)
(* mutex, either dropLog.Hit or a non-blocking send on the notify channel,  *)
(* whose buffer holds one token.  Recv loops over a critical section that   *)
(* looks at the head of the queue and a select over notify and ctx.Done().  *)
(***************************************************************************)
EXTENDS MailboxQueue, FiniteSets

CONSTANTS Producers,   \* goroutines that push
          MaxPush,     \* bound: pushes per producer
          Sizes,       \* payload lengths
          Caps         \* buf_cap values the guest passes to recv

ASSUME MailboxAssumption ==
    /\ MaxPush \in Nat
    /\ Sizes \subseteq Nat
    /\ Caps \subseteq Nat

\* An event and, so that order and loss can be stated, who pushed it and as
\* its how-manyth push.  KindMessage stands for every kind that Push carries
\* (push treats kinds 0, 1 and 2 alike); KindClosed is PushDisconnect's.
Message ==
    {m \in [src : Producers, seq : 1..MaxPush,
            kind : {KindMessage, KindClosed}, size : Sizes \cup {0}] :
        m.kind = KindClosed => m.size = 0}

VARIABLES
    queue,      \* Mailbox.queue
    notify,     \* tokens in the notify channel, make(chan struct{}, 1)
    ppc,        \* ppc[p]: where producer p is in push
    sent,       \* sent[p]: pushes started by p
    rpc,        \* where the guest is: "idle" is outside Recv
    bufCap,     \* bufCap of the Recv in progress
    ctx,        \* its context: "never" ends, ends "later", is "done"
    \* History variables, which no guard reads.
    received,      \* events Recv delivered, in order
    dropped,       \* events tail-dropped
    emptyAtCall    \* the queue was empty when Recv was called

pushVars == <<ppc, sent, dropped>>
callVars == <<bufCap, ctx, emptyAtCall>>
vars == <<queue, notify, rpc, received, pushVars, callVars>>

Contexts == {"never", "later", "done"}

Init ==
    /\ queue = <<>>
    /\ notify = 0
    /\ ppc = [p \in Producers |-> "idle"]
    /\ sent = [p \in Producers |-> 0]
    /\ rpc = "idle"
    /\ bufCap \in Caps
    /\ ctx = "never"
    /\ received = <<>>
    /\ dropped = {}
    /\ emptyAtCall = TRUE

-----------------------------------------------------------------------------
(* The goroutines that push *)

\* The critical section of push when there is room, or the cap does not apply.
Enqueue(p, m) ==
    /\ ppc[p] = "idle"
    /\ m.src = p /\ m.seq = sent[p] + 1
    /\ ~Full(queue, m)
    /\ queue' = Pushed(queue, m)
    /\ ppc' = [ppc EXCEPT ![p] = "notify"]
    /\ sent' = [sent EXCEPT ![p] = m.seq]
    /\ UNCHANGED <<notify, rpc, received, dropped, callVars>>

\* The critical section of push when the mailbox is full.
TailDrop(p, m) ==
    /\ ppc[p] = "idle"
    /\ m.src = p /\ m.seq = sent[p] + 1
    /\ Full(queue, m)
    /\ dropped' = dropped \cup {m}
    /\ ppc' = [ppc EXCEPT ![p] = "drop"]
    /\ sent' = [sent EXCEPT ![p] = m.seq]
    /\ UNCHANGED <<queue, notify, rpc, received, callVars>>

\* dropLog.Hit returns; push returns without touching notify.
LogDrop(p) ==
    /\ ppc[p] = "drop"
    /\ ppc' = [ppc EXCEPT ![p] = "idle"]
    /\ UNCHANGED <<queue, notify, sent, dropped, rpc, received, callVars>>

\* Faulty variants: the send without its buffer bound, and a send skipped
\* unless the queue holds just the one event.
NotifyUnbounded(p) ==
    /\ ppc[p] = "notify"
    /\ notify' = notify + 1
    /\ ppc' = [ppc EXCEPT ![p] = "idle"]
    /\ UNCHANGED <<queue, sent, dropped, rpc, received, callVars>>
NotifyFirstOnly(p) ==
    /\ ppc[p] = "notify"
    /\ notify' = IF Len(queue) = 1 THEN 1 ELSE notify
    /\ ppc' = [ppc EXCEPT ![p] = "idle"]
    /\ UNCHANGED <<queue, sent, dropped, rpc, received, callVars>>

\* The select with a default: a token when the channel has room for it.
Notify(p) ==
    /\ ppc[p] = "notify"
    /\ notify' = 1
    /\ ppc' = [ppc EXCEPT ![p] = "idle"]
    /\ UNCHANGED <<queue, sent, dropped, rpc, received, callVars>>

-----------------------------------------------------------------------------
(* The guest's goroutine *)

\* recv is called.  timeout_ms = 0 gives a context that is already done, a
\* deadline (timeout_ms > 0, or -t) one that will be, and neither, never.
RecvCall(c, x) ==
    /\ rpc = "idle"
    /\ rpc' = "check"
    /\ bufCap' = c
    /\ ctx' = x
    /\ emptyAtCall' = (queue = <<>>)
    /\ UNCHANGED <<queue, notify, received, pushVars>>

\* Faulty variant: the newest event is delivered instead of the oldest.
RecvDeliverNewest ==
    /\ rpc = "check"
    /\ queue # <<>>
    /\ queue[Len(queue)].size <= bufCap
    /\ received' = Append(received, queue[Len(queue)])
    /\ queue' = SubSeq(queue, 1, Len(queue) - 1)
    /\ rpc' = "idle"
    /\ UNCHANGED <<notify, pushVars, callVars>>

\* RecvDelivered.  The notify token stays behind.
RecvDeliver ==
    /\ rpc = "check"
    /\ queue # <<>>
    /\ Head(queue).size <= bufCap
    /\ received' = Append(received, Head(queue))
    /\ queue' = Tail(queue)
    /\ rpc' = "idle"
    /\ UNCHANGED <<notify, pushVars, callVars>>

\* Faulty variant: the event that did not fit is lost.
RecvTooSmallPops ==
    /\ rpc = "check"
    /\ queue # <<>>
    /\ Head(queue).size > bufCap
    /\ queue' = Tail(queue)
    /\ rpc' = "idle"
    /\ UNCHANGED <<notify, received, pushVars, callVars>>

\* RecvBufferTooSmall: the event stays at the head.
RecvTooSmall ==
    /\ rpc = "check"
    /\ queue # <<>>
    /\ Head(queue).size > bufCap
    /\ rpc' = "idle"
    /\ UNCHANGED <<queue, notify, received, pushVars, callVars>>

\* Nothing to take: on to the select.
RecvEmpty ==
    /\ rpc = "check"
    /\ queue = <<>>
    /\ rpc' = "select"
    /\ UNCHANGED <<queue, notify, received, pushVars, callVars>>

\* The select takes the token and the loop looks again.
RecvWake ==
    /\ rpc = "select"
    /\ notify = 1
    /\ notify' = 0
    /\ rpc' = "check"
    /\ UNCHANGED <<queue, received, pushVars, callVars>>

\* RecvTimedOut.  With both cases ready the select picks either, so that an
\* event queued before the context ended may still be there.
RecvTimeout ==
    /\ rpc = "select"
    /\ ctx = "done"
    /\ rpc' = "idle"
    /\ UNCHANGED <<queue, notify, received, pushVars, callVars>>

\* The deadline of the Recv in progress passes.
CtxDone ==
    /\ rpc # "idle"
    /\ ctx = "later"
    /\ ctx' = "done"
    /\ UNCHANGED <<queue, notify, rpc, received, pushVars, bufCap, emptyAtCall>>

-----------------------------------------------------------------------------

\* The steps that Recv takes by itself once it has been called.
RecvStep == RecvDeliver \/ RecvTooSmall \/ RecvEmpty \/ RecvWake \/ RecvTimeout

Next ==
    \/ \E p \in Producers, m \in Message : Enqueue(p, m) \/ TailDrop(p, m)
    \/ \E p \in Producers : LogDrop(p) \/ Notify(p)
    \/ \E c \in Caps, x \in Contexts : RecvCall(c, x)
    \/ RecvStep
    \/ CtxDone

\* A goroutine inside push or Recv that can go on is run eventually (the Go
\* scheduler is preemptive).  Nothing makes a producer start a push, the
\* guest call recv, or a deadline exist.
Fairness ==
    /\ \A p \in Producers : WF_vars(Notify(p))
    /\ WF_vars(RecvStep)

Spec == Init /\ [][Next]_vars /\ Fairness

-----------------------------------------------------------------------------
(* Properties *)

TypeOK ==
    /\ queue \in Seq(Message)
    /\ notify \in 0..1
    /\ ppc \in [Producers -> {"idle", "drop", "notify"}]
    /\ sent \in [Producers -> 0..MaxPush]
    /\ rpc \in {"idle", "check", "select"}
    /\ bufCap \in Caps
    /\ ctx \in Contexts
    /\ received \in Seq(Message)
    /\ dropped \in SUBSET Message
    /\ emptyAtCall \in BOOLEAN

\* A guest blocked in the select while events wait is about to be woken: the
\* token is in the channel, or a producer still has to put it there.  Tokens
\* are neither counted nor tied to events, push sends outside the mutex and
\* a token may be stale, so this is what keeps a wake-up from being lost.
NoLostWakeup ==
    rpc = "select" /\ queue # <<>> =>
        notify = 1 \/ \E p \in Producers : ppc[p] = "notify"

\* Whatever the disconnect events do to the length of the queue, an event
\* that is subject to the cap never waits beyond position Limit.
EventsWithinLimit == WithinLimit(queue)

\* What was handed to the guest followed by what still waits.
history == received \o queue

\* Every push that was started ended up in exactly one place: delivered,
\* waiting or tail-dropped, once, and a disconnect event is never the one
\* dropped (mailbox.go:90-97).
EveryPushAccountedFor ==
    \A p \in Producers :
        /\ \A k \in 1..sent[p] :
            Cardinality({i \in DOMAIN history :
                            history[i].src = p /\ history[i].seq = k})
            + Cardinality({m \in dropped : m.src = p /\ m.seq = k}) = 1
        /\ \A m \in dropped : m.kind # KindClosed

\* The events of one goroutine reach the guest in the order it pushed them.
SenderOrder ==
    \A i, j \in DOMAIN history :
        i < j /\ history[i].src = history[j].src =>
            history[i].seq < history[j].seq

\* The promise of module MailboxSpec, under this refinement mapping.
Abstract == INSTANCE MailboxSpec WITH
    box <- queue, taken <- received, waiting <- rpc # "idle",
    cap <- bufCap, mayExpire <- ctx, startedEmpty <- emptyAtCall

\* Every behaviour of the code is one the abstract mailbox allows, including
\* that a recv which can return does return.
ImplementsMailboxSpec == Abstract!Spec
=============================================================================
