---------------------------- MODULE MailboxProofs ----------------------------
(***************************************************************************)
(* Proofs about module Mailbox for every number of producers, every limit,  *)
(* every payload size and every buffer size.                                *)
(***************************************************************************)
EXTENDS Mailbox, SequenceTheorems, FiniteSetTheorems, TLAPS

\* What push does to a queue keeps it a queue of events.
LEMMA PushedType ==
    ASSUME NEW q \in Seq(Message), NEW m \in Message
    PROVE  Pushed(q, m) \in Seq(Message)
BY DEF Pushed

\* push keeps the capped events within the limit: an event that is subject
\* to the cap is appended only at a position the limit allows.
LEMMA PushedWithinLimit ==
    ASSUME NEW q \in Seq(Message), NEW m \in Message, WithinLimit(q)
    PROVE  WithinLimit(Pushed(q, m))
<1>1. CASE Full(q, m)
  BY <1>1 DEF Pushed
<1>2. CASE ~Full(q, m)
  <2> DEFINE r == Append(q, m)
  <2>1. Pushed(q, m) = r
    BY <1>2 DEF Pushed
  <2>2. SUFFICES ASSUME NEW i \in DOMAIN r, r[i].kind # KindClosed
                 PROVE  i <= Limit
    BY <2>1 DEF WithinLimit
  <2>3. Len(r) = Len(q) + 1 /\ i \in 1..Len(r)
    BY <2>2
  <2>4. CASE i <= Len(q)
    <3>1. i \in DOMAIN q /\ r[i] = q[i]
      BY <2>3, <2>4
    <3> QED  BY <3>1, <2>2 DEF WithinLimit
  <2>5. CASE i = Len(q) + 1
    <3>1. r[i] = m
      BY <2>5
    <3>2. ~(Len(q) >= Limit)
      BY <3>1, <2>2, <1>2 DEF Full
    <3> QED  BY <3>2, <2>5, LimitAssumption
  <2> QED  BY <2>3, <2>4, <2>5
<1> QED  BY <1>1, <1>2

\* Recv's queue[1:] moves every event one position forward.
LEMMA TailWithinLimit ==
    ASSUME NEW q \in Seq(Message), q # <<>>, WithinLimit(q)
    PROVE  WithinLimit(Tail(q))
<1>1. SUFFICES ASSUME NEW i \in DOMAIN Tail(q), Tail(q)[i].kind # KindClosed
               PROVE  i <= Limit
  BY DEF WithinLimit
<1>2. i \in 1..(Len(q) - 1) /\ Tail(q)[i] = q[i + 1]
  BY <1>1, HeadTailProperties
<1>3. i + 1 \in DOMAIN q /\ q[i + 1].kind # KindClosed
  BY <1>1, <1>2
<1>4. i + 1 <= Limit
  BY <1>3 DEF WithinLimit
<1> QED  BY <1>2, <1>4, LimitAssumption

-----------------------------------------------------------------------------

\* Every variable keeps its type; in particular notify never holds more than
\* the one token its channel has room for.
THEOREM TypeCorrect == Spec => []TypeOK
<1>1. Init => TypeOK
  <2> SUFFICES ASSUME Init PROVE TypeOK
    OBVIOUS
  <2>1. queue \in Seq(Message) /\ received \in Seq(Message)
    BY DEF Init
  <2>2. ppc \in [Producers -> {"idle", "drop", "notify"}]
    BY DEF Init
  <2>3. sent \in [Producers -> 0..MaxPush]
    BY MailboxAssumption DEF Init
  <2>4. dropped \in SUBSET Message
    BY DEF Init
  <2>5. emptyAtCall \in BOOLEAN
    BY Zenon DEF Init
  <2> QED  BY <2>1, <2>2, <2>3, <2>4, <2>5 DEF Init, TypeOK, Contexts
<1>2. TypeOK /\ [Next]_vars => TypeOK'
  <2> SUFFICES ASSUME TypeOK, [Next]_vars PROVE TypeOK'
    OBVIOUS
  <2> USE DEF TypeOK
  <2>1. ASSUME NEW p \in Producers, NEW m \in Message, Enqueue(p, m)
        PROVE  TypeOK'
    <3>1. queue' \in Seq(Message)
      BY <2>1, PushedType DEF Enqueue
    <3>2. sent' \in [Producers -> 0..MaxPush]
      BY <2>1, MailboxAssumption DEF Enqueue, Message
    <3> QED  BY <2>1, <3>1, <3>2 DEF Enqueue, callVars
  <2>2. ASSUME NEW p \in Producers, NEW m \in Message, TailDrop(p, m)
        PROVE  TypeOK'
    <3>1. sent' \in [Producers -> 0..MaxPush]
      BY <2>2, MailboxAssumption DEF TailDrop, Message
    <3> QED  BY <2>2, <3>1 DEF TailDrop, callVars
  <2>3. ASSUME NEW p \in Producers, LogDrop(p) PROVE TypeOK'
    BY <2>3 DEF LogDrop, callVars
  <2>4. ASSUME NEW p \in Producers, Notify(p) PROVE TypeOK'
    BY <2>4 DEF Notify, callVars
  <2>5. ASSUME NEW c \in Caps, NEW x \in Contexts, RecvCall(c, x)
        PROVE  TypeOK'
    BY <2>5 DEF RecvCall, pushVars
  <2>6. CASE RecvDeliver
    BY <2>6, HeadTailProperties DEF RecvDeliver, pushVars, callVars
  <2>7. CASE RecvTooSmall
    BY <2>7 DEF RecvTooSmall, pushVars, callVars
  <2>8. CASE RecvEmpty
    BY <2>8 DEF RecvEmpty, pushVars, callVars
  <2>9. CASE RecvWake
    BY <2>9 DEF RecvWake, pushVars, callVars
  <2>10. CASE RecvTimeout
    BY <2>10 DEF RecvTimeout, pushVars, callVars
  <2>11. CASE CtxDone
    BY <2>11 DEF CtxDone, pushVars, Contexts
  <2>12. CASE UNCHANGED vars
    BY <2>12 DEF vars, pushVars, callVars
  <2> QED
    BY <2>1, <2>2, <2>3, <2>4, <2>5, <2>6, <2>7, <2>8, <2>9, <2>10, <2>11,
       <2>12 DEF Next, RecvStep
<1> QED  BY <1>1, <1>2, PTL DEF Spec

\* No wake-up is lost: a guest blocked while events wait has a token waiting
\* for it, or a producer that has appended but not yet sent.
THEOREM WakeupKept == Spec => []NoLostWakeup
<1>1. Init => NoLostWakeup
  BY DEF Init, NoLostWakeup
<1>2. TypeOK /\ NoLostWakeup /\ [Next]_vars => NoLostWakeup'
  <2> SUFFICES ASSUME TypeOK, NoLostWakeup, [Next]_vars PROVE NoLostWakeup'
    OBVIOUS
  <2> USE DEF NoLostWakeup
  <2>1. ASSUME NEW p \in Producers, NEW m \in Message, Enqueue(p, m)
        PROVE  NoLostWakeup'
    BY <2>1 DEF Enqueue, TypeOK
  <2>2. ASSUME NEW p \in Producers, NEW m \in Message, TailDrop(p, m)
        PROVE  NoLostWakeup'
    BY <2>2 DEF TailDrop, TypeOK
  <2>3. ASSUME NEW p \in Producers, LogDrop(p) PROVE NoLostWakeup'
    BY <2>3 DEF LogDrop, TypeOK
  <2>4. ASSUME NEW p \in Producers, Notify(p) PROVE NoLostWakeup'
    BY <2>4 DEF Notify
  <2>5. ASSUME NEW c \in Caps, NEW x \in Contexts, RecvCall(c, x)
        PROVE  NoLostWakeup'
    BY <2>5 DEF RecvCall
  <2>6. CASE RecvDeliver \/ RecvTooSmall \/ RecvWake \/ RecvTimeout
    BY <2>6 DEF RecvDeliver, RecvTooSmall, RecvWake, RecvTimeout
  <2>7. CASE RecvEmpty
    BY <2>7 DEF RecvEmpty
  <2>8. CASE CtxDone
    BY <2>8 DEF CtxDone, pushVars
  <2>9. CASE UNCHANGED vars
    BY <2>9 DEF vars, pushVars
  <2> QED
    BY <2>1, <2>2, <2>3, <2>4, <2>5, <2>6, <2>7, <2>8, <2>9 DEF Next, RecvStep
<1> QED  BY <1>1, <1>2, TypeCorrect, PTL DEF Spec

\* The cap of the mailbox holds for every event it applies to, however many
\* disconnect events are in the queue.
THEOREM CapHolds == Spec => []EventsWithinLimit
<1>1. Init => EventsWithinLimit
  BY DEF Init, EventsWithinLimit, WithinLimit
<1>2. TypeOK /\ EventsWithinLimit /\ [Next]_vars => EventsWithinLimit'
  <2> SUFFICES ASSUME TypeOK, EventsWithinLimit, [Next]_vars
               PROVE  WithinLimit(queue')
    BY DEF EventsWithinLimit, WithinLimit
  <2>1. WithinLimit(queue) /\ queue \in Seq(Message)
    BY DEF EventsWithinLimit, TypeOK
  <2>2. ASSUME NEW p \in Producers, NEW m \in Message, Enqueue(p, m)
        PROVE  WithinLimit(queue')
    BY <2>1, <2>2, PushedWithinLimit DEF Enqueue
  <2>3. CASE RecvDeliver
    BY <2>1, <2>3, TailWithinLimit DEF RecvDeliver
  <2>4. ASSUME queue' = queue PROVE WithinLimit(queue')
    BY <2>1, <2>4
  <2>5. ASSUME [Next]_vars
        PROVE  \/ \E p \in Producers, m \in Message : Enqueue(p, m)
               \/ RecvDeliver
               \/ queue' = queue
    BY <2>5 DEF Next, RecvStep, TailDrop, LogDrop, Notify, RecvCall, RecvTooSmall,
                RecvEmpty, RecvWake, RecvTimeout, CtxDone, vars
  <2> QED  BY <2>2, <2>3, <2>4, <2>5
<1> QED  BY <1>1, <1>2, TypeCorrect, PTL DEF Spec

-----------------------------------------------------------------------------

\* What an Append leaves: every element is one of before, or the new last.
LEMMA Appended ==
    ASSUME NEW S, NEW s \in Seq(S), NEW e \in S
    PROVE  /\ Append(s, e) \in Seq(S)
           /\ DOMAIN Append(s, e) = DOMAIN s \cup {Len(s) + 1}
           /\ \A i \in DOMAIN s : Append(s, e)[i] = s[i]
           /\ Append(s, e)[Len(s) + 1] = e
           /\ Len(s) + 1 \notin DOMAIN s
  BY AppendProperties, LenProperties

\* A delivery moves an event from the queue to what was received, and a push
\* appends to both: the history only ever grows at its end.
LEMMA HistoryMoves ==
    ASSUME TypeOK, [Next]_vars
    PROVE  \/ \E p \in Producers, m \in Message :
                  /\ Enqueue(p, m)
                  /\ history' = Append(history, m)
           \/ \E p \in Producers, m \in Message :
                  TailDrop(p, m) /\ history' = history
           \/ UNCHANGED <<history, sent, dropped>>
<1>1. received \in Seq(Message) /\ queue \in Seq(Message)
  BY DEF TypeOK
<1>2. ASSUME NEW p \in Producers, NEW m \in Message, Enqueue(p, m)
      PROVE  history' = Append(history, m)
  <2>1. queue' = Append(queue, m) /\ received' = received
    BY <1>2 DEF Enqueue, Pushed
  <2>2. Append(queue, m) = queue \o <<m>>
    BY <1>1, AppendIsConcat
  <2>3. Append(received \o queue, m) = (received \o queue) \o <<m>>
    BY <1>1, ConcatProperties, AppendIsConcat
  <2>4. (received \o queue) \o <<m>> = received \o (queue \o <<m>>)
    BY <1>1, <<m>> \in Seq(Message), ConcatAssociative
  <2> QED  BY <2>1, <2>2, <2>3, <2>4 DEF history
<1>3. ASSUME NEW p \in Producers, NEW m \in Message, TailDrop(p, m)
      PROVE  history' = history
  BY <1>3 DEF TailDrop, history
<1>4. CASE RecvDeliver
  <2>1. /\ queue # <<>>
        /\ received' = Append(received, Head(queue)) /\ queue' = Tail(queue)
        /\ UNCHANGED <<sent, dropped>>
    BY <1>4 DEF RecvDeliver, pushVars
  <2>2. Head(queue) \in Message /\ Tail(queue) \in Seq(Message)
    BY <1>1, <2>1, HeadTailProperties
  <2>3. <<Head(queue)>> \o Tail(queue) = queue
    <3>1. 1 \in 1..Len(queue) /\ Len(queue) \in 1..Len(queue)
      BY <1>1, <2>1, EmptySeq
    <3>2. SubSeq(queue, 1, Len(queue))
              = <<queue[1]>> \o SubSeq(queue, 1 + 1, Len(queue))
      BY <1>1, <3>1, SubSeqRecursiveFirst
    <3>3. Tail(queue) = SubSeq(queue, 2, Len(queue)) /\ Head(queue) = queue[1]
      BY <1>1, <2>1, TailIsSubSeq
    <3>4. SubSeq(queue, 1, Len(queue)) = queue
      BY <1>1, SubSeqFull
    <3> QED  BY <3>2, <3>3, <3>4
  <2>4. Append(received, Head(queue)) = received \o <<Head(queue)>>
    BY <1>1, <2>2, AppendIsConcat
  <2>5. (received \o <<Head(queue)>>) \o Tail(queue)
            = received \o (<<Head(queue)>> \o Tail(queue))
    BY <1>1, <2>2, <<Head(queue)>> \in Seq(Message), ConcatAssociative
  <2> QED  BY <2>1, <2>3, <2>4, <2>5 DEF history
<1>5. ASSUME [Next]_vars,
             ~RecvDeliver,
             ~\E p \in Producers, m \in Message : Enqueue(p, m) \/ TailDrop(p, m)
      PROVE  UNCHANGED <<queue, received, sent, dropped>>
  BY <1>5 DEF Next, RecvStep, LogDrop, Notify, RecvCall, RecvTooSmall, RecvEmpty,
              RecvWake, RecvTimeout, CtxDone, vars, pushVars, callVars
<1> QED  BY <1>2, <1>3, <1>4, <1>5 DEF history

\* The events of a producer carry the numbers of pushes it has started.
Numbered ==
    /\ \A i \in DOMAIN history : history[i].seq <= sent[history[i].src]
    /\ \A m \in dropped : m.seq <= sent[m.src]

LEMMA NumberedHolds == Spec => []Numbered
<1>1. Init => Numbered
  <2> SUFFICES ASSUME Init PROVE Numbered
    OBVIOUS
  <2>1. history = <<>> /\ dropped = {}
    BY DEF Init, history
  <2> QED  BY <2>1 DEF Numbered
<1>2. TypeOK /\ Numbered /\ [Next]_vars => Numbered'
  <2> SUFFICES ASSUME TypeOK, Numbered, [Next]_vars PROVE Numbered'
    OBVIOUS
  <2>1. /\ history \in Seq(Message)
        /\ \A i \in DOMAIN history : history[i] \in Message
        /\ \A m \in dropped : m \in Message
        /\ \A m \in Message : m.src \in Producers /\ m.seq \in Nat
        /\ sent \in [Producers -> Nat]
    <3>1. history \in Seq(Message)
      BY ConcatProperties DEF history, TypeOK
    <3> QED  BY <3>1, ElementOfSeq, LenProperties, MailboxAssumption DEF TypeOK, Message
  <2>2. ASSUME NEW p \in Producers, NEW m \in Message, Enqueue(p, m),
               history' = Append(history, m)
        PROVE  Numbered'
    <3>1. /\ m.src = p /\ sent' = [sent EXCEPT ![p] = m.seq] /\ dropped' = dropped
          /\ m.seq = sent[p] + 1
      BY <2>2 DEF Enqueue
    <3>2. \A q \in Producers : sent[q] <= sent'[q]
      BY <2>1, <3>1
    <3>3. \A i \in DOMAIN history' : history'[i].seq <= sent'[history'[i].src]
      <4> SUFFICES ASSUME NEW i \in DOMAIN history'
                   PROVE  history'[i].seq <= sent'[history'[i].src]
        OBVIOUS
      <4>1. CASE i \in DOMAIN history
        <5>1. history'[i] = history[i] /\ history[i] \in Message
          BY <4>1, <2>1, <2>2, Appended
        <5>2. history[i].src \in Producers /\ history[i].seq \in Nat
          BY <5>1, <2>1
        <5>3. history[i].seq <= sent[history[i].src]
          BY <4>1 DEF Numbered
        <5>4. sent'[history[i].src] \in Nat
          BY <5>2, <2>1, <3>1
        <5> QED  BY <5>1, <5>2, <5>3, <5>4, <2>1, <3>2
      <4>2. CASE i = Len(history) + 1
        BY <4>2, <2>1, <2>2, <3>1, Appended
      <4> QED  BY <4>1, <4>2, <2>1, <2>2, Appended
    <3>4. \A d \in dropped' : d.seq <= sent'[d.src]
      BY <2>1, <3>1, <3>2 DEF Numbered
    <3> QED  BY <3>3, <3>4 DEF Numbered
  <2>3. ASSUME NEW p \in Producers, NEW m \in Message, TailDrop(p, m),
               history' = history
        PROVE  Numbered'
    <3>1. /\ m.src = p /\ sent' = [sent EXCEPT ![p] = m.seq]
          /\ dropped' = dropped \cup {m} /\ m.seq = sent[p] + 1
      BY <2>3 DEF TailDrop
    <3>2. \A q \in Producers : sent[q] <= sent'[q]
      BY <2>1, <3>1
    <3> QED  BY <2>1, <2>3, <3>1, <3>2 DEF Numbered
  <2>4. CASE UNCHANGED <<history, sent, dropped>>
    BY <2>4 DEF Numbered
  <2> QED  BY <2>2, <2>3, <2>4, HistoryMoves
<1> QED  BY <1>1, <1>2, TypeCorrect, PTL DEF Spec

\* Events of one goroutine keep their order, whatever was dropped in between.
THEOREM OrderKept == Spec => []SenderOrder
<1>1. Init => SenderOrder
  <2> SUFFICES ASSUME Init PROVE SenderOrder
    OBVIOUS
  <2>1. history = <<>>
    BY DEF Init, history
  <2> QED  BY <2>1 DEF SenderOrder
<1>2. TypeOK /\ Numbered /\ SenderOrder /\ [Next]_vars => SenderOrder'
  <2> SUFFICES ASSUME TypeOK, Numbered, SenderOrder, [Next]_vars PROVE SenderOrder'
    OBVIOUS
  <2>1. ASSUME NEW p \in Producers, NEW m \in Message, Enqueue(p, m),
               history' = Append(history, m)
        PROVE  SenderOrder'
    <3>1. history \in Seq(Message) /\ Len(history) \in Nat
          /\ DOMAIN history = 1..Len(history)
      BY ConcatProperties, LenProperties DEF history, TypeOK
    <3>2. m.src = p /\ m.seq = sent[p] + 1 /\ sent[p] \in Nat
      BY <2>1, MailboxAssumption DEF Enqueue, TypeOK
    <3> SUFFICES ASSUME NEW i \in DOMAIN history', NEW j \in DOMAIN history', i < j,
                        history'[i].src = history'[j].src
                 PROVE  history'[i].seq < history'[j].seq
      BY DEF SenderOrder
    <3>3. CASE j \in DOMAIN history
      <4>1. i \in DOMAIN history
        BY <3>1, <3>3, <2>1, Appended
      <4> QED  BY <4>1, <3>1, <3>3, <2>1, Appended DEF SenderOrder
    <3>4. CASE j = Len(history) + 1
      <4>1. i \in DOMAIN history /\ history'[i] = history[i] /\ history'[j] = m
        BY <3>1, <3>4, <2>1, Appended
      <4>2. history[i].seq <= sent[p] /\ history[i].seq \in Nat
        BY <4>1, <3>1, <3>2, ElementOfSeq DEF Numbered, Message
      <4> QED  BY <4>1, <4>2, <3>2
    <3> QED  BY <3>1, <3>3, <3>4, <2>1, Appended
  <2>2. ASSUME history' = history PROVE SenderOrder'
    BY <2>2 DEF SenderOrder
  <2> QED  BY <2>1, <2>2, HistoryMoves
<1> QED  BY <1>1, <1>2, TypeCorrect, NumberedHolds, PTL DEF Spec

\* Where push number k of p is in the history, and its loss.
Places(p, k) == {i \in DOMAIN history : history[i].src = p /\ history[i].seq = k}
Losses(p, k) == {m \in dropped : m.src = p /\ m.seq = k}

Accounted(p, k) == Cardinality(Places(p, k)) + Cardinality(Losses(p, k)) = 1

\* A push that has not been started has left nothing behind.
LEMMA NothingYet ==
    ASSUME TypeOK, Numbered, NEW p \in Producers, NEW k \in Nat, k > sent[p]
    PROVE  Places(p, k) = {} /\ Losses(p, k) = {}
<1>1. sent[p] \in Nat
  BY MailboxAssumption DEF TypeOK
<1>2. ASSUME NEW i \in Places(p, k) PROVE FALSE
  BY <1>1, <1>2 DEF Places, Numbered
<1>3. ASSUME NEW m \in Losses(p, k) PROVE FALSE
  BY <1>1, <1>3 DEF Losses, Numbered
<1> QED  BY <1>2, <1>3

\* Whatever the producers and the guest do, a push is delivered, waiting or
\* dropped, exactly once, and no disconnect event is ever dropped.
THEOREM PushesAccountedFor == Spec => []EveryPushAccountedFor
<1>1. Init => EveryPushAccountedFor
  <2> SUFFICES ASSUME Init PROVE EveryPushAccountedFor
    OBVIOUS
  <2>1. dropped = {} /\ \A p \in Producers : 1..sent[p] = {}
    BY DEF Init
  <2> QED  BY <2>1 DEF EveryPushAccountedFor
<1>2. TypeOK /\ Numbered /\ EveryPushAccountedFor /\ [Next]_vars
          => EveryPushAccountedFor'
  <2> SUFFICES ASSUME TypeOK, Numbered, EveryPushAccountedFor, [Next]_vars
               PROVE  EveryPushAccountedFor'
    OBVIOUS
  <2>1. /\ \A p \in Producers, k \in Nat : k \in 1..sent[p] => Accounted(p, k)
        /\ \A m \in dropped : m.kind # KindClosed
    <3>1. \A p \in Producers : \A k \in 1..sent[p] : Accounted(p, k)
      BY DEF EveryPushAccountedFor, Accounted, Places, Losses
    <3>2. \A m \in dropped : m.kind # KindClosed
      BY DEF EveryPushAccountedFor, TypeOK, Message
    <3> QED  BY <3>1, <3>2
  <2>2. SUFFICES /\ \A p \in Producers, k \in Nat : k \in 1..sent'[p] => Accounted(p, k)'
                 /\ \A m \in dropped' : m.kind # KindClosed
    <3> SUFFICES ASSUME NEW p \in Producers, NEW k \in 1..sent'[p], Accounted(p, k)'
                 PROVE  Cardinality({i \in DOMAIN history' :
                                history'[i].src = p /\ history'[i].seq = k})
                        + Cardinality({m \in dropped' : m.src = p /\ m.seq = k}) = 1
      BY <2>2 DEF EveryPushAccountedFor
    <3> QED  BY DEF Accounted, Places, Losses
  <2>3. /\ history \in Seq(Message) /\ Len(history) \in Nat
        /\ sent \in [Producers -> Nat]
    BY ConcatProperties, LenProperties, MailboxAssumption DEF history, TypeOK
  <2>4. ASSUME NEW q \in Producers, NEW m \in Message, Enqueue(q, m),
               history' = Append(history, m)
        PROVE  /\ \A p \in Producers, k \in Nat : k \in 1..sent'[p] => Accounted(p, k)'
               /\ \A d \in dropped' : d.kind # KindClosed
    <3>1. /\ m.src = q /\ m.seq = sent[q] + 1
          /\ sent' = [sent EXCEPT ![q] = m.seq] /\ dropped' = dropped
      BY <2>4 DEF Enqueue
    <3>2. SUFFICES ASSUME NEW p \in Producers, NEW k \in Nat, k \in 1..sent'[p]
                   PROVE  Accounted(p, k)'
      BY <2>1, <3>1
    <3>3. Losses(p, k)' = Losses(p, k)
      BY <3>1 DEF Losses
    <3>4. CASE p = q /\ k = m.seq
      <4>1. Places(p, k) = {} /\ Losses(p, k) = {}
        BY <2>3, <3>1, <3>4, NothingYet
      <4>2. \A i \in DOMAIN history : ~(history[i].src = p /\ history[i].seq = k)
        BY <4>1 DEF Places
      <4>3. Places(p, k)' = {Len(history) + 1}
        BY <2>3, <2>4, <3>1, <3>4, <4>2, Appended DEF Places
      <4>4. Cardinality(Places(p, k)') = 1
        BY <4>3, FS_Singleton
      <4>5. Cardinality(Losses(p, k)') = 0
        BY <3>3, <4>1, FS_EmptySet
      <4> QED  BY <4>4, <4>5 DEF Accounted
    <3>5. CASE ~(p = q /\ k = m.seq)
      <4>1. Places(p, k)' = Places(p, k)
        BY <2>3, <2>4, <3>1, <3>5, Appended DEF Places
      <4>2. k \in 1..sent[p]
        BY <2>3, <3>1, <3>2, <3>5
      <4> QED  BY <2>1, <3>3, <4>1, <4>2 DEF Accounted
    <3> QED  BY <3>4, <3>5
  <2>5. ASSUME NEW q \in Producers, NEW m \in Message, TailDrop(q, m),
               history' = history
        PROVE  /\ \A p \in Producers, k \in Nat : k \in 1..sent'[p] => Accounted(p, k)'
               /\ \A d \in dropped' : d.kind # KindClosed
    <3>1. /\ m.src = q /\ m.seq = sent[q] + 1 /\ m.kind # KindClosed
          /\ sent' = [sent EXCEPT ![q] = m.seq] /\ dropped' = dropped \cup {m}
      BY <2>5 DEF TailDrop, Full
    <3>2. SUFFICES ASSUME NEW p \in Producers, NEW k \in Nat, k \in 1..sent'[p]
                   PROVE  Accounted(p, k)'
      BY <2>1, <3>1
    <3>3. Places(p, k)' = Places(p, k)
      BY <2>5 DEF Places
    <3>4. CASE p = q /\ k = m.seq
      <4>1. Places(p, k) = {} /\ Losses(p, k) = {}
        BY <2>3, <3>1, <3>4, NothingYet
      <4>2. Losses(p, k)' = {m}
        BY <3>1, <3>4, <4>1 DEF Losses
      <4>3. Cardinality(Losses(p, k)') = 1
        BY <4>2, FS_Singleton
      <4>4. Cardinality(Places(p, k)') = 0
        BY <3>3, <4>1, FS_EmptySet
      <4> QED  BY <4>3, <4>4 DEF Accounted
    <3>5. CASE ~(p = q /\ k = m.seq)
      <4>1. Losses(p, k)' = Losses(p, k)
        BY <3>1, <3>5 DEF Losses
      <4>2. k \in 1..sent[p]
        BY <2>3, <3>1, <3>2, <3>5
      <4> QED  BY <2>1, <3>3, <4>1, <4>2 DEF Accounted
    <3> QED  BY <3>4, <3>5
  <2>6. CASE UNCHANGED <<history, sent, dropped>>
    BY <2>1, <2>6 DEF Accounted, Places, Losses
  <2> QED  BY <2>4, <2>5, <2>6, HistoryMoves
<1> QED  BY <1>1, <1>2, TypeCorrect, NumberedHolds, PTL DEF Spec

-----------------------------------------------------------------------------

\* A recv that was called on a non-empty queue finds it non-empty, as nobody
\* else takes events: it cannot get to the select, and so not to a timeout.
FoundWaiting ==
    /\ rpc = "check" /\ ~emptyAtCall => queue # <<>>
    /\ rpc = "select" => emptyAtCall

LEMMA FoundWaitingHolds == Spec => []FoundWaiting
<1>1. Init => FoundWaiting
  BY DEF Init, FoundWaiting
<1>2. TypeOK /\ FoundWaiting /\ [Next]_vars => FoundWaiting'
  <2> SUFFICES ASSUME TypeOK, FoundWaiting, [Next]_vars PROVE FoundWaiting'
    OBVIOUS
  <2> USE DEF FoundWaiting
  <2>1. ASSUME NEW p \in Producers, NEW m \in Message, Enqueue(p, m)
        PROVE  FoundWaiting'
    <3>1. queue' # <<>> /\ rpc' = rpc /\ emptyAtCall' = emptyAtCall
      BY <2>1, AppendProperties DEF Enqueue, callVars, Pushed, TypeOK
    <3> QED  BY <3>1
  <2>2. ASSUME NEW p \in Producers, NEW m \in Message,
               TailDrop(p, m) \/ LogDrop(p) \/ Notify(p)
        PROVE  FoundWaiting'
    BY <2>2 DEF TailDrop, LogDrop, Notify, callVars
  <2>3. ASSUME NEW p \in Producers, LogDrop(p) \/ Notify(p) PROVE FoundWaiting'
    BY <2>3 DEF LogDrop, Notify, callVars
  <2>4. ASSUME NEW c \in Caps, NEW x \in Contexts, RecvCall(c, x)
        PROVE  FoundWaiting'
    BY <2>4, Zenon DEF RecvCall
  <2>5. CASE RecvDeliver \/ RecvTooSmall \/ RecvTimeout
    BY <2>5 DEF RecvDeliver, RecvTooSmall, RecvTimeout
  <2>6. CASE RecvEmpty \/ RecvWake
    BY <2>6, Zenon DEF RecvEmpty, RecvWake, callVars
  <2>7. CASE CtxDone
    BY <2>7 DEF CtxDone
  <2>8. CASE UNCHANGED vars
    BY <2>8 DEF vars, callVars
  <2> QED
    BY <2>1, <2>2, <2>3, <2>4, <2>5, <2>6, <2>7, <2>8 DEF Next, RecvStep
<1> QED  BY <1>1, <1>2, TypeCorrect, PTL DEF Spec

\* The safety half of ImplementsMailboxSpec: a push is one step of the
\* abstract mailbox although the code takes two, tokens and wake-ups are
\* stutters, and every way recv returns is one it allows.
THEOREM StepsImplementMailboxSpec ==
    Spec => Abstract!Init /\ [][Abstract!Next]_(Abstract!vars)
<1>1. Init => Abstract!Init
  BY DEF Init, Abstract!Init
<1>2. TypeOK /\ FoundWaiting /\ [Next]_vars => [Abstract!Next]_(Abstract!vars)
  <2> SUFFICES ASSUME TypeOK, FoundWaiting, [Next]_vars
               PROVE  Abstract!Next \/ UNCHANGED Abstract!vars
    OBVIOUS
  <2> USE DEF Abstract!Next, Abstract!vars
  <2>1. ASSUME NEW p \in Producers, NEW m \in Message, Enqueue(p, m)
        PROVE  Abstract!Next
    BY <2>1 DEF Enqueue, callVars, Abstract!Arrive, Abstract!Pushed, Abstract!Full,
                Abstract!KindClosed, Pushed, Full, KindClosed
  <2>2. ASSUME NEW p \in Producers, NEW m \in Message, TailDrop(p, m)
        PROVE  UNCHANGED Abstract!vars
    BY <2>2 DEF TailDrop, callVars
  <2>3. ASSUME NEW p \in Producers, LogDrop(p) \/ Notify(p)
        PROVE  UNCHANGED Abstract!vars
    BY <2>3 DEF LogDrop, Notify, callVars
  <2>4. ASSUME NEW c \in Caps, NEW x \in Contexts, RecvCall(c, x)
        PROVE  Abstract!Next
    BY <2>4 DEF RecvCall, Contexts, Abstract!Call
  <2>5. CASE RecvDeliver
    BY <2>5 DEF RecvDeliver, callVars, Abstract!Return, Abstract!Deliver
  <2>6. CASE RecvTooSmall
    BY <2>6 DEF RecvTooSmall, callVars, Abstract!Return, Abstract!Refuse
  <2>7. CASE RecvEmpty \/ RecvWake
    BY <2>7 DEF RecvEmpty, RecvWake, callVars
  <2>8. CASE RecvTimeout
    BY <2>8 DEF RecvTimeout, FoundWaiting, callVars, Abstract!Return, Abstract!GiveUp
  <2>9. CASE CtxDone
    BY <2>9 DEF CtxDone, Abstract!Expire
  <2>10. CASE UNCHANGED vars
    BY <2>10 DEF vars, callVars
  <2> QED
    BY <2>1, <2>2, <2>3, <2>4, <2>5, <2>6, <2>7, <2>8, <2>9, <2>10 DEF Next, RecvStep
<1> QED  BY <1>1, <1>2, TypeCorrect, FoundWaitingHolds, PTL DEF Spec
=============================================================================
