--------------------------- MODULE MessagingProofs ---------------------------
(***************************************************************************)
(* The messages for any number of receivers, destination numbers, messages, *)
(* crashes and any size of the sockets and mailboxes.                       *)
(***************************************************************************)
EXTENDS Messaging, SequenceTheorems, TLAPS

Stages == {"none", "backlog", "length", "payload", "discard", "push", "done"}

Typed ==
    /\ spc \in {"idle", "dial", "length", "payload", "dead"}
    /\ sent \in 0..MaxSend
    /\ cur.big \in BOOLEAN
    /\ spc \in {"dial", "length", "payload"} => cur.d \in Dests /\ sent \in Conns
    /\ conns \in [Dests -> 0..MaxSend]
    /\ stream \in [Conns -> Seq(Token)] /\ frame \in [Conns -> Seq(Token)]
    /\ sOpen \in [Conns -> BOOLEAN] /\ rOpen \in [Conns -> BOOLEAN]
    /\ peer \in [Conns -> Receivers \cup {CHOOSE r \in Receivers : TRUE}]
    /\ rpc \in [Conns -> Stages]
    /\ arrived \in [Receivers -> Seq(Seq(Token))]

-----------------------------------------------------------------------------
(* The sockets *)

\* What is known of connection k from the stage of the receiver's goroutine:
\* before the dial nothing of it exists, and afterwards nothing is left.
Socket(k) ==
    /\ rOpen[k] <=> rpc[k] \notin {"none", "done"}
    /\ rpc[k] = "none" => ~sOpen[k]
    /\ rpc[k] # "none" => k <= sent /\ (spc = "dial" => k # sent) /\ peer[k] \in Receivers
    /\ ~rOpen[k] => stream[k] = <<>> /\ frame[k] = <<>>

\* A connection is in the table under one number only, and a send in progress
\* has one exactly when it is past the dial.
Table ==
    /\ \A d, e \in Dests : conns[d] = conns[e] /\ conns[d] # NoConn => d = e
    /\ spc = "dial" => conns[cur.d] = NoConn
    /\ spc \in {"length", "payload"} => conns[cur.d] # NoConn

Sockets == Typed /\ (\A k \in Conns : Socket(k)) /\ Table /\ TableMatchesSockets

-----------------------------------------------------------------------------
(* The frames on their way *)

\* What was written to connection k and has neither reached the mailbox nor
\* been thrown away.  Reading moves the border between the two parts only.
Pending(k) == frame[k] \o stream[k]

\* s consists of frames in the order they were sent, the last one perhaps
\* without its payload.
FrameSeq(s) ==
    /\ s # <<>> => s[1].part = "length"
    /\ \A i \in 1..(Len(s) - 1) :
           IF s[i].part = "length"
           THEN s[i + 1].part = "payload" /\ s[i + 1].n = s[i].n
           ELSE s[i + 1].part = "length" /\ s[i].n < s[i + 1].n

\* s ends within a frame.
Unfinished(s) == s # <<>> /\ s[Len(s)].part = "length"

\* The sender is between the two Writes of a frame to connection k.
MidFrame(k) == spc = "payload" /\ conns[cur.d] = k

\* The number of the last message of which anything can have been written.
Begun == IF spc \in {"dial", "length"} THEN sent - 1 ELSE sent

\* Where the receiver's goroutine is in the frame at the front.
InStep(k) ==
    /\ rpc[k] \in {"backlog", "length"} => frame[k] = <<>>
    /\ rpc[k] \in {"payload", "discard"} => Len(frame[k]) = 1
    /\ rpc[k] = "push" => Len(frame[k]) = 2
    /\ rpc[k] \in {"payload", "push"} => ~frame[k][1].big

\* What is pending on connection k is a sequence of frames, which is
\* unfinished exactly while the sender is between its two Writes, or has
\* closed its end there.
Framed(k) ==
    /\ InStep(k)
    /\ FrameSeq(Pending(k))
    /\ \A i \in 1..Len(Pending(k)) : Pending(k)[i].n <= Begun
    /\ rOpen[k] /\ sOpen[k] =>
           /\ Unfinished(Pending(k)) <=> MidFrame(k)
           /\ MidFrame(k) => Pending(k)[Len(Pending(k))].n = sent

Framing == (\A k \in Conns : Framed(k)) /\ FrameIntegrity

\* All that is on its way on a connection, or has arrived, was sent to the ID
\* it leads to.
SentTo(r) == {t \in Token : t.to = r}
Addressed ==
    /\ \A k \in Conns : /\ frame[k] \in Seq(SentTo(peer[k]))
                        /\ stream[k] \in Seq(SentTo(peer[k]))
    /\ \A r \in Receivers : arrived[r] \in Seq(Seq(SentTo(r)))

-----------------------------------------------------------------------------
(* The order of the frames, if no ID has two numbers *)

OneNumberPerID == \A d, e \in Dests : Assign[d] = Assign[e] => d = e

\* While the sender lives it has not closed a connection that is still read,
\* and a receiver never reads two.
OneReader ==
    /\ \A k \in Conns : rOpen[k] /\ spc # "dead" => sOpen[k]
    /\ \A j, k \in Conns : rOpen[j] /\ rOpen[k] /\ peer[j] = peer[k] => j = k

\* What has arrived was begun, and sent before all that is pending.
Ahead ==
    /\ \A r \in Receivers : \A i \in 1..Len(arrived[r]) : arrived[r][i][1].n <= Begun
    /\ \A k \in Conns : rOpen[k] /\ Pending(k) # <<>> =>
           \A i \in 1..Len(arrived[peer[k]]) : arrived[peer[k]][i][1].n < Pending(k)[1].n

Ordering == OneReader /\ Ahead /\ SenderOrder

-----------------------------------------------------------------------------
(* The steps *)

\* The variables the invariants speak of.
net == <<spc, sent, cur, conns, connVars, arrived>>

\* A step of a receiver's guest, or of its process coming up.
Aside == \E r \in Receivers : GuestRecv(r) \/ AcceptFails(r) \/ Start(r)

LEMMA AsideLeavesNet == Aside \/ UNCHANGED vars => UNCHANGED net
BY DEF Aside, GuestRecv, AcceptFails, Start, vars, net, recvVars

\* The alternatives of a step.
LEMMA Steps ==
    ASSUME [Next]_vars
    PROVE  \/ \E d \in Dests, big \in BOOLEAN : Send(d, big)
           \/ Dial
           \/ WritePart("length", "payload") \/ WritePart("payload", "idle")
           \/ WriteFails \/ SenderEnds
           \/ \E k \in Conns : Accept(k) \/ ReadLength(k) \/ ReadPayload(k)
                  \/ DiscardPayload(k) \/ ReadFails(k) \/ PushFrame(k)
           \/ \E r \in Receivers : Crash(r)
           \/ UNCHANGED net
BY AsideLeavesNet DEF Next, SendStep, ReceiveStep, WriteFrame, Aside

LEMMA Constants ==
    /\ MaxSend \in Nat /\ Conns = 1..MaxSend /\ Conns \subseteq Nat
    /\ NoConn = 0 /\ NoConn \notin Conns
    /\ Assign \in [Dests -> Receivers]
    /\ \A t \in Token : /\ t.n \in Conns /\ t.part \in {"length", "payload"}
                        /\ t.big \in BOOLEAN /\ t.to \in Receivers
BY MessagingAssumption DEF Conns, Messages, NoConn, Token

\* The connection a send writes to is one that was dialled, and open.
LEMMA InUse ==
    ASSUME Sockets, spc \in {"length", "payload"}
    PROVE  /\ cur.d \in Dests /\ conns[cur.d] \in Conns /\ sOpen[conns[cur.d]]
           /\ sent \in Conns
<1>1. conns[cur.d] # NoConn /\ cur.d \in Dests /\ conns[cur.d] \in 0..MaxSend /\ sent \in Conns
  BY DEF Sockets, Table, Typed
<1>2. sOpen[conns[cur.d]]
  BY <1>1 DEF Sockets, TableMatchesSockets
<1> QED  BY <1>1, <1>2, Constants

LEMMA TypedStep == ASSUME Sockets, [Next]_vars PROVE Typed'
<1>1. Typed
  BY DEF Sockets
<1>2. ASSUME NEW d \in Dests, NEW big \in BOOLEAN, Send(d, big) PROVE Typed'
  BY <1>1, <1>2, Constants DEF Typed, Send, connVars, recvVars
<1>3. CASE Dial
  <2>1. cur.d \in Dests /\ sent \in Conns /\ sent \in 0..MaxSend /\ Assign[cur.d] \in Receivers
    BY <1>1, <1>3, Constants DEF Typed, Dial
  <2>2. UNCHANGED <<sent, cur, stream, frame, recvVars>>
    BY <1>3 DEF Dial
  <2>3. CASE UNCHANGED <<conns, peer, sOpen, rOpen, rpc>> /\ spc' = "idle"
    BY <1>1, <2>2, <2>3 DEF Typed, recvVars
  <2>4. CASE /\ conns' = [conns EXCEPT ![cur.d] = sent]
             /\ peer' = [peer EXCEPT ![sent] = Assign[cur.d]]
             /\ sOpen' = [sOpen EXCEPT ![sent] = TRUE]
             /\ rOpen' = [rOpen EXCEPT ![sent] = TRUE]
             /\ rpc' = [rpc EXCEPT ![sent] = "backlog"]
             /\ spc' = "length"
    <3>1. conns' \in [Dests -> 0..MaxSend]
      BY <1>1, <2>1, <2>4 DEF Typed
    <3>2. sOpen' \in [Conns -> BOOLEAN] /\ rOpen' \in [Conns -> BOOLEAN]
      BY <1>1, <2>4 DEF Typed
    <3>3. peer' \in [Conns -> Receivers \cup {CHOOSE r \in Receivers : TRUE}]
      BY <1>1, <2>1, <2>4 DEF Typed
    <3>4. rpc' \in [Conns -> Stages]
      BY <1>1, <2>4 DEF Typed, Stages
    <3> QED  BY <1>1, <2>1, <2>2, <2>4, <3>1, <3>2, <3>3, <3>4 DEF Typed, recvVars
  <2> QED  BY <1>3, <2>3, <2>4 DEF Dial
<1>4. ASSUME NEW part \in {"length", "payload"}, NEW next \in {"payload", "idle"},
             WritePart(part, next)
      PROVE  Typed'
  <2> DEFINE t == [n |-> sent, part |-> part, big |-> part = "length" /\ cur.big,
                    to |-> Assign[cur.d]]
             k == conns[cur.d]
  <2>1. k \in Conns /\ sent \in Conns /\ cur.d \in Dests
    BY <1>4, InUse DEF WritePart, WriteTo
  <2>2. t \in Token
    <3>1. (part = "length" /\ cur.big) \in BOOLEAN
      OBVIOUS
    <3> QED  BY <2>1, <3>1, Constants DEF Token, Conns
  <2>3. stream' = [stream EXCEPT ![k] = Append(stream[k], t)] /\ spc' = next
    BY <1>4 DEF WritePart, WriteTo
  <2> HIDE DEF t, k
  <2>4. stream[k] \in Seq(Token)
    BY <1>1, <2>1 DEF Typed
  <2>5. Append(stream[k], t) \in Seq(Token)
    BY <2>2, <2>4
  <2>6. stream' \in [Conns -> Seq(Token)]
    BY <1>1, <2>1, <2>3, <2>5 DEF Typed
  <2> QED  BY <1>1, <1>4, <2>1, <2>3, <2>6 DEF Typed, WritePart, WriteTo, recvVars
<1>5. CASE WriteFails
  <2>1. conns[cur.d] \in Conns
    BY <1>5, InUse DEF WriteFails
  <2> QED  BY <1>1, <1>5, <2>1, Constants, SMTT(30) DEF Typed, WriteFails, recvVars
<1>6. CASE SenderEnds
  BY <1>1, <1>6, Constants DEF Typed, SenderEnds, recvVars
<1>7. ASSUME NEW k \in Conns, Accept(k) PROVE Typed'
  BY <1>1, <1>7 DEF Typed, Accept, Goto, Stages, recvVars
<1>8. ASSUME NEW k \in Conns, Take(k)
      PROVE  /\ Head(stream[k]) \in Token /\ Tail(stream[k]) \in Seq(Token)
             /\ stream' \in [Conns -> Seq(Token)]
  <2>1. stream[k] \in Seq(Token) /\ stream[k] # <<>>
    BY <1>1, <1>8 DEF Typed, Take
  <2>2. Head(stream[k]) \in Token /\ Tail(stream[k]) \in Seq(Token)
    BY <2>1
  <2> QED  BY <1>1, <1>8, <2>2 DEF Typed, Take
<1>9. ASSUME NEW k \in Conns, ReadLength(k) \/ ReadPayload(k) \/ DiscardPayload(k)
      PROVE  Typed'
  <2>1. Take(k)
    BY <1>9 DEF ReadLength, ReadPayload, DiscardPayload
  <2>2. frame' \in [Conns -> Seq(Token)]
    <3>1. frame[k] \in Seq(Token) /\ Head(stream[k]) \in Token /\ <<>> \in Seq(Token)
      BY <1>1, <1>8, <2>1 DEF Typed
    <3>2. <<Head(stream[k])>> \in Seq(Token) /\ Append(frame[k], Head(stream[k])) \in Seq(Token)
      BY <3>1
    <3> QED  BY <1>1, <1>9, <3>1, <3>2 DEF Typed, ReadLength, ReadPayload, DiscardPayload
  <2>3. rpc' \in [Conns -> Stages]
    BY <1>1, <1>9 DEF Typed, ReadLength, ReadPayload, DiscardPayload, Goto, Stages
  <2>4. stream' \in [Conns -> Seq(Token)]
    BY <1>8, <2>1
  <2>5. UNCHANGED <<spc, sent, cur, conns, sOpen, rOpen, peer, recvVars>>
    BY <1>9 DEF ReadLength, ReadPayload, DiscardPayload
  <2> QED  BY <1>1, <2>2, <2>3, <2>4, <2>5 DEF Typed, recvVars
<1>10. ASSUME NEW k \in Conns, ReadFails(k) PROVE Typed'
  BY <1>1, <1>10 DEF Typed, ReadFails, Goto, Stages, recvVars
<1>11. ASSUME NEW k \in Conns, PushFrame(k) PROVE Typed'
  <2>1. frame[k] \in Seq(Token) /\ <<>> \in Seq(Token)
    BY <1>1 DEF Typed
  <2>2. ASSUME peer[k] \in Receivers
        PROVE  Append(arrived[peer[k]], frame[k]) \in Seq(Seq(Token))
    BY <1>1, <2>1, <2>2 DEF Typed
  <2>3. rpc[k] # "none"
    BY <1>11 DEF PushFrame
  <2>4. peer[k] \in Receivers
    BY <2>3 DEF Sockets, Socket
  <2>5. arrived' \in [Receivers -> Seq(Seq(Token))]
    BY <1>1, <1>11, <2>2, <2>4 DEF Typed, PushFrame
  <2>6. frame' \in [Conns -> Seq(Token)] /\ rpc' \in [Conns -> Stages]
    BY <1>1, <1>11, <2>1 DEF Typed, PushFrame, Goto, Stages
  <2> QED  BY <1>1, <1>11, <2>5, <2>6 DEF Typed, PushFrame
<1>12. ASSUME NEW r \in Receivers, Crash(r) PROVE Typed'
  <2>1. <<>> \in Seq(Token)
    OBVIOUS
  <2> QED  BY <1>1, <1>12, <2>1 DEF Typed, Crash, Stages
<1>13. CASE UNCHANGED net
  BY <1>1, <1>13 DEF Typed, net, connVars
<1> QED
  BY <1>2, <1>3, <1>4, <1>5, <1>6, <1>7, <1>9, <1>10, <1>11, <1>12, <1>13, Steps

LEMMA SocketStep ==
    ASSUME Sockets, [Next]_vars, NEW j \in Conns
    PROVE  Socket(j)'
<1>1. Typed /\ Socket(j) /\ j \in Nat
  BY Constants DEF Sockets
<1>2. ASSUME NEW d \in Dests, NEW big \in BOOLEAN, Send(d, big) PROVE Socket(j)'
  BY <1>1, <1>2 DEF Typed, Socket, Send, connVars
<1>3. CASE Dial
  <2>1. cur.d \in Dests /\ sent \in Conns /\ sent \in Nat /\ Assign[cur.d] \in Receivers
    BY <1>1, <1>3, Constants DEF Typed, Dial
  <2>2. spc = "dial" /\ UNCHANGED <<sent, stream, frame>>
    BY <1>3 DEF Dial
  <2>3. CASE UNCHANGED <<peer, sOpen, rOpen, rpc>> /\ spc' = "idle"
    BY <1>1, <2>2, <2>3 DEF Socket
  <2>4. CASE /\ peer' = [peer EXCEPT ![sent] = Assign[cur.d]]
             /\ sOpen' = [sOpen EXCEPT ![sent] = TRUE]
             /\ rOpen' = [rOpen EXCEPT ![sent] = TRUE]
             /\ rpc' = [rpc EXCEPT ![sent] = "backlog"]
             /\ spc' = "length"
    <3>1. CASE j = sent
      <4>1. peer'[j] = Assign[cur.d] /\ sOpen'[j] /\ rOpen'[j] /\ rpc'[j] = "backlog"
        BY <1>1, <2>4, <3>1 DEF Typed
      <4> QED  BY <2>1, <2>2, <2>4, <3>1, <4>1 DEF Socket
    <3>2. CASE j # sent
      <4>1. peer'[j] = peer[j] /\ sOpen'[j] = sOpen[j] /\ rOpen'[j] = rOpen[j] /\ rpc'[j] = rpc[j]
        BY <1>1, <2>4, <3>2 DEF Typed
      <4> QED  BY <1>1, <2>2, <2>4, <4>1 DEF Socket
    <3> QED  BY <3>1, <3>2
  <2> QED  BY <1>3, <2>3, <2>4 DEF Dial
<1>4. ASSUME NEW part \in {"length", "payload"}, NEW next \in {"payload", "idle"},
             WritePart(part, next)
      PROVE  Socket(j)'
  <2>1. /\ conns[cur.d] \in Conns /\ rOpen[conns[cur.d]]
        /\ spc' # "dial" /\ UNCHANGED <<sent, sOpen, rOpen, peer, rpc, frame>>
    BY <1>4, InUse DEF WritePart, WriteTo
  <2>2. j # conns[cur.d] => stream'[j] = stream[j]
    BY <1>1, <1>4 DEF WritePart, WriteTo, Typed
  <2> QED  BY <1>1, <2>1, <2>2 DEF Socket
<1>5. CASE WriteFails
  <2>1. conns[cur.d] \in Conns /\ spc' # "dial"
    BY <1>5, InUse DEF WriteFails
  <2>2. sOpen'[j] => sOpen[j]
    BY <1>1, <1>5, <2>1 DEF WriteFails, Typed
  <2> QED  BY <1>1, <1>5, <2>1, <2>2 DEF Socket, WriteFails
<1>6. CASE SenderEnds
  BY <1>1, <1>6 DEF Typed, Socket, SenderEnds
<1>7. ASSUME NEW k \in Conns, Accept(k) PROVE Socket(j)'
  <2>1. rpc'[j] # rpc[j] => rpc[j] = "backlog" /\ rpc'[j] = "length"
    BY <1>1, <1>7 DEF Typed, Accept, Goto
  <2> QED  BY <1>1, <1>7, <2>1 DEF Socket, Accept
<1>8. ASSUME NEW k \in Conns, ReadLength(k) \/ ReadPayload(k) \/ DiscardPayload(k)
      PROVE  Socket(j)'
  <2>1. /\ rpc[k] \notin {"none", "done"} /\ stream[k] # <<>>
        /\ UNCHANGED <<spc, sent, cur, conns, sOpen, rOpen, peer, recvVars>>
    BY <1>8 DEF ReadLength, ReadPayload, DiscardPayload, Take
  <2>2. j # k => stream'[j] = stream[j] /\ frame'[j] = frame[j] /\ rpc'[j] = rpc[j]
    BY <1>1, <1>8 DEF Typed, ReadLength, ReadPayload, DiscardPayload, Take, Goto
  <2>3. rpc'[k] \notin {"none", "done"}
    BY <1>1, <1>8 DEF Typed, ReadLength, ReadPayload, DiscardPayload, Goto
  <2> QED  BY <1>1, <2>1, <2>2, <2>3 DEF Socket
<1>9. ASSUME NEW k \in Conns, ReadFails(k) PROVE Socket(j)'
  <2>1. /\ rpc[k] \notin {"none", "done"} /\ stream[k] = <<>>
        /\ rpc'[k] = "done" /\ ~rOpen'[k] /\ frame'[k] = <<>>
    BY <1>1, <1>9 DEF Typed, ReadFails, Goto
  <2>2. UNCHANGED <<spc, sent, stream, sOpen, peer>>
    BY <1>9 DEF ReadFails
  <2>3. j # k => rOpen'[j] = rOpen[j] /\ frame'[j] = frame[j] /\ rpc'[j] = rpc[j]
    BY <1>1, <1>9 DEF Typed, ReadFails, Goto
  <2> QED  BY <1>1, <2>1, <2>2, <2>3 DEF Socket
<1>10. ASSUME NEW k \in Conns, PushFrame(k) PROVE Socket(j)'
  <2>1. rpc[k] = "push" /\ rpc'[k] = "length" /\ frame'[k] = <<>>
    BY <1>1, <1>10 DEF Typed, PushFrame, Goto
  <2>2. UNCHANGED <<spc, sent, stream, sOpen, rOpen, peer>>
    BY <1>10 DEF PushFrame
  <2>3. j # k => frame'[j] = frame[j] /\ rpc'[j] = rpc[j]
    BY <1>1, <1>10 DEF Typed, PushFrame, Goto
  <2> QED  BY <1>1, <2>1, <2>2, <2>3 DEF Socket
<1>11. ASSUME NEW r \in Receivers, Crash(r) PROVE Socket(j)'
  <2>1. UNCHANGED <<spc, sent, sOpen, peer>>
    BY <1>11 DEF Crash
  <2>2. CASE peer[j] = r /\ rOpen[j]
    <3>1. rpc'[j] = "done" /\ ~rOpen'[j] /\ stream'[j] = <<>> /\ frame'[j] = <<>>
      BY <1>11, <2>2 DEF Crash
    <3> QED  BY <1>1, <2>1, <2>2, <3>1 DEF Socket
  <2>3. CASE ~(peer[j] = r /\ rOpen[j])
    <3>1. /\ rpc'[j] = rpc[j] /\ stream'[j] = stream[j] /\ frame'[j] = frame[j]
          /\ rOpen'[j] <=> rOpen[j]
      BY <1>11, <2>3 DEF Crash
    <3> QED  BY <1>1, <2>1, <3>1 DEF Socket
  <2> QED  BY <2>2, <2>3
<1>12. CASE UNCHANGED net
  BY <1>1, <1>12 DEF Socket, net, connVars
<1> QED
  BY <1>2, <1>3, <1>4, <1>5, <1>6, <1>7, <1>8, <1>9, <1>10, <1>11, <1>12, Steps

\* The steps that leave the sender's side of the connections alone.
LEMMA SenderSide ==
    ASSUME [Next]_vars
    PROVE  \/ \E d \in Dests, big \in BOOLEAN : Send(d, big)
           \/ Dial \/ WriteFails \/ SenderEnds
           \/ /\ UNCHANGED <<sent, cur, conns, sOpen, peer>>
              /\ \/ UNCHANGED spc
                 \/ spc \in {"length", "payload"} /\ spc' \in {"payload", "idle"}
<1>1. ASSUME NEW k \in Conns, Accept(k) \/ ReadLength(k) \/ ReadPayload(k)
                  \/ DiscardPayload(k) \/ ReadFails(k) \/ PushFrame(k)
      PROVE  UNCHANGED <<spc, sent, cur, conns, sOpen, peer>>
  BY <1>1 DEF Accept, ReadLength, ReadPayload, DiscardPayload, ReadFails, PushFrame
<1>2. ASSUME NEW r \in Receivers, Crash(r) PROVE UNCHANGED <<spc, sent, cur, conns, sOpen, peer>>
  BY <1>2 DEF Crash
<1>3. UNCHANGED net => UNCHANGED <<spc, sent, cur, conns, sOpen, peer>>
  BY DEF net, connVars
<1>4. WritePart("length", "payload") \/ WritePart("payload", "idle")
      => /\ UNCHANGED <<sent, cur, conns, sOpen, peer>>
         /\ spc \in {"length", "payload"} /\ spc' \in {"payload", "idle"}
  BY DEF WritePart, WriteTo
<1> QED  BY <1>1, <1>2, <1>3, <1>4, Steps

LEMMA TableStep ==
    ASSUME Sockets, [Next]_vars
    PROVE  Table' /\ TableMatchesSockets'
<1>1. Typed /\ Table /\ TableMatchesSockets
  BY DEF Sockets
<1>2. ASSUME NEW d \in Dests, NEW big \in BOOLEAN, Send(d, big)
      PROVE  Table' /\ TableMatchesSockets'
  BY <1>1, <1>2 DEF Table, TableMatchesSockets, Send, connVars
<1>3. CASE Dial
  <2>1. cur.d \in Dests /\ sent \in Conns /\ sent # NoConn /\ conns[cur.d] = NoConn
    BY <1>1, <1>3, Constants DEF Typed, Dial, Table
  <2>2. spc = "dial" /\ UNCHANGED <<sent, cur>>
    BY <1>3 DEF Dial
  <2>3. CASE UNCHANGED <<conns, peer, sOpen>> /\ spc' = "idle"
    BY <1>1, <2>2, <2>3 DEF Table, TableMatchesSockets
  <2>4. CASE /\ conns' = [conns EXCEPT ![cur.d] = sent]
             /\ peer' = [peer EXCEPT ![sent] = Assign[cur.d]]
             /\ sOpen' = [sOpen EXCEPT ![sent] = TRUE]
             /\ spc' = "length"
    <3>1. ~sOpen[sent]
      BY <2>1, <2>2 DEF Sockets, Socket
    <3>2. \A d \in Dests : conns[d] # sent
      BY <1>1, <2>1, <3>1 DEF TableMatchesSockets
    <3>3. \A d \in Dests : conns'[d] = IF d = cur.d THEN sent ELSE conns[d]
      BY <1>1, <2>1, <2>4 DEF Typed
    <3>4. \A k \in Conns : /\ peer'[k] = IF k = sent THEN Assign[cur.d] ELSE peer[k]
                           /\ k # sent => sOpen'[k] = sOpen[k]
      BY <1>1, <2>1, <2>4 DEF Typed
    <3>5. sOpen'[sent]
      BY <1>1, <2>1, <2>4 DEF Typed
    <3>6. \A d \in Dests : conns[d] # NoConn => conns[d] \in Conns
      BY <1>1, Constants DEF Typed
    <3>7. Table'
      BY <1>1, <2>1, <2>2, <2>4, <3>2, <3>3 DEF Table
    <3>8. \A d \in Dests : conns'[d] # NoConn => sOpen'[conns'[d]] /\ peer'[conns'[d]] = Assign[d]
      BY <1>1, <2>1, <3>2, <3>3, <3>4, <3>5, <3>6 DEF TableMatchesSockets
    <3>9. ASSUME NEW k \in Conns, sOpen'[k] PROVE \E d \in Dests : conns'[d] = k
      <4>1. CASE k = sent
        BY <2>1, <3>3, <4>1
      <4>2. CASE k # sent
        <5>1. PICK d \in Dests : conns[d] = k
          BY <1>1, <3>4, <3>9, <4>2 DEF TableMatchesSockets
        <5>2. d # cur.d
          BY <2>1, <5>1, Constants
        <5> QED  BY <3>3, <5>1, <5>2
      <4> QED  BY <4>1, <4>2
    <3> QED  BY <3>7, <3>8, <3>9 DEF TableMatchesSockets
  <2> QED  BY <1>3, <2>3, <2>4 DEF Dial
<1>4. CASE WriteFails
  <2>1. cur.d \in Dests /\ conns[cur.d] \in Conns
    BY <1>4, InUse DEF WriteFails
  <2>2. /\ spc' = "idle" /\ UNCHANGED peer
        /\ \A d \in Dests : conns'[d] = IF d = cur.d THEN NoConn ELSE conns[d]
    BY <1>1, <1>4, <2>1 DEF Typed, WriteFails
  <2>3. \A k \in Conns : /\ k # conns[cur.d] => sOpen'[k] = sOpen[k]
                         /\ k = conns[cur.d] => ~sOpen'[k]
    BY <1>1, <1>4, <2>1 DEF Typed, WriteFails
  <2>4. \A d \in Dests : conns[d] # NoConn => conns[d] \in Conns
    BY <1>1, Constants DEF Typed
  <2>5. Table'
    BY <1>1, <2>2 DEF Table
  <2>6. ASSUME NEW d \in Dests, conns'[d] # NoConn
        PROVE  sOpen'[conns'[d]] /\ peer'[conns'[d]] = Assign[d]
    <3>1. d # cur.d /\ conns'[d] = conns[d] /\ conns[d] # NoConn
      BY <2>2, <2>6
    <3>2. conns[d] # conns[cur.d]
      BY <1>1, <2>1, <3>1 DEF Table
    <3> QED  BY <1>1, <2>2, <2>3, <2>4, <3>1, <3>2 DEF TableMatchesSockets
  <2>7. ASSUME NEW k \in Conns, sOpen'[k] PROVE \E d \in Dests : conns'[d] = k
    <3>1. k # conns[cur.d] /\ sOpen[k]
      BY <2>3, <2>7
    <3>2. PICK d \in Dests : conns[d] = k
      BY <1>1, <3>1 DEF TableMatchesSockets
    <3> QED  BY <2>2, <3>1, <3>2
  <2> QED  BY <2>5, <2>6, <2>7 DEF TableMatchesSockets
<1>5. CASE SenderEnds
  BY <1>1, <1>5 DEF Table, TableMatchesSockets, SenderEnds
<1>6. CASE /\ UNCHANGED <<sent, cur, conns, sOpen, peer>>
           /\ \/ UNCHANGED spc
              \/ spc \in {"length", "payload"} /\ spc' \in {"payload", "idle"}
  BY <1>1, <1>6 DEF Table, TableMatchesSockets
<1> QED  BY <1>2, <1>3, <1>4, <1>5, <1>6, SenderSide

LEMMA SocketsAlways == Spec => []Sockets
<1>1. Init => Sockets
  <2> SUFFICES ASSUME Init PROVE Sockets
    OBVIOUS
  <2>1. Typed
    <3>1. <<>> \in Seq(Token) /\ <<>> \in Seq(Seq(Token)) /\ 0 \in 0..MaxSend
      BY Constants
    <3> QED  BY <3>1 DEF Init, Typed, Stages, NoConn
  <2> QED  BY <2>1 DEF Init, Sockets, Socket, Table, TableMatchesSockets
<1>2. Sockets /\ [Next]_vars => Sockets'
  BY TypedStep, SocketStep, TableStep DEF Sockets
<1> QED  BY <1>1, <1>2, PTL DEF Spec

\* The table holds exactly the sender's open sockets, one per number, each
\* leading to the ID of that number (dest.go:44-60, Close), for any number of
\* destinations and messages.
THEOREM TableExact == Spec => []TableMatchesSockets
<1>1. Sockets => TableMatchesSockets
  BY DEF Sockets
<1> QED  BY <1>1, SocketsAlways, PTL

-----------------------------------------------------------------------------
(* Sequences of frames *)

\* Reading a token moves it from the stream to the end of what was read.
LEMMA TakeKeeps ==
    ASSUME NEW S, NEW f \in Seq(S), NEW s \in Seq(S), s # <<>>
    PROVE  Append(f, Head(s)) \o Tail(s) = f \o s
<1> DEFINE g == Append(f, Head(s))
           t == Tail(s)
<1>1. /\ Head(s) \in S /\ Head(s) = s[1] /\ t \in Seq(S) /\ Len(t) = Len(s) - 1
      /\ \A i \in 1..Len(t) : t[i] = s[i + 1]
  <2>1. Head(s) = s[1]
    OBVIOUS
  <2> QED  BY <2>1, HeadTailProperties
<1>2. /\ g \in Seq(S) /\ Len(g) = Len(f) + 1 /\ g[Len(f) + 1] = s[1]
      /\ \A i \in 1..Len(f) : g[i] = f[i]
  BY <1>1, AppendProperties
<1>3. Len(f) \in Nat /\ Len(s) \in Nat
  BY LenProperties
<1> HIDE DEF g, t
<1>4. /\ g \o t \in Seq(S) /\ Len(g \o t) = Len(g) + Len(t)
      /\ \A i \in 1..(Len(g) + Len(t)) :
             (g \o t)[i] = IF i <= Len(g) THEN g[i] ELSE t[i - Len(g)]
  BY <1>1, <1>2, ConcatProperties
<1>5. /\ f \o s \in Seq(S) /\ Len(f \o s) = Len(f) + Len(s)
      /\ \A i \in 1..(Len(f) + Len(s)) :
             (f \o s)[i] = IF i <= Len(f) THEN f[i] ELSE s[i - Len(f)]
  BY ConcatProperties
<1>6. ASSUME NEW i \in 1..Len(g \o t) PROVE (g \o t)[i] = (f \o s)[i]
  <2>1. /\ i \in Nat /\ i >= 1 /\ i <= Len(f) + Len(s)
        /\ (g \o t)[i] = IF i <= Len(g) THEN g[i] ELSE t[i - Len(g)]
        /\ (f \o s)[i] = IF i <= Len(f) THEN f[i] ELSE s[i - Len(f)]
    BY <1>1, <1>2, <1>3, <1>4, <1>5
  <2>2. CASE i <= Len(f)
    BY <1>2, <1>3, <2>1, <2>2
  <2>3. CASE i = Len(f) + 1
    BY <1>2, <1>3, <2>1, <2>3
  <2>4. CASE i > Len(f) + 1
    <3>1. i - Len(g) \in 1..Len(t) /\ (i - Len(g)) + 1 = i - Len(f)
      BY <1>1, <1>2, <1>3, <2>1, <2>4
    <3>2. ~(i <= Len(g)) /\ ~(i <= Len(f))
      BY <1>2, <1>3, <2>1, <2>4
    <3>3. t[i - Len(g)] = s[(i - Len(g)) + 1]
      BY <1>1, <3>1
    <3> QED  BY <2>1, <3>1, <3>2, <3>3
  <2> QED  BY <1>3, <2>1, <2>2, <2>3, <2>4
<1>7. Len(g \o t) = Len(f \o s)
  BY <1>1, <1>2, <1>3, <1>4, <1>5
<1> QED  BY <1>4, <1>5, <1>6, <1>7, SeqEqual DEF g, t

\* Writing a token appends it to all that is pending.
LEMMA WriteAppends ==
    ASSUME NEW S, NEW f \in Seq(S), NEW s \in Seq(S), NEW e \in S
    PROVE  f \o Append(s, e) = Append(f \o s, e)
<1>1. <<e>> \in Seq(S)
  OBVIOUS
<1>2. f \o (s \o <<e>>) = (f \o s) \o <<e>>
  BY <1>1, ConcatAssociative
<1>3. f \o s \in Seq(S)
  BY ConcatProperties
<1> QED  BY <1>2, <1>3, AppendIsConcat

LEMMA Growing ==
    /\ \A f, s \in Seq(Token) :
           s # <<>> => Append(f, Head(s)) \o Tail(s) = f \o s
    /\ \A f, s \in Seq(Token), e \in Token :
           f \o Append(s, e) = Append(f \o s, e)
    /\ \A f \in Seq(Token), e \in Token :
           /\ Append(f, e) \in Seq(Token) /\ Len(Append(f, e)) = Len(f) + 1
           /\ Len(f) >= 1 => Append(f, e)[1] = f[1]
<1>1. ASSUME NEW f \in Seq(Token), NEW e \in Token
      PROVE  /\ Append(f, e) \in Seq(Token) /\ Len(Append(f, e)) = Len(f) + 1
             /\ Len(f) >= 1 => Append(f, e)[1] = f[1]
  BY AppendProperties, LenProperties
<1> QED  BY <1>1, TakeKeeps, WriteAppends

\* A token that continues the last frame, or begins one after it.
LEMMA FrameGrows ==
    ASSUME NEW s \in Seq(Token), NEW e \in Token, FrameSeq(s),
           \/ e.part = "length" /\ ~Unfinished(s) /\ (s # <<>> => s[Len(s)].n < e.n)
           \/ e.part = "payload" /\ Unfinished(s) /\ s[Len(s)].n = e.n
    PROVE  /\ FrameSeq(Append(s, e))
           /\ Append(s, e) # <<>>
           /\ Append(s, e)[Len(Append(s, e))] = e
           /\ Unfinished(Append(s, e)) <=> e.part = "length"
           /\ Append(s, e)[1] = IF s = <<>> THEN e ELSE s[1]
           /\ \A i \in 1..Len(Append(s, e)) :
                  Append(s, e)[i] = e \/ (i \in 1..Len(s) /\ Append(s, e)[i] = s[i])
<1> DEFINE a == Append(s, e)
<1>1. /\ Len(s) \in Nat /\ Len(a) = Len(s) + 1 /\ a # <<>>
      /\ a[Len(s) + 1] = e /\ \A i \in 1..Len(s) : a[i] = s[i]
  BY AppendProperties, LenProperties
<1>2. s = <<>> <=> Len(s) = 0
  BY EmptySeq
<1>3. \A i \in 1..Len(s) : s[i] \in Token
  BY ElementOfSeq
<1> HIDE DEF a
<1>4. a[1] = IF s = <<>> THEN e ELSE s[1]
  BY <1>1, <1>2
<1>5. a[Len(a)] = e
  BY <1>1
<1>6. a[1].part = "length"
  BY <1>4 DEF FrameSeq, Unfinished
<1>7. ASSUME NEW i \in 1..(Len(a) - 1)
      PROVE  IF a[i].part = "length"
             THEN a[i + 1].part = "payload" /\ a[i + 1].n = a[i].n
             ELSE a[i + 1].part = "length" /\ a[i].n < a[i + 1].n
  <2>1. i \in 1..Len(s) /\ a[i] = s[i] /\ s # <<>>
    BY <1>1, <1>2
  <2>2. CASE i < Len(s)
    <3>1. i \in 1..(Len(s) - 1) /\ a[i + 1] = s[i + 1]
      BY <1>1, <2>1, <2>2
    <3> QED  BY <2>1, <3>1 DEF FrameSeq
  <2>3. CASE i = Len(s)
    <3>1. a[i] = s[Len(s)] /\ a[i + 1] = e
      BY <1>1, <2>1, <2>3
    <3> QED  BY <2>1, <3>1, Constants DEF Unfinished
  <2> QED  BY <1>1, <2>1, <2>2, <2>3
<1>8. FrameSeq(a)
  BY <1>6, <1>7 DEF FrameSeq
<1>9. \A i \in 1..Len(a) : a[i] = e \/ (i \in 1..Len(s) /\ a[i] = s[i])
  BY <1>1
<1> QED  BY <1>1, <1>4, <1>5, <1>8, <1>9 DEF a, Unfinished

\* The first frame of a sequence, and what follows it.
LEMMA FrameLeaves ==
    ASSUME NEW f \in Seq(Token), NEW s \in Seq(Token), Len(f) = 2, FrameSeq(f \o s)
    PROVE  /\ f[1].part = "length" /\ f[2].part = "payload" /\ f[1].n = f[2].n
           /\ FrameSeq(s)
           /\ s # <<>> => /\ f[1].n < s[1].n
                          /\ (f \o s)[Len(f \o s)] = s[Len(s)]
           /\ Unfinished(f \o s) <=> Unfinished(s)
           /\ f \o s # <<>> /\ (f \o s)[1] = f[1]
           /\ \A i \in 1..Len(s) : i + 2 \in 1..Len(f \o s) /\ (f \o s)[i + 2] = s[i]
<1> DEFINE p == f \o s
<1>1. /\ Len(s) \in Nat /\ p \in Seq(Token) /\ Len(p) = Len(s) + 2
      /\ \A i \in 1..(Len(s) + 2) : p[i] = IF i <= 2 THEN f[i] ELSE s[i - 2]
  <2>1. Len(s) \in Nat
    BY LenProperties
  <2>2. /\ p \in Seq(Token) /\ Len(p) = 2 + Len(s)
        /\ \A i \in 1..(2 + Len(s)) : p[i] = IF i <= 2 THEN f[i] ELSE s[i - 2]
    <3>1. /\ p \in Seq(Token) /\ Len(p) = Len(f) + Len(s)
          /\ \A i \in 1..(Len(f) + Len(s)) :
                 p[i] = IF i <= Len(f) THEN f[i] ELSE s[i - Len(f)]
      BY ConcatProperties
    <3> HIDE DEF p
    <3> QED  BY <3>1
  <2> HIDE DEF p
  <2>3. 2 + Len(s) = Len(s) + 2
    BY <2>1
  <2> QED  BY <2>1, <2>2, <2>3
<1>2. (s = <<>> <=> Len(s) = 0) /\ p # <<>>
  BY <1>1, EmptySeq
<1>3. /\ p[1] = f[1] /\ p[2] = f[2]
      /\ \A i \in 1..Len(s) : i + 2 \in 1..(Len(s) + 2) /\ p[i + 2] = s[i]
  BY <1>1
<1> HIDE DEF p
<1>4. FrameSeq(p)
  BY DEF p
<1>5. p[1].part = "length" /\ p[2].part = "payload" /\ p[2].n = p[1].n
  <2>1. 1 \in 1..(Len(p) - 1) /\ 1 + 1 = 2
    BY <1>1
  <2> QED  BY <1>2, <1>4, <2>1 DEF FrameSeq
<1>6. ASSUME s # <<>>
      PROVE  /\ s[1].part = "length" /\ f[1].n < s[1].n
             /\ p[Len(p)] = s[Len(s)]
  <2>1. 2 \in 1..(Len(p) - 1) /\ 2 + 1 = 3 /\ Len(s) >= 1
    BY <1>1, <1>2, <1>6
  <2>2. p[3] = s[1] /\ p[Len(p)] = s[Len(s)]
    BY <1>1, <1>3, <2>1
  <2>3. p[3].part = "length" /\ p[2].n < p[3].n
    BY <1>4, <1>5, <2>1 DEF FrameSeq
  <2> QED  BY <1>3, <1>5, <2>2, <2>3
<1>7. ASSUME NEW i \in 1..(Len(s) - 1)
      PROVE  IF s[i].part = "length"
             THEN s[i + 1].part = "payload" /\ s[i + 1].n = s[i].n
             ELSE s[i + 1].part = "length" /\ s[i].n < s[i + 1].n
  <2>1. /\ i + 2 \in 1..(Len(p) - 1) /\ (i + 2) + 1 = (i + 1) + 2
        /\ p[i + 2] = s[i] /\ p[(i + 1) + 2] = s[i + 1]
    BY <1>1, <1>3, SMTT(30)
  <2> QED  BY <1>4, <2>1 DEF FrameSeq
<1>8. FrameSeq(s)
  BY <1>6, <1>7 DEF FrameSeq
<1>9. Unfinished(p) <=> Unfinished(s)
  <2>1. CASE s = <<>>
    <3>1. Len(p) = 2
      BY <1>1, <1>2, <2>1
    <3> QED  BY <1>5, <2>1, <3>1 DEF Unfinished
  <2>2. CASE s # <<>>
    BY <1>2, <1>6, <2>2 DEF Unfinished
  <2> QED  BY <2>1, <2>2
<1> QED  BY <1>1, <1>2, <1>3, <1>5, <1>6, <1>8, <1>9 DEF p

-----------------------------------------------------------------------------
(* What is pending, step by step *)

LEMMA PendingTyped ==
    ASSUME Typed, NEW k \in Conns
    PROVE  /\ frame[k] \in Seq(Token) /\ stream[k] \in Seq(Token)
           /\ Pending(k) \in Seq(Token)
           /\ \A i \in 1..Len(Pending(k)) : Pending(k)[i] \in Token
           /\ Pending(k) # <<>> => /\ Len(Pending(k)) \in 1..Len(Pending(k))
                                   /\ 1 \in 1..Len(Pending(k))
           /\ frame[k] = <<>> => Pending(k) = stream[k]
           /\ sent \in Int /\ Begun \in Int
<1>1. frame[k] \in Seq(Token) /\ stream[k] \in Seq(Token) /\ sent \in 0..MaxSend
  BY DEF Typed
<1>2. Pending(k) \in Seq(Token)
  BY <1>1, ConcatProperties DEF Pending
<1>3. ASSUME Pending(k) # <<>>
      PROVE  Len(Pending(k)) \in 1..Len(Pending(k)) /\ 1 \in 1..Len(Pending(k))
  <2>1. Len(Pending(k)) \in Nat \ {0}
    BY <1>2, <1>3, EmptySeq
  <2> QED  BY <2>1
<1>4. frame[k] = <<>> => Pending(k) = stream[k]
  BY <1>1, ConcatEmptySeq DEF Pending
<1>5. sent \in Int /\ Begun \in Int
  BY <1>1, Constants DEF Begun
<1>6. \A i \in 1..Len(Pending(k)) : Pending(k)[i] \in Token
  BY <1>2, ElementOfSeq
<1> QED  BY <1>1, <1>2, <1>3, <1>4, <1>5, <1>6

\* A connection stays framed when what is pending on it stays, and the sender
\* neither enters nor leaves a frame on it.
LEMMA StillFramed ==
    ASSUME Typed, Typed', NEW j \in Conns, Framed(j), InStep(j)',
           Pending(j)' = Pending(j), Begun <= Begun',
           rOpen'[j] /\ sOpen'[j] => /\ rOpen[j] /\ sOpen[j]
                                     /\ MidFrame(j)' <=> MidFrame(j)
                                     /\ MidFrame(j) => sent' = sent
    PROVE  Framed(j)'
<1>1. \A i \in 1..Len(Pending(j)) : Pending(j)[i].n \in Int
  BY PendingTyped, Constants
<1>2. Begun \in Int /\ Begun' \in Int
  <2>1. sent \in Int /\ sent' \in Int
    BY Constants DEF Typed
  <2> QED  BY <2>1 DEF Begun
<1> DEFINE p == Pending(j)
           b == Begun
<1>3. \A i \in 1..Len(p) : p[i].n <= b
  BY DEF Framed
<1>4. \A i \in 1..Len(p) : p[i].n <= Begun'
  BY <1>1, <1>2, <1>3
<1> QED  BY <1>4 DEF Framed

\* And one with nothing pending is framed.
LEMMA EmptyFramed ==
    ASSUME NEW j \in Conns, InStep(j)', Pending(j)' = <<>>,
           ~(rOpen'[j] /\ sOpen'[j]) \/ ~MidFrame(j)'
    PROVE  Framed(j)'
<1>1. FrameSeq(<<>>) /\ ~Unfinished(<<>>) /\ 1..Len(<<>>) = {}
  BY DEF FrameSeq, Unfinished
<1> QED  BY <1>1 DEF Framed

LEMMA NothingPending == <<>> \o <<>> = <<>>
BY ConcatEmptySeq, EmptySeq

\* The steps of the sender.
LEMMA SenderFramed ==
    ASSUME Sockets, Typed', NEW j \in Conns, Framed(j),
           \/ \E d \in Dests, big \in BOOLEAN : Send(d, big)
           \/ Dial \/ WriteFails \/ SenderEnds
           \/ WritePart("length", "payload") \/ WritePart("payload", "idle")
    PROVE  Framed(j)'
<1>1. Typed /\ Socket(j) /\ sent \in Int
  BY PendingTyped DEF Sockets
<1>2. ASSUME UNCHANGED <<frame, rpc>> PROVE InStep(j)'
  BY <1>2 DEF Framed, InStep
<1>3. ASSUME UNCHANGED <<frame, stream>> PROVE Pending(j)' = Pending(j)
  BY <1>3 DEF Pending
<1>4. ASSUME NEW d \in Dests, NEW big \in BOOLEAN, Send(d, big) PROVE Framed(j)'
  <2>1. UNCHANGED <<frame, stream, rpc, rOpen, sOpen>>
    BY <1>4 DEF Send, connVars
  <2>2. Begun <= Begun' /\ ~MidFrame(j) /\ ~MidFrame(j)'
    BY <1>1, <1>4 DEF Send, Begun, MidFrame
  <2> QED  BY <1>1, <1>2, <1>3, <2>1, <2>2, StillFramed
<1>5. CASE Dial
  <2>1. UNCHANGED <<frame, stream>>
    BY <1>5 DEF Dial
  <2>2. Begun <= Begun' /\ ~MidFrame(j) /\ ~MidFrame(j)'
    BY <1>1, <1>5 DEF Dial, Begun, MidFrame
  <2>3. CASE UNCHANGED <<rpc, rOpen, sOpen>>
    BY <1>1, <1>2, <1>3, <2>1, <2>2, <2>3, StillFramed
  <2>4. CASE /\ rpc' = [rpc EXCEPT ![sent] = "backlog"]
             /\ rOpen' = [rOpen EXCEPT ![sent] = TRUE]
             /\ sOpen' = [sOpen EXCEPT ![sent] = TRUE]
    <3>1. CASE j = sent
      <4>1. rpc[j] = "none" /\ frame[j] = <<>> /\ stream[j] = <<>>
        BY <1>1, <1>5, <3>1 DEF Socket, Dial
      <4>2. Pending(j)' = <<>>
        BY <2>1, <4>1, NothingPending DEF Pending
      <4>3. InStep(j)'
        BY <1>1, <2>1, <2>4, <3>1, <4>1 DEF InStep, Typed
      <4> QED  BY <2>2, <4>2, <4>3, EmptyFramed
    <3>2. CASE j # sent
      <4>1. rpc'[j] = rpc[j] /\ rOpen'[j] = rOpen[j] /\ sOpen'[j] = sOpen[j]
        BY <1>1, <2>4, <3>2 DEF Typed
      <4>2. InStep(j)'
        BY <2>1, <4>1 DEF Framed, InStep
      <4> QED  BY <1>1, <1>3, <2>1, <2>2, <4>1, <4>2, StillFramed
    <3> QED  BY <3>1, <3>2
  <2> QED  BY <1>5, <2>3, <2>4 DEF Dial
<1>6. CASE WriteFails
  <2>1. UNCHANGED <<frame, stream, rpc, rOpen>> /\ conns[cur.d] \in Conns
    BY <1>6, InUse DEF WriteFails
  <2>2. Begun <= Begun' /\ ~MidFrame(j)' /\ ~rOpen[conns[cur.d]]
    BY <1>1, <1>6 DEF WriteFails, Begun, MidFrame
  <2>3. j # conns[cur.d] => sOpen'[j] = sOpen[j] /\ ~MidFrame(j)
    BY <1>1, <1>6 DEF WriteFails, Typed, MidFrame
  <2>4. rOpen'[j] /\ sOpen'[j] => rOpen[j] /\ sOpen[j] /\ ~MidFrame(j)
    BY <2>1, <2>2, <2>3
  <2> QED  BY <1>1, <1>2, <1>3, <2>1, <2>2, <2>4, StillFramed
<1>7. CASE SenderEnds
  <2>1. UNCHANGED <<frame, stream, rpc, rOpen>> /\ ~sOpen'[j]
    BY <1>7 DEF SenderEnds
  <2>2. Begun <= Begun'
    BY <1>1, <1>7 DEF SenderEnds, Begun
  <2> QED  BY <1>1, <1>2, <1>3, <2>1, <2>2, StillFramed
<1>8. ASSUME NEW part \in {"length", "payload"}, NEW next \in {"payload", "idle"},
             part = "length" <=> next = "payload", WritePart(part, next)
      PROVE  Framed(j)'
  <2> DEFINE k == conns[cur.d]
             e == [n |-> sent, part |-> part, big |-> part = "length" /\ cur.big,
                    to |-> Assign[cur.d]]
  <2>1. /\ k \in Conns /\ sOpen[k] /\ rOpen[k] /\ sent \in Conns /\ cur.d \in Dests
        /\ spc = part /\ spc' = next
        /\ stream' = [stream EXCEPT ![k] = Append(stream[k], e)]
        /\ UNCHANGED <<sent, cur, conns, sOpen, rOpen, peer, rpc, frame>>
    BY <1>8, InUse DEF WritePart, WriteTo
  <2>2. e \in Token /\ e.n = sent /\ e.part = part
    <3>1. (part = "length" /\ cur.big) \in BOOLEAN
      OBVIOUS
    <3> QED  BY <2>1, <3>1, Constants DEF Token, Conns
  <2> HIDE DEF e, k
  <2>3. /\ Begun = IF part = "length" THEN sent - 1 ELSE sent
        /\ Begun' = sent
        /\ MidFrame(j) <=> part = "payload" /\ k = j
        /\ MidFrame(j)' <=> part = "length" /\ k = j
    BY <1>8, <2>1 DEF Begun, MidFrame, k
  <2>4. CASE j # k
    <3>1. stream'[j] = stream[j]
      BY <1>1, <2>1, <2>4 DEF Typed
    <3>2. Pending(j)' = Pending(j)
      BY <2>1, <3>1 DEF Pending
    <3>3. Begun <= Begun'
      BY <1>1, <2>3
    <3> QED  BY <1>1, <1>2, <2>1, <2>3, <2>4, <3>2, <3>3, StillFramed
  <2>5. CASE j = k
    <3>1. stream'[j] = Append(stream[j], e)
      BY <1>1, <2>1, <2>5 DEF Typed
    <3>2. Pending(j)' = Append(Pending(j), e)
      <4>1. frame[j] \o Append(stream[j], e) = Append(frame[j] \o stream[j], e)
        <5>1. frame[j] \in Seq(Token) /\ stream[j] \in Seq(Token)
          BY <1>1, PendingTyped
        <5> QED  BY <2>2, <5>1, Growing
      <4> QED  BY <2>1, <3>1, <4>1 DEF Pending
    <3>3. /\ Pending(j) \in Seq(Token) /\ FrameSeq(Pending(j))
          /\ \A i \in 1..Len(Pending(j)) :
                 Pending(j)[i].n <= Begun /\ Pending(j)[i].n \in Int
          /\ Pending(j) # <<>> => Len(Pending(j)) \in 1..Len(Pending(j))
          /\ Unfinished(Pending(j)) <=> MidFrame(j)
          /\ MidFrame(j) => Pending(j)[Len(Pending(j))].n = sent
      BY <1>1, <2>1, <2>5, PendingTyped, Constants DEF Framed
    <3> DEFINE p == Pending(j)
               a == Append(p, e)
    <3>4. \/ e.part = "length" /\ ~Unfinished(p) /\ (p # <<>> => p[Len(p)].n < e.n)
          \/ e.part = "payload" /\ Unfinished(p) /\ p[Len(p)].n = e.n
      <4>1. CASE part = "length"
        <5>1. ~MidFrame(j) /\ Begun = sent - 1
          BY <2>3, <4>1
        <5>2. ASSUME p # <<>> PROVE p[Len(p)].n < e.n
          <6>1. p[Len(p)].n <= sent - 1 /\ p[Len(p)].n \in Int
            BY <3>3, <5>1, <5>2
          <6> HIDE DEF p
          <6> QED  BY <1>1, <2>2, <6>1
        <5> QED  BY <2>2, <3>3, <4>1, <5>1, <5>2
      <4>2. CASE part = "payload"
        BY <2>2, <2>3, <2>5, <3>3, <4>2
      <4> QED  BY <4>1, <4>2
    <3>5. /\ FrameSeq(a) /\ a # <<>> /\ a[Len(a)] = e
          /\ Unfinished(a) <=> e.part = "length"
          /\ \A i \in 1..Len(a) : a[i] = e \/ (i \in 1..Len(p) /\ a[i] = p[i])
      <4>1. p \in Seq(Token) /\ FrameSeq(p)
        BY <3>3
      <4> HIDE DEF p
      <4> QED  BY <2>2, <3>4, <4>1, FrameGrows
    <3>6. Pending(j)' = a
      BY <3>2
    <3>7. Unfinished(a) <=> MidFrame(j)'
      BY <2>2, <2>3, <2>5, <3>5
    <3>8. a[Len(a)].n = sent /\ sent' = sent
      BY <2>1, <2>2, <3>5
    <3>9. \A i \in 1..Len(p) : p[i].n <= sent
      <4>1. \A i \in 1..Len(p) : p[i].n <= Begun /\ p[i].n \in Int
        BY <3>3
      <4> HIDE DEF p
      <4> QED  BY <1>1, <2>3, <4>1
    <3> HIDE DEF a, p
    <3>10. \A i \in 1..Len(a) : a[i].n <= Begun'
      BY <1>1, <2>2, <2>3, <3>5, <3>9
    <3>11. InStep(j)'
      BY <1>2, <2>1
    <3> QED  BY <3>5, <3>6, <3>7, <3>8, <3>10, <3>11 DEF Framed
  <2> QED  BY <2>4, <2>5
<1> QED  BY <1>4, <1>5, <1>6, <1>7, <1>8

\* The steps that take the first frame off connection k.
LEMMA FrameTaken ==
    ASSUME Sockets, NEW k \in Conns, Framed(k), DiscardPayload(k) \/ PushFrame(k)
    PROVE  \E f \in Seq(Token) :
               /\ Len(f) = 2 /\ Pending(k) = f \o stream'[k] /\ stream'[k] \in Seq(Token)
               /\ frame'[k] = <<>>
               /\ PushFrame(k) => f = frame[k]
<1>1. /\ Typed /\ frame[k] \in Seq(Token) /\ stream[k] \in Seq(Token)
      /\ InStep(k)
  BY PendingTyped DEF Sockets, Framed
<1>2. CASE DiscardPayload(k)
  <2>1. /\ rpc[k] = "discard" /\ stream[k] # <<>>
        /\ frame'[k] = <<>> /\ stream'[k] = Tail(stream[k])
    BY <1>1, <1>2 DEF Typed, DiscardPayload, Take
  <2>2. Len(frame[k]) = 1
    BY <1>1, <2>1 DEF InStep
  <2>3. Head(stream[k]) \in Token /\ Tail(stream[k]) \in Seq(Token)
    BY <1>1, <2>1, HeadTailProperties
  <2>4. /\ Append(frame[k], Head(stream[k])) \in Seq(Token)
        /\ Len(Append(frame[k], Head(stream[k]))) = 2
    BY <1>1, <2>2, <2>3, Growing, SMTT(30)
  <2>5. Append(frame[k], Head(stream[k])) \o Tail(stream[k]) = Pending(k)
    BY <1>1, <2>1, Growing DEF Pending
  <2>6. ~PushFrame(k)
    BY <2>1 DEF PushFrame
  <2> QED  BY <2>1, <2>3, <2>4, <2>5, <2>6
<1>3. CASE PushFrame(k)
  <2>1. rpc[k] = "push" /\ frame'[k] = <<>> /\ stream'[k] = stream[k]
    BY <1>1, <1>3 DEF Typed, PushFrame
  <2>2. Len(frame[k]) = 2
    BY <1>1, <2>1 DEF InStep
  <2> QED  BY <1>1, <2>1, <2>2 DEF Pending
<1> QED  BY <1>2, <1>3

\* The steps that read leave what is pending as it is.
LEMMA ReadKeeps ==
    ASSUME Sockets, NEW k \in Conns, InStep(k), ReadLength(k) \/ ReadPayload(k)
    PROVE  Pending(k)' = Pending(k)
<1>1. Typed /\ frame[k] \in Seq(Token) /\ stream[k] \in Seq(Token)
  BY PendingTyped DEF Sockets
<1>2. stream[k] # <<>> /\ stream'[k] = Tail(stream[k])
  BY <1>1 DEF Typed, ReadLength, ReadPayload, Take
<1>3. frame'[k] = Append(frame[k], Head(stream[k]))
  <2>1. CASE ReadLength(k)
    <3>1. frame[k] = <<>> /\ frame'[k] = <<Head(stream[k])>>
      BY <1>1, <2>1 DEF Typed, ReadLength, InStep
    <3> QED  BY <3>1
  <2>2. CASE ReadPayload(k)
    BY <1>1, <2>2 DEF Typed, ReadPayload
  <2> QED  BY <2>1, <2>2
<1> QED  BY <1>1, <1>2, <1>3, Growing DEF Pending

\* The steps of the receivers, as connection j sees them.
LEMMA ReceiverFramed ==
    ASSUME Sockets, Typed', NEW j \in Conns, Framed(j),
           \/ \E k \in Conns : Accept(k) \/ ReadLength(k) \/ ReadPayload(k)
                  \/ DiscardPayload(k) \/ ReadFails(k) \/ PushFrame(k)
           \/ \E r \in Receivers : Crash(r)
           \/ UNCHANGED net
    PROVE  Framed(j)'
<1>1. /\ Typed /\ Socket(j) /\ sent \in Int /\ Begun \in Int
      /\ frame[j] \in Seq(Token) /\ stream[j] \in Seq(Token) /\ InStep(j)
  BY PendingTyped DEF Sockets, Framed
<1>2. ASSUME UNCHANGED <<spc, sent, cur, conns>>
      PROVE  /\ Begun <= Begun' /\ Begun' = Begun
             /\ MidFrame(j)' <=> MidFrame(j)
  BY <1>1, <1>2 DEF Begun, MidFrame
<1>3. ASSUME UNCHANGED <<spc, sent, cur, conns>>,
             stream'[j] = stream[j], frame'[j] = frame[j], rpc'[j] = rpc[j],
             rOpen'[j] <=> rOpen[j], sOpen'[j] = sOpen[j]
      PROVE  Framed(j)'
  <2>1. Pending(j)' = Pending(j) /\ InStep(j)'
    BY <1>1, <1>3 DEF Pending, InStep
  <2> QED  BY <1>1, <1>2, <1>3, <2>1, StillFramed
<1>4. ASSUME NEW k \in Conns, Accept(k) PROVE Framed(j)'
  <2>1. UNCHANGED <<spc, sent, cur, conns, stream, frame, rOpen, sOpen>>
    BY <1>4 DEF Accept
  <2>2. rpc'[j] = rpc[j] \/ (rpc[j] = "backlog" /\ rpc'[j] = "length")
    BY <1>1, <1>4 DEF Accept, Goto, Typed
  <2>3. Pending(j)' = Pending(j) /\ InStep(j)'
    BY <1>1, <2>1, <2>2 DEF Pending, InStep
  <2> QED  BY <1>1, <1>2, <2>1, <2>3, StillFramed
<1>5. ASSUME NEW k \in Conns, ReadLength(k) \/ ReadPayload(k) PROVE Framed(j)'
  <2>1. UNCHANGED <<spc, sent, cur, conns, rOpen, sOpen>> /\ stream[k] # <<>>
    BY <1>5 DEF ReadLength, ReadPayload, Take
  <2>2. CASE j # k
    <3>1. stream'[j] = stream[j] /\ frame'[j] = frame[j] /\ rpc'[j] = rpc[j]
      BY <1>1, <1>5, <2>2 DEF Typed, ReadLength, ReadPayload, Take, Goto
    <3> QED  BY <1>3, <2>1, <3>1
  <2>3. CASE j = k /\ ReadLength(k)
    <3>1. /\ rpc[j] = "length" /\ stream'[j] = Tail(stream[j])
          /\ frame'[j] = <<Head(stream[j])>>
          /\ rpc'[j] = IF Head(stream[j]).big THEN "discard" ELSE "payload"
      BY <1>1, <2>3 DEF Typed, ReadLength, Take, Goto
    <3>2. Pending(j)' = Pending(j)
      BY <1>1, <2>3, ReadKeeps
    <3>3. Len(frame'[j]) = 1 /\ frame'[j][1] = Head(stream[j])
      BY <3>1
    <3>4. InStep(j)'
      BY <3>1, <3>3 DEF InStep
    <3> QED  BY <1>1, <1>2, <2>1, <3>2, <3>4, StillFramed
  <2>4. CASE j = k /\ ReadPayload(k)
    <3>1. /\ rpc[j] = "payload" /\ stream'[j] = Tail(stream[j])
          /\ frame'[j] = Append(frame[j], Head(stream[j])) /\ rpc'[j] = "push"
      BY <1>1, <2>4 DEF Typed, ReadPayload, Take, Goto
    <3>2. Pending(j)' = Pending(j)
      BY <1>1, <2>4, ReadKeeps
    <3>3. Len(frame[j]) = 1 /\ ~frame[j][1].big /\ Head(stream[j]) \in Token
      BY <1>1, <2>1, <2>4, <3>1, HeadTailProperties DEF InStep
    <3>4. Len(frame'[j]) = 2 /\ frame'[j][1] = frame[j][1]
      <4> DEFINE g == Append(frame[j], Head(stream[j]))
      <4>1. Len(g) = Len(frame[j]) + 1 /\ (Len(frame[j]) >= 1 => g[1] = frame[j][1])
        BY <1>1, <3>3, Growing
      <4> HIDE DEF g
      <4>2. Len(g) = 2 /\ g[1] = frame[j][1]
        BY <3>3, <4>1
      <4> QED  BY <3>1, <4>2 DEF g
    <3>5. InStep(j)'
      BY <3>1, <3>3, <3>4 DEF InStep
    <3> QED  BY <1>1, <1>2, <2>1, <3>2, <3>5, StillFramed
  <2> QED  BY <1>5, <2>2, <2>3, <2>4
<1>6. ASSUME NEW k \in Conns, DiscardPayload(k) \/ PushFrame(k) PROVE Framed(j)'
  <2>1. UNCHANGED <<spc, sent, cur, conns, rOpen, sOpen>>
    BY <1>6 DEF DiscardPayload, PushFrame
  <2>2. CASE j # k
    <3>1. stream'[j] = stream[j] /\ frame'[j] = frame[j] /\ rpc'[j] = rpc[j]
      BY <1>1, <1>6, <2>2 DEF Typed, DiscardPayload, PushFrame, Take, Goto
    <3> QED  BY <1>3, <2>1, <3>1
  <2>3. CASE j = k
    <3>1. PICK f \in Seq(Token) :
              /\ Len(f) = 2 /\ Pending(j) = f \o stream'[j] /\ stream'[j] \in Seq(Token)
              /\ frame'[j] = <<>>
      BY <1>6, <2>3, FrameTaken
    <3>2. PICK s \in Seq(Token) : s = stream'[j]
      BY <3>1
    <3>3. FrameSeq(f \o s)
      BY <3>1, <3>2 DEF Framed
    <3>4. /\ FrameSeq(s)
          /\ Unfinished(f \o s) <=> Unfinished(s)
          /\ s # <<>> => (f \o s)[Len(f \o s)] = s[Len(s)]
          /\ f \o s # <<>>
      BY <3>1, <3>3, FrameLeaves
    <3>5. Pending(j)' = s /\ Pending(j) = f \o s
      BY <3>1, <3>2, ConcatEmptySeq DEF Pending
    <3>6. rpc'[j] = "length"
      BY <1>1, <1>6, <2>3 DEF Typed, DiscardPayload, PushFrame, Goto
    <3>7. InStep(j)'
      BY <3>1, <3>6 DEF InStep
    <3>8. \A i \in 1..Len(s) : s[i].n <= Begun'
      <4>1. \A i \in 1..Len(f \o s) : (f \o s)[i].n <= Begun
        BY <3>5 DEF Framed
      <4>2. \A i \in 1..Len(s) : s[i].n <= Begun
        BY <3>1, <3>3, <4>1, FrameLeaves
      <4> QED  BY <1>2, <2>1, <4>2
    <3>9. ASSUME rOpen'[j], sOpen'[j]
          PROVE  /\ Unfinished(s) <=> MidFrame(j)'
                 /\ MidFrame(j)' => s[Len(s)].n = sent'
      <4>1. /\ Unfinished(f \o s) <=> MidFrame(j)
            /\ MidFrame(j) => (f \o s)[Len(f \o s)].n = sent
        BY <2>1, <3>5, <3>9 DEF Framed
      <4>2. Unfinished(s) => s # <<>>
        BY DEF Unfinished
      <4> QED  BY <1>2, <2>1, <3>4, <4>1, <4>2
    <3> QED  BY <3>4, <3>5, <3>7, <3>8, <3>9 DEF Framed
  <2> QED  BY <2>2, <2>3
<1>7. ASSUME NEW k \in Conns, ReadFails(k) PROVE Framed(j)'
  <2>1. UNCHANGED <<spc, sent, cur, conns, stream, sOpen>>
    BY <1>7 DEF ReadFails
  <2>2. CASE j # k
    <3>1. frame'[j] = frame[j] /\ rpc'[j] = rpc[j] /\ rOpen'[j] = rOpen[j]
      BY <1>1, <1>7, <2>2 DEF Typed, ReadFails, Goto
    <3> QED  BY <1>3, <2>1, <3>1
  <2>3. CASE j = k
    <3>1. stream[j] = <<>> /\ frame'[j] = <<>> /\ rpc'[j] = "done" /\ ~rOpen'[j]
      BY <1>1, <1>7, <2>3 DEF Typed, ReadFails, Goto
    <3>2. Pending(j)' = <<>>
      BY <2>1, <3>1, NothingPending DEF Pending
    <3>3. InStep(j)'
      BY <3>1 DEF InStep
    <3> QED  BY <3>1, <3>2, <3>3, EmptyFramed
  <2> QED  BY <2>2, <2>3
<1>8. ASSUME NEW r \in Receivers, Crash(r) PROVE Framed(j)'
  <2>1. UNCHANGED <<spc, sent, cur, conns, sOpen>>
    BY <1>8 DEF Crash
  <2>2. CASE peer[j] = r /\ rOpen[j]
    <3>1. rpc'[j] = "done" /\ ~rOpen'[j] /\ stream'[j] = <<>> /\ frame'[j] = <<>>
      BY <1>8, <2>2 DEF Crash
    <3>2. Pending(j)' = <<>>
      BY <3>1, NothingPending DEF Pending
    <3>3. InStep(j)'
      BY <3>1 DEF InStep
    <3> QED  BY <3>1, <3>2, <3>3, EmptyFramed
  <2>3. CASE ~(peer[j] = r /\ rOpen[j])
    <3>1. /\ rpc'[j] = rpc[j] /\ stream'[j] = stream[j] /\ frame'[j] = frame[j]
          /\ rOpen'[j] <=> rOpen[j]
      BY <1>8, <2>3 DEF Crash
    <3> QED  BY <1>3, <2>1, <3>1
  <2> QED  BY <2>2, <2>3
<1>9. CASE UNCHANGED net
  BY <1>3, <1>9 DEF net, connVars
<1> QED  BY <1>4, <1>5, <1>6, <1>7, <1>8, <1>9

\* Only a push adds to what has arrived.
LEMMA ArrivedBy ==
    ASSUME [Next]_vars
    PROVE  UNCHANGED arrived \/ \E k \in Conns : PushFrame(k)
<1>1. ASSUME NEW k \in Conns, Accept(k) \/ ReadLength(k) \/ ReadPayload(k)
                  \/ DiscardPayload(k) \/ ReadFails(k)
      PROVE  UNCHANGED arrived
  BY <1>1 DEF Accept, ReadLength, ReadPayload, DiscardPayload, ReadFails, recvVars
<1>2. ASSUME NEW r \in Receivers, Crash(r) PROVE UNCHANGED arrived
  BY <1>2 DEF Crash
<1>3. ASSUME NEW d \in Dests, NEW big \in BOOLEAN, Send(d, big) PROVE UNCHANGED arrived
  BY <1>3 DEF Send, recvVars
<1>4. Dial \/ WriteFails \/ SenderEnds \/ WritePart("length", "payload")
      \/ WritePart("payload", "idle") \/ UNCHANGED net => UNCHANGED arrived
  BY DEF Dial, WriteFails, SenderEnds, WritePart, WriteTo, net, recvVars
<1> QED  BY <1>1, <1>2, <1>3, <1>4, Steps

\* A push adds at most one frame, that of its connection, to the mailbox of
\* the connection's ID.
LEMMA Arrives ==
    ASSUME Sockets, NEW k \in Conns, PushFrame(k), NEW r \in Receivers
    PROVE  \/ arrived'[r] = arrived[r]
           \/ /\ r = peer[k]
              /\ Len(arrived[r]) \in Nat /\ Len(arrived'[r]) = Len(arrived[r]) + 1
              /\ \A i \in 1..Len(arrived[r]) : arrived'[r][i] = arrived[r][i]
              /\ arrived'[r][Len(arrived[r]) + 1] = frame[k]
<1>1. Typed /\ frame[k] \in Seq(Token) /\ arrived[r] \in Seq(Seq(Token))
  BY PendingTyped DEF Sockets, Typed
<1>2. arrived'[r] = arrived[r] \/ (r = peer[k] /\ arrived'[r] = Append(arrived[r], frame[k]))
  BY <1>1 DEF PushFrame, Typed
<1> QED  BY <1>1, <1>2, AppendProperties, LenProperties

LEMMA AddressedStep ==
    ASSUME Sockets, Addressed, [Next]_vars
    PROVE  Addressed'
<1> DEFINE Moved(k) == /\ frame'[k] \in Seq(SentTo(peer'[k]))
                       /\ stream'[k] \in Seq(SentTo(peer'[k]))
<1>1. /\ Typed
      /\ \A k \in Conns : /\ frame[k] \in Seq(SentTo(peer[k]))
                          /\ stream[k] \in Seq(SentTo(peer[k]))
      /\ \A r \in Receivers : arrived[r] \in Seq(Seq(SentTo(r)))
      /\ \A r : <<>> \in Seq(SentTo(r))
  BY DEF Sockets, Addressed
<1>2. ASSUME UNCHANGED <<frame, stream, peer, arrived>> PROVE Addressed'
  BY <1>2 DEF Addressed
<1>3. ASSUME UNCHANGED arrived, \A k \in Conns : Moved(k) PROVE Addressed'
  BY <1>1, <1>3 DEF Addressed
<1>4. ASSUME NEW d \in Dests, NEW big \in BOOLEAN, Send(d, big) PROVE Addressed'
  BY <1>2, <1>4 DEF Send, connVars, recvVars
<1>5. CASE Dial
  <2>1. sent \in Conns /\ spc = "dial" /\ UNCHANGED <<frame, stream, arrived>>
    BY <1>1, <1>5 DEF Typed, Dial, recvVars
  <2>2. CASE UNCHANGED peer
    BY <1>2, <2>1, <2>2
  <2>3. CASE peer' = [peer EXCEPT ![sent] = Assign[cur.d]]
    <3>1. frame[sent] = <<>> /\ stream[sent] = <<>>
      BY <2>1 DEF Sockets, Socket
    <3>2. \A k \in Conns : k # sent => peer'[k] = peer[k]
      BY <1>1, <2>3 DEF Typed
    <3> QED  BY <1>1, <1>3, <2>1, <3>1, <3>2
  <2> QED  BY <1>5, <2>2, <2>3 DEF Dial
<1>6. ASSUME NEW part \in {"length", "payload"}, NEW next \in {"payload", "idle"},
             WritePart(part, next)
      PROVE  Addressed'
  <2> DEFINE c == conns[cur.d]
             e == [n |-> sent, part |-> part, big |-> part = "length" /\ cur.big,
                    to |-> Assign[cur.d]]
  <2>1. /\ c \in Conns /\ sent \in Conns /\ cur.d \in Dests
        /\ stream' = [stream EXCEPT ![c] = Append(stream[c], e)]
        /\ UNCHANGED <<frame, peer, arrived>>
    BY <1>6, InUse DEF WritePart, WriteTo, recvVars
  <2>2. c # NoConn
    BY <2>1, Constants
  <2>3. peer[c] = Assign[cur.d]
    BY <2>1, <2>2 DEF Sockets, TableMatchesSockets
  <2>4. e \in SentTo(peer[c])
    <3>1. (part = "length" /\ cur.big) \in BOOLEAN
      OBVIOUS
    <3> QED  BY <2>1, <2>3, <3>1, Constants DEF SentTo, Token, Conns
  <2> HIDE DEF c, e
  <2>5. Append(stream[c], e) \in Seq(SentTo(peer[c]))
    BY <1>1, <2>1, <2>4
  <2>6. \A k \in Conns : stream'[k] = IF k = c THEN Append(stream[c], e) ELSE stream[k]
    BY <1>1, <2>1 DEF Typed
  <2> QED  BY <1>1, <1>3, <2>1, <2>5, <2>6
<1>7. CASE WriteFails \/ SenderEnds
  BY <1>2, <1>7 DEF WriteFails, SenderEnds, recvVars
<1>8. ASSUME NEW k \in Conns, Accept(k) PROVE Addressed'
  BY <1>2, <1>8 DEF Accept, recvVars
<1>9. ASSUME NEW k \in Conns, ReadLength(k) \/ ReadPayload(k) \/ DiscardPayload(k)
      PROVE  Addressed'
  <2>1. UNCHANGED <<peer, arrived>>
    BY <1>9 DEF ReadLength, ReadPayload, DiscardPayload, recvVars
  <2>2. PICK p \in Seq(SentTo(peer[k])) : p = stream[k]
    BY <1>1
  <2>3. p # <<>> /\ stream'[k] = Tail(p)
    BY <1>1, <1>9, <2>2 DEF Typed, ReadLength, ReadPayload, DiscardPayload, Take
  <2>4. Head(p) \in SentTo(peer[k]) /\ Tail(p) \in Seq(SentTo(peer[k]))
    BY <2>2, <2>3, HeadTailProperties
  <2>5. frame'[k] \in {<<Head(p)>>, Append(frame[k], Head(p)), <<>>}
    BY <1>1, <1>9, <2>2 DEF Typed, ReadLength, ReadPayload, DiscardPayload
  <2>6. /\ <<Head(p)>> \in Seq(SentTo(peer[k]))
        /\ Append(frame[k], Head(p)) \in Seq(SentTo(peer[k]))
    BY <1>1, <2>4
  <2>7. \A m \in Conns : m # k => frame'[m] = frame[m] /\ stream'[m] = stream[m]
    BY <1>1, <1>9 DEF Typed, ReadLength, ReadPayload, DiscardPayload, Take
  <2> QED  BY <1>1, <1>3, <2>1, <2>3, <2>4, <2>5, <2>6, <2>7
<1>10. ASSUME NEW k \in Conns, ReadFails(k) PROVE Addressed'
  <2>1. UNCHANGED <<stream, peer, arrived>>
    BY <1>10 DEF ReadFails, recvVars
  <2>2. \A m \in Conns : frame'[m] = IF m = k THEN <<>> ELSE frame[m]
    BY <1>1, <1>10 DEF Typed, ReadFails
  <2> QED  BY <1>1, <1>3, <2>1, <2>2
<1>11. ASSUME NEW k \in Conns, PushFrame(k) PROVE Addressed'
  <2>1. UNCHANGED <<stream, peer>>
    BY <1>11 DEF PushFrame
  <2>2. \A m \in Conns : frame'[m] = IF m = k THEN <<>> ELSE frame[m]
    BY <1>1, <1>11 DEF Typed, PushFrame
  <2>3. ASSUME NEW r \in Receivers PROVE arrived'[r] \in Seq(Seq(SentTo(r)))
    <3>1. \/ arrived'[r] = arrived[r]
          \/ r = peer[k] /\ arrived'[r] = Append(arrived[r], frame[k])
      BY <1>1, <1>11 DEF PushFrame, Typed
    <3>2. r = peer[k] => Append(arrived[r], frame[k]) \in Seq(Seq(SentTo(r)))
      BY <1>1
    <3> QED  BY <1>1, <3>1, <3>2
  <2> QED  BY <1>1, <2>1, <2>2, <2>3 DEF Addressed
<1>12. ASSUME NEW r \in Receivers, Crash(r) PROVE Addressed'
  <2>1. UNCHANGED <<peer, arrived>>
    BY <1>12 DEF Crash
  <2>2. \A m \in Conns : frame'[m] \in {<<>>, frame[m]} /\ stream'[m] \in {<<>>, stream[m]}
    BY <1>12 DEF Crash
  <2> QED  BY <1>1, <1>3, <2>1, <2>2
<1>13. CASE UNCHANGED net
  BY <1>2, <1>13 DEF net, connVars
<1> QED
  BY <1>4, <1>5, <1>6, <1>7, <1>8, <1>9, <1>10, <1>11, <1>12, <1>13, Steps

LEMMA AddressedAlways == Spec => []Addressed
<1>1. Init => Addressed
  BY DEF Init, Addressed
<1>2. Sockets /\ Addressed /\ [Next]_vars => Addressed'
  BY AddressedStep
<1> QED  BY <1>1, <1>2, SocketsAlways, PTL DEF Spec

LEMMA IntegrityStep ==
    ASSUME Sockets, Framing, Addressed', [Next]_vars, Typed'
    PROVE  FrameIntegrity'
<1>1. CASE UNCHANGED arrived
  BY <1>1 DEF Framing, FrameIntegrity
<1>2. ASSUME NEW k \in Conns, PushFrame(k) PROVE FrameIntegrity'
  <2>1. frame[k] \in Seq(Token) /\ stream[k] \in Seq(Token) /\ FrameSeq(frame[k] \o stream[k])
    BY PendingTyped DEF Sockets, Framing, Framed, Pending
  <2>2. Len(frame[k]) = 2 /\ ~frame[k][1].big
    BY <1>2 DEF Framing, Framed, InStep, PushFrame
  <2>3. /\ frame[k][1].part = "length" /\ frame[k][2].part = "payload"
        /\ frame[k][1].n = frame[k][2].n
    BY <2>1, <2>2, FrameLeaves
  <2>4. ASSUME NEW r \in Receivers, NEW i \in DOMAIN arrived'[r]
        PROVE  \/ arrived'[r][i] = frame[k]
               \/ i \in DOMAIN arrived[r] /\ arrived'[r][i] = arrived[r][i]
    <3>1. /\ DOMAIN arrived'[r] = 1..Len(arrived'[r]) /\ Len(arrived'[r]) \in Nat
          /\ DOMAIN arrived[r] = 1..Len(arrived[r]) /\ Len(arrived[r]) \in Nat
      BY LenProperties DEF Sockets, Typed
    <3>2. CASE arrived'[r] = arrived[r]
      BY <2>4, <3>2
    <3>3. CASE /\ Len(arrived'[r]) = Len(arrived[r]) + 1
               /\ \A m \in 1..Len(arrived[r]) : arrived'[r][m] = arrived[r][m]
               /\ arrived'[r][Len(arrived[r]) + 1] = frame[k]
      BY <2>4, <3>1, <3>3
    <3> QED  BY <1>2, <3>2, <3>3, Arrives
  <2>5. ASSUME NEW r \in Receivers, NEW i \in DOMAIN arrived'[r], Len(arrived'[r][i]) = 2
        PROVE  arrived'[r][i][1].to = r /\ arrived'[r][i][2].to = r
    <3>1. arrived'[r] \in Seq(Seq(SentTo(r)))
      BY DEF Addressed
    <3>2. arrived'[r][i] \in Seq(SentTo(r))
      BY <2>5, <3>1
    <3>3. arrived'[r][i][1] \in SentTo(r) /\ arrived'[r][i][2] \in SentTo(r)
      BY <2>5, <3>2
    <3> QED  BY <3>3 DEF SentTo
  <2> QED  BY <2>2, <2>3, <2>4, <2>5 DEF Framing, FrameIntegrity
<1> QED  BY <1>1, <1>2, ArrivedBy

LEMMA FramingAlways == Spec => []Framing
<1>1. Init => Framing
  <2> SUFFICES ASSUME Init PROVE Framing
    OBVIOUS
  <2>1. ASSUME NEW k \in Conns PROVE Framed(k)
    <3>1. Pending(k) = <<>>
      BY NothingPending DEF Init, Pending
    <3>2. FrameSeq(<<>>) /\ ~Unfinished(<<>>) /\ 1..Len(<<>>) = {}
      BY DEF FrameSeq, Unfinished
    <3> QED  BY <3>1, <3>2 DEF Init, Framed, InStep, MidFrame
  <2> QED  BY <2>1 DEF Init, Framing, FrameIntegrity
<1>2. Sockets /\ Sockets' /\ Addressed' /\ Framing /\ [Next]_vars => Framing'
  <2> SUFFICES ASSUME Sockets, Sockets', Addressed', Framing, [Next]_vars PROVE Framing'
    OBVIOUS
  <2>1. Typed'
    BY DEF Sockets
  <2>2. ASSUME NEW j \in Conns PROVE Framed(j)'
    <3>1. Framed(j)
      BY DEF Framing
    <3> QED  BY <2>1, <3>1, Steps, SenderFramed, ReceiverFramed
  <2> QED  BY <2>1, <2>2, IntegrityStep DEF Framing
<1> QED  BY <1>1, <1>2, SocketsAlways, AddressedAlways, PTL DEF Spec

\* A frame that enters a mailbox is one the sender wrote, its length and
\* payload of one message, sent to the ID of that mailbox (ReadFrame and
\* WriteFrame, framing.go; Send, dest.go), for any number of destinations,
\* messages and crashes and any capacity of the sockets.
THEOREM FramesWhole == Spec => []FrameIntegrity
<1>1. Framing => FrameIntegrity
  BY DEF Framing
<1> QED  BY <1>1, FramingAlways, PTL

-----------------------------------------------------------------------------
(* The order *)

LEMMA BegunGrows ==
    ASSUME Sockets, [Next]_vars
    PROVE  Begun \in Int /\ Begun <= Begun'
<1>1. sent \in Int /\ Begun \in Int
  BY Constants DEF Sockets, Typed, Begun
<1>2. ASSUME NEW d \in Dests, NEW big \in BOOLEAN, Send(d, big) PROVE Begun <= Begun'
  BY <1>1, <1>2 DEF Send, Begun
<1>3. Dial \/ WriteFails \/ SenderEnds => Begun <= Begun'
  BY <1>1 DEF Dial, WriteFails, SenderEnds, Begun
<1>4. CASE /\ UNCHANGED <<sent, cur, conns, sOpen, peer>>
           /\ \/ UNCHANGED spc
              \/ spc \in {"length", "payload"} /\ spc' \in {"payload", "idle"}
  BY <1>1, <1>4 DEF Begun
<1> QED  BY <1>1, <1>2, <1>3, <1>4, SenderSide

\* Only a dial opens the receiver's end of a connection.
LEMMA OpenedBy ==
    ASSUME Sockets, [Next]_vars, NEW j \in Conns
    PROVE  \/ rOpen'[j] => rOpen[j]
           \/ Dial
<1>1. Typed
  BY DEF Sockets
<1>2. ASSUME NEW d \in Dests, NEW big \in BOOLEAN, Send(d, big) PROVE UNCHANGED rOpen
  BY <1>2 DEF Send, connVars
<1>3. WritePart("length", "payload") \/ WritePart("payload", "idle") \/ WriteFails \/ SenderEnds
      \/ UNCHANGED net => UNCHANGED rOpen
  BY DEF WritePart, WriteTo, WriteFails, SenderEnds, net, connVars
<1>4. ASSUME NEW k \in Conns, Accept(k) \/ ReadLength(k) \/ ReadPayload(k)
                  \/ DiscardPayload(k) \/ PushFrame(k)
      PROVE  UNCHANGED rOpen
  BY <1>4 DEF Accept, ReadLength, ReadPayload, DiscardPayload, PushFrame
<1>5. ASSUME NEW k \in Conns, ReadFails(k) PROVE rOpen'[j] => rOpen[j]
  BY <1>1, <1>5 DEF Typed, ReadFails
<1>6. ASSUME NEW r \in Receivers, Crash(r) PROVE rOpen'[j] => rOpen[j]
  BY <1>6 DEF Crash
<1> QED  BY <1>2, <1>3, <1>4, <1>5, <1>6, Steps

LEMMA OneReaderStep ==
    ASSUME OneNumberPerID, Sockets, OneReader, [Next]_vars
    PROVE  OneReader'
<1>1. Typed /\ Table /\ TableMatchesSockets
  BY DEF Sockets
<1>2. ASSUME \A k \in Conns : rOpen'[k] => rOpen[k],
             \A k \in Conns : rOpen'[k] /\ spc' # "dead" => (sOpen[k] => sOpen'[k]),
             UNCHANGED peer, spc' # "dead" => spc # "dead"
      PROVE  OneReader'
  BY <1>2 DEF OneReader
<1>3. CASE Dial
  <2>1. /\ cur.d \in Dests /\ sent \in Conns /\ conns[cur.d] = NoConn
        /\ spc = "dial" /\ Assign[cur.d] \in Receivers
    BY <1>1, <1>3, Constants DEF Typed, Dial, Table
  <2>2. CASE UNCHANGED <<peer, sOpen, rOpen>> /\ spc' = "idle"
    BY <1>2, <2>1, <2>2
  <2>3. CASE /\ peer' = [peer EXCEPT ![sent] = Assign[cur.d]]
             /\ sOpen' = [sOpen EXCEPT ![sent] = TRUE]
             /\ rOpen' = [rOpen EXCEPT ![sent] = TRUE]
    <3>1. /\ peer'[sent] = Assign[cur.d] /\ sOpen'[sent] /\ rOpen'[sent]
          /\ \A k \in Conns \ {sent} : peer'[k] = peer[k] /\ sOpen'[k] = sOpen[k]
                                       /\ rOpen'[k] = rOpen[k]
      BY <1>1, <2>1, <2>3 DEF Typed
    <3>2. ASSUME NEW k \in Conns, rOpen[k] PROVE peer[k] # Assign[cur.d]
      <4>1. sOpen[k]
        BY <2>1, <3>2 DEF OneReader
      <4>2. PICK d \in Dests : conns[d] = k
        BY <1>1, <4>1 DEF TableMatchesSockets
      <4>3. k # NoConn /\ d # cur.d
        BY <2>1, <4>2, Constants
      <4>4. peer[k] = Assign[d]
        BY <1>1, <4>2, <4>3 DEF TableMatchesSockets
      <4> QED  BY <2>1, <4>3, <4>4 DEF OneNumberPerID
    <3>3. ASSUME NEW k \in Conns, rOpen'[k] PROVE sOpen'[k]
      BY <2>1, <3>1, <3>3 DEF OneReader
    <3>4. ASSUME NEW j \in Conns, NEW k \in Conns, rOpen'[j], rOpen'[k], peer'[j] = peer'[k]
          PROVE  j = k
      <4>1. CASE j = sent /\ k # sent
        BY <3>1, <3>2, <3>4, <4>1
      <4>2. CASE j # sent /\ k = sent
        BY <3>1, <3>2, <3>4, <4>2
      <4>3. CASE j # sent /\ k # sent
        BY <3>1, <3>4, <4>3 DEF OneReader
      <4> QED  BY <4>1, <4>2, <4>3
    <3> QED  BY <3>3, <3>4 DEF OneReader
  <2> QED  BY <1>3, <2>2, <2>3 DEF Dial
<1>4. CASE ~Dial
  <2>1. \A k \in Conns : rOpen'[k] => rOpen[k]
    BY <1>4, OpenedBy
  <2>2. ASSUME NEW d \in Dests, NEW big \in BOOLEAN, Send(d, big) PROVE OneReader'
    BY <1>2, <2>1, <2>2 DEF Send, connVars
  <2>3. CASE WriteFails
    <3>1. \A k \in Conns : k # conns[cur.d] => sOpen'[k] = sOpen[k]
      BY <1>1, <2>3 DEF WriteFails, Typed
    <3>2. ~rOpen'[conns[cur.d]] /\ UNCHANGED peer /\ spc # "dead"
      BY <2>3 DEF WriteFails
    <3> QED  BY <1>2, <2>1, <3>1, <3>2
  <2>4. CASE SenderEnds
    BY <1>2, <2>1, <2>4 DEF SenderEnds
  <2>5. CASE /\ UNCHANGED <<sent, cur, conns, sOpen, peer>>
             /\ \/ UNCHANGED spc
                \/ spc \in {"length", "payload"} /\ spc' \in {"payload", "idle"}
    BY <1>2, <2>1, <2>5
  <2> QED  BY <1>4, <2>2, <2>3, <2>4, <2>5, SenderSide
<1> QED  BY <1>3, <1>4

\* What can become the first token pending on a connection: the token that
\* was, the next frame's after the first frame has been taken, or the one
\* that the sender writes.
LEMMA FirstPending ==
    ASSUME Sockets, Framing, [Next]_vars, NEW j \in Conns, rOpen'[j], Pending(j)' # <<>>
    PROVE  /\ rOpen[j] /\ peer'[j] = peer[j]
           /\ \/ /\ Pending(j) # <<>> /\ Pending(j)'[1] = Pending(j)[1]
                 /\ UNCHANGED arrived \/ (\E k \in Conns : k # j /\ PushFrame(k))
              \/ /\ spc = "length" /\ Pending(j)'[1].n = sent /\ UNCHANGED arrived
              \/ Pending(j) # <<>> /\ Pending(j)[1].n < Pending(j)'[1].n<1>1. /\ Typed /\ Socket(j) /\ Framed(j) /\ InStep(j)
      /\ frame[j] \in Seq(Token) /\ stream[j] \in Seq(Token)
  BY PendingTyped DEF Sockets, Framing, Framed
<1> DEFINE Others == \E k \in Conns : k # j /\ PushFrame(k)
           Goal == /\ rOpen[j] /\ peer'[j] = peer[j]
                   /\ \/ /\ Pending(j) # <<>> /\ Pending(j)'[1] = Pending(j)[1]
                         /\ UNCHANGED arrived \/ Others
                      \/ /\ spc = "length" /\ Pending(j)'[1].n = sent /\ UNCHANGED arrived
                      \/ Pending(j) # <<>> /\ Pending(j)[1].n < Pending(j)'[1].n
<1>2. CASE DiscardPayload(j) \/ PushFrame(j)
  <2>1. UNCHANGED <<rOpen, peer>>
    BY <1>2 DEF DiscardPayload, PushFrame
  <2>2. PICK f \in Seq(Token) :
            /\ Len(f) = 2 /\ Pending(j) = f \o stream'[j] /\ stream'[j] \in Seq(Token)
            /\ frame'[j] = <<>>
    BY <1>1, <1>2, FrameTaken
  <2>3. PICK s \in Seq(Token) : s = stream'[j]
    BY <2>2
  <2>4. Pending(j)' = s /\ s # <<>> /\ Pending(j) = f \o s
    BY <2>2, <2>3, ConcatEmptySeq DEF Pending
  <2>5. FrameSeq(f \o s)
    BY <1>1, <2>4 DEF Framed
  <2>6. f[1].n < s[1].n /\ f \o s # <<>> /\ (f \o s)[1] = f[1]
    BY <2>2, <2>4, <2>5, FrameLeaves
  <2> QED  BY <2>1, <2>4, <2>6
<1>3. CASE ~DiscardPayload(j) /\ ~PushFrame(j)
  <2>1. UNCHANGED arrived \/ Others
    BY <1>3, ArrivedBy
  <2>2. ASSUME rOpen[j], peer'[j] = peer[j], Pending(j)' = Pending(j) PROVE Goal
    BY <2>1, <2>2
  <2>3. ASSUME rOpen[j], peer'[j] = peer[j], stream'[j] = stream[j], frame'[j] = frame[j]
        PROVE  Goal
    <3>1. Pending(j)' = Pending(j)
      BY <2>3 DEF Pending
    <3> QED  BY <2>2, <2>3, <3>1
  <2> SUFFICES Goal
    OBVIOUS
  <2> HIDE DEF Others, Goal
  <2>4. ASSUME NEW d \in Dests, NEW big \in BOOLEAN, Send(d, big) PROVE Goal
    BY <2>3, <2>4 DEF Send, connVars
  <2>5. CASE Dial
    <3>1. sent \in Conns /\ UNCHANGED <<frame, stream>>
      BY <1>1, <2>5 DEF Typed, Dial
    <3>2. CASE UNCHANGED <<rOpen, peer>>
      <4>1. rOpen[j]
        BY <3>2
      <4> QED  BY <2>3, <3>1, <3>2, <4>1
    <3>3. CASE /\ peer' = [peer EXCEPT ![sent] = Assign[cur.d]]
               /\ rOpen' = [rOpen EXCEPT ![sent] = TRUE]
      <4>1. CASE j = sent
        <5>1. frame[j] = <<>> /\ stream[j] = <<>>
          BY <1>1, <2>5, <4>1 DEF Socket, Dial
        <5>2. Pending(j)' = <<>>
          BY <3>1, <5>1, NothingPending DEF Pending
        <5> QED  BY <5>2
      <4>2. CASE j # sent
        <5>1. rOpen[j] /\ peer'[j] = peer[j]
          BY <1>1, <3>3, <4>2 DEF Typed
        <5> QED  BY <2>3, <3>1, <5>1
      <4> QED  BY <4>1, <4>2
    <3> QED  BY <2>5, <3>2, <3>3 DEF Dial
  <2>6. CASE WriteFails \/ SenderEnds
    <3>1. UNCHANGED <<frame, stream, rOpen, peer>>
      BY <2>6 DEF WriteFails, SenderEnds
    <3>2. rOpen[j]
      BY <3>1
    <3> QED  BY <2>3, <3>1, <3>2
  <2>7. ASSUME NEW part \in {"length", "payload"}, NEW next \in {"payload", "idle"},
               WritePart(part, next)
        PROVE  Goal
    <3> DEFINE k == conns[cur.d]
               e == [n |-> sent, part |-> part, big |-> part = "length" /\ cur.big,
                    to |-> Assign[cur.d]]
    <3>1. /\ k \in Conns /\ sOpen[k] /\ rOpen[k] /\ sent \in Conns /\ spc = part
          /\ cur.d \in Dests
          /\ stream' = [stream EXCEPT ![k] = Append(stream[k], e)]
          /\ UNCHANGED <<rOpen, peer, frame, arrived>>
      BY <2>7, InUse DEF WritePart, WriteTo, recvVars
    <3>2. e \in Token /\ e.n = sent
      <4>1. (part = "length" /\ cur.big) \in BOOLEAN
        OBVIOUS
      <4> QED  BY <3>1, <4>1, Constants DEF Token, Conns
    <3>3. MidFrame(j) <=> part = "payload" /\ k = j
      BY <3>1 DEF MidFrame
    <3> HIDE DEF e, k
    <3>4. CASE j # k
      <4>1. stream'[j] = stream[j]
        BY <1>1, <3>1, <3>4 DEF Typed
      <4> QED  BY <2>3, <3>1, <4>1
    <3>5. CASE j = k
      <4>1. stream'[j] = Append(stream[j], e)
        BY <1>1, <3>1, <3>5 DEF Typed
      <4>2. Pending(j)' = Append(Pending(j), e)
        <5>1. frame[j] \o Append(stream[j], e) = Append(frame[j] \o stream[j], e)
          BY <1>1, <3>2, Growing
        <5> QED  BY <3>1, <4>1, <5>1 DEF Pending
      <4>3. Pending(j) \in Seq(Token)
        BY <1>1, PendingTyped
      <4>4. CASE Pending(j) = <<>>
        <5>1. ~Unfinished(Pending(j))
          BY <4>4 DEF Unfinished
        <5>2. spc = "length"
          BY <1>1, <3>1, <3>3, <3>5, <5>1 DEF Framed
        <5>3. Pending(j)'[1] = e
          BY <3>2, <4>2, <4>4
        <5> QED  BY <3>1, <3>2, <3>5, <5>2, <5>3 DEF Goal
      <4>5. CASE Pending(j) # <<>>
        <5>1. Len(Pending(j)) >= 1
          BY <1>1, <4>5, PendingTyped
        <5>2. Pending(j)'[1] = Pending(j)[1]
          BY <3>2, <4>2, <4>3, <5>1, Growing
        <5> QED  BY <3>1, <3>5, <4>5, <5>2 DEF Goal
      <4> QED  BY <4>4, <4>5
    <3> QED  BY <3>4, <3>5
  <2>8. ASSUME NEW k \in Conns, Accept(k) PROVE Goal
    BY <2>3, <2>8 DEF Accept
  <2>9. ASSUME NEW k \in Conns, ReadLength(k) \/ ReadPayload(k) PROVE Goal
    <3>1. UNCHANGED <<rOpen, peer>>
      BY <2>9 DEF ReadLength, ReadPayload
    <3>2. k # j => stream'[j] = stream[j] /\ frame'[j] = frame[j]
      BY <1>1, <2>9 DEF Typed, ReadLength, ReadPayload, Take
    <3>3. CASE k = j
      BY <1>1, <2>2, <2>9, <3>1, <3>3, ReadKeeps
    <3>4. CASE k # j
      BY <2>3, <3>1, <3>2, <3>4
    <3> QED  BY <3>3, <3>4
  <2>10. ASSUME NEW k \in Conns, DiscardPayload(k) \/ PushFrame(k) PROVE Goal
    <3>1. UNCHANGED <<rOpen, peer>> /\ k # j
      BY <1>3, <2>10 DEF DiscardPayload, PushFrame
    <3>2. stream'[j] = stream[j] /\ frame'[j] = frame[j]
      BY <1>1, <2>10, <3>1 DEF Typed, DiscardPayload, PushFrame, Take
    <3> QED  BY <2>3, <3>1, <3>2
  <2>11. ASSUME NEW k \in Conns, ReadFails(k) PROVE Goal
    <3>1. UNCHANGED <<stream, peer>> /\ k # j
      BY <1>1, <2>11 DEF Typed, ReadFails
    <3>2. rOpen'[j] = rOpen[j] /\ frame'[j] = frame[j]
      BY <1>1, <2>11, <3>1 DEF Typed, ReadFails
    <3> QED  BY <2>3, <3>1, <3>2
  <2>12. ASSUME NEW r \in Receivers, Crash(r) PROVE Goal
    <3>1. rOpen[j] /\ ~(peer[j] = r /\ rOpen[j])
      BY <2>12 DEF Crash
    <3>2. stream'[j] = stream[j] /\ frame'[j] = frame[j] /\ UNCHANGED peer
      BY <2>12, <3>1 DEF Crash
    <3> QED  BY <2>3, <3>1, <3>2
  <2>13. CASE UNCHANGED net
    BY <2>3, <2>13 DEF net, connVars
  <2>14. WritePart("length", "payload") \/ WritePart("payload", "idle") => Goal
    BY <2>7
  <2>15. (\E k \in Conns : Accept(k) \/ ReadLength(k) \/ ReadPayload(k)
                 \/ DiscardPayload(k) \/ ReadFails(k) \/ PushFrame(k)) => Goal
    BY <2>8, <2>9, <2>10, <2>11
  <2> QED  BY <2>4, <2>5, <2>6, <2>12, <2>13, <2>14, <2>15, Steps
<1> QED  BY <1>2, <1>3

\* The frame that is pushed is the first one pending on its connection.
LEMMA PushedFirst ==
    ASSUME Sockets, Framing, NEW k \in Conns, PushFrame(k)
    PROVE  /\ rOpen[k] /\ peer[k] \in Receivers
           /\ Pending(k) # <<>> /\ Pending(k)[1] = frame[k][1]
           /\ frame[k][1].n \in Int /\ frame[k][1].n <= Begun
<1>1. Typed /\ Socket(k) /\ Framed(k) /\ rpc[k] = "push"
  BY DEF Sockets, Framing, PushFrame
<1>2. rOpen[k] /\ peer[k] \in Receivers
  BY <1>1 DEF Socket
<1>3. /\ frame[k] \in Seq(Token) /\ stream[k] \in Seq(Token) /\ Len(frame[k]) = 2
      /\ FrameSeq(frame[k] \o stream[k])
  BY <1>1, PendingTyped DEF Framed, InStep, Pending
<1>4. Pending(k) # <<>> /\ Pending(k)[1] = frame[k][1]
  BY <1>3, FrameLeaves DEF Pending
<1>5. 1 \in 1..Len(Pending(k))
  BY <1>1, <1>4, PendingTyped
<1>6. Pending(k)[1].n <= Begun /\ Pending(k)[1] \in Token
  BY <1>1, <1>5, PendingTyped DEF Framed
<1> QED  BY <1>2, <1>4, <1>6, Constants

LEMMA ArrivedTyped ==
    ASSUME Sockets, Framing, NEW r \in Receivers
    PROVE  /\ Len(arrived[r]) \in Nat /\ DOMAIN arrived[r] = 1..Len(arrived[r])
           /\ \A i \in 1..Len(arrived[r]) : arrived[r][i][1].n \in Int
<1>1. arrived[r] \in Seq(Seq(Token))
  BY DEF Sockets, Typed
<1>2. Len(arrived[r]) \in Nat /\ DOMAIN arrived[r] = 1..Len(arrived[r])
  BY <1>1, LenProperties
<1>3. ASSUME NEW i \in 1..Len(arrived[r]) PROVE arrived[r][i][1].n \in Int
  <2>1. arrived[r][i] \in Seq(Token)
    BY <1>1, ElementOfSeq
  <2>2. Len(arrived[r][i]) = 2
    BY <1>2 DEF Framing, FrameIntegrity
  <2>3. PICK f \in Seq(Token) : f = arrived[r][i]
    BY <2>1
  <2>4. f[1] \in Token
    BY <2>2, <2>3, ElementOfSeq
  <2> QED  BY <2>3, <2>4, Constants
<1> QED  BY <1>2, <1>3

LEMMA AheadStep ==
    ASSUME Sockets, Sockets', Framing, Framing', OneReader, Ahead, [Next]_vars
    PROVE  Ahead'
<1>1. Begun \in Int /\ Begun' \in Int /\ Begun <= Begun'
  <2>1. sent' \in Int
    BY Constants DEF Sockets, Typed
  <2> QED  BY <2>1, BegunGrows DEF Begun
<1>2. ASSUME NEW r \in Receivers, NEW i \in 1..Len(arrived'[r])
      PROVE  arrived'[r][i][1].n <= Begun'
  <2>1. CASE arrived'[r] = arrived[r]
    BY <1>1, <1>2, <2>1, ArrivedTyped DEF Ahead
  <2>2. CASE arrived'[r] # arrived[r]
    <3>1. PICK k \in Conns : PushFrame(k)
      BY <2>2, ArrivedBy
    <3>2. /\ Len(arrived[r]) \in Nat /\ Len(arrived'[r]) = Len(arrived[r]) + 1
          /\ \A m \in 1..Len(arrived[r]) : arrived'[r][m] = arrived[r][m]
          /\ arrived'[r][Len(arrived[r]) + 1] = frame[k]
      BY <2>2, <3>1, Arrives
    <3>3. frame[k][1].n \in Int /\ frame[k][1].n <= Begun
      BY <3>1, PushedFirst
    <3>4. CASE i \in 1..Len(arrived[r])
      BY <1>1, <3>2, <3>4, ArrivedTyped, SMTT(30) DEF Ahead
    <3>5. CASE i = Len(arrived[r]) + 1
      BY <1>1, <3>2, <3>3, <3>5
    <3> QED  BY <1>2, <3>2, <3>4, <3>5
  <2> QED  BY <2>1, <2>2
<1>3. ASSUME NEW j \in Conns, rOpen'[j], Pending(j)' # <<>>,
             NEW i \in 1..Len(arrived'[peer'[j]])
      PROVE  arrived'[peer'[j]][i][1].n < Pending(j)'[1].n
  <2>1. /\ rOpen[j] /\ peer'[j] = peer[j]
        /\ \/ /\ Pending(j) # <<>> /\ Pending(j)'[1] = Pending(j)[1]
              /\ UNCHANGED arrived \/ (\E k \in Conns : k # j /\ PushFrame(k))
           \/ /\ spc = "length" /\ Pending(j)'[1].n = sent /\ UNCHANGED arrived
           \/ Pending(j) # <<>> /\ Pending(j)[1].n < Pending(j)'[1].n
    BY <1>3, FirstPending
  <2>2. PICK r \in Receivers : r = peer[j]
    BY <2>1 DEF Sockets, Socket
  <2>3. Pending(j) # <<>> => Pending(j)[1].n \in Int
    <3>1. Typed
      BY DEF Sockets
    <3> QED  BY <3>1, PendingTyped, Constants
  <2>4. PICK b \in Int : b = Pending(j)'[1].n
    <3>1. Typed' /\ <<>> \in Seq(Token)
      BY DEF Sockets
    <3>2. frame'[j] \in Seq(Token) /\ stream'[j] \in Seq(Token)
      BY <3>1 DEF Typed
    <3>3. \A p \in Seq(Token) : p # <<>> => p[1] \in Token
      BY EmptySeq, ElementOfSeq
    <3>4. Pending(j)' \in Seq(Token)
      BY <3>2, ConcatProperties DEF Pending
    <3>5. Pending(j)'[1] \in Token
      BY <1>3, <3>3, <3>4
    <3> QED  BY <3>5, Constants
  <2>5. ASSUME NEW m \in 1..Len(arrived[r]), Pending(j) # <<>>
        PROVE  arrived[r][m][1].n < Pending(j)[1].n /\ arrived[r][m][1].n \in Int
    BY <2>1, <2>2, <2>5, ArrivedTyped DEF Ahead
  <2>6. CASE arrived'[r] = arrived[r]
    <3>1. i \in 1..Len(arrived[r]) /\ arrived'[r][i] = arrived[r][i]
      BY <1>3, <2>1, <2>2, <2>6
    <3>2. CASE Pending(j) # <<>> /\ Pending(j)'[1] = Pending(j)[1]
      BY <2>1, <2>2, <2>5, <3>1, <3>2
    <3>3. CASE spc = "length" /\ b = sent
      <4>1. arrived[r][i][1].n <= Begun /\ arrived[r][i][1].n \in Int
        BY <3>1, ArrivedTyped DEF Ahead
      <4>2. Begun = sent - 1 /\ sent \in Int
        BY <3>3, Constants DEF Begun, Sockets, Typed
      <4>3. arrived[r][i][1].n < b
        BY <3>3, <4>1, <4>2
      <4> QED  BY <2>1, <2>2, <2>4, <3>1, <4>3
    <3>4. CASE Pending(j) # <<>> /\ Pending(j)[1].n < b
      <4>1. arrived[r][i][1].n < b
        BY <2>3, <2>5, <3>1, <3>4
      <4> QED  BY <2>1, <2>2, <2>4, <3>1, <4>1
    <3> QED  BY <2>1, <2>4, <3>2, <3>3, <3>4
  <2>7. CASE arrived'[r] # arrived[r]
    <3>1. PICK k \in Conns : PushFrame(k)
      BY <2>7, ArrivedBy
    <3>2. /\ r = peer[k]
          /\ Len(arrived[r]) \in Nat /\ Len(arrived'[r]) = Len(arrived[r]) + 1
          /\ \A m \in 1..Len(arrived[r]) : arrived'[r][m] = arrived[r][m]
          /\ arrived'[r][Len(arrived[r]) + 1] = frame[k]
      BY <2>7, <3>1, Arrives
    <3>3. k = j
      BY <2>1, <2>2, <3>1, <3>2, PushedFirst DEF OneReader
    <3>4. ASSUME NEW l \in Conns, PushFrame(l) PROVE l = j
      <4>1. r = peer[l]
        BY <2>7, <3>4, Arrives
      <4> QED  BY <2>1, <2>2, <3>4, <4>1, PushedFirst DEF OneReader
    <3>5. Pending(j) # <<>> /\ Pending(j)[1].n < b
      BY <2>1, <2>4, <2>7, <3>4
    <3>6. Pending(j)[1] = frame[j][1]
      BY <3>1, <3>3, PushedFirst
    <3>7. i \in 1..Len(arrived[r]) \/ i = Len(arrived[r]) + 1
      BY <1>3, <2>1, <2>2, <3>2
    <3>8. CASE i \in 1..Len(arrived[r])
      <4>1. arrived[r][i][1].n < b
        BY <2>3, <2>5, <3>5, <3>8
      <4> QED  BY <2>1, <2>2, <2>4, <3>2, <3>8, <4>1
    <3>9. CASE i = Len(arrived[r]) + 1
      BY <2>1, <2>2, <2>4, <3>2, <3>3, <3>5, <3>6, <3>9
    <3> QED  BY <3>7, <3>8, <3>9
  <2> QED  BY <2>6, <2>7
<1> QED  BY <1>2, <1>3 DEF Ahead

LEMMA SenderOrderStep ==
    ASSUME Sockets, Framing, Ahead, SenderOrder, [Next]_vars
    PROVE  SenderOrder'
<1>1. CASE UNCHANGED arrived
  BY <1>1 DEF SenderOrder
<1>2. ASSUME NEW k \in Conns, PushFrame(k) PROVE SenderOrder'
  <2> SUFFICES ASSUME NEW r \in Receivers, NEW i \in DOMAIN arrived'[r],
                      NEW j \in DOMAIN arrived'[r], i < j
               PROVE  arrived'[r][i][1].n < arrived'[r][j][1].n
    BY DEF SenderOrder
  <2>1. CASE arrived'[r] = arrived[r]
    BY <2>1 DEF SenderOrder
  <2>2. CASE arrived'[r] # arrived[r]
    <3>1. /\ r = peer[k] /\ Len(arrived[r]) \in Nat /\ Len(arrived'[r]) = Len(arrived[r]) + 1
          /\ \A m \in 1..Len(arrived[r]) : arrived'[r][m] = arrived[r][m]
          /\ arrived'[r][Len(arrived[r]) + 1] = frame[k]
      BY <1>2, <2>2, Arrives
    <3>2. DOMAIN arrived[r] = 1..Len(arrived[r])
      BY ArrivedTyped
    <3>3. DOMAIN arrived'[r] = 1..Len(arrived'[r])
      <4>1. PushFrame(k) => arrived'[r] = Append(arrived[r], frame[k])
        BY <2>2, <3>1 DEF PushFrame, Sockets, Typed
      <4>2. arrived[r] \in Seq(Seq(Token)) /\ frame[k] \in Seq(Token)
        BY DEF Sockets, Typed
      <4>3. Append(arrived[r], frame[k]) \in Seq(Seq(Token))
        BY <4>2
      <4> QED  BY <1>2, <4>1, <4>3, LenProperties
    <3>4. i \in 1..Len(arrived[r])
      BY <3>1, <3>3
    <3>5. CASE j \in 1..Len(arrived[r])
      BY <3>1, <3>2, <3>4, <3>5 DEF SenderOrder
    <3>6. CASE j = Len(arrived[r]) + 1
      <4>1. arrived[r][i][1].n < Pending(k)[1].n /\ Pending(k)[1] = frame[k][1]
        BY <1>2, <3>1, <3>4, PushedFirst DEF Ahead
      <4> QED  BY <3>1, <3>4, <3>6, <4>1
    <3> QED  BY <3>1, <3>3, <3>5, <3>6
  <2> QED  BY <2>1, <2>2
<1> QED  BY <1>1, <1>2, ArrivedBy

\* The messages of a sender reach each receiver in the order they were sent,
\* and at most once, through crashes and reconnections (dest.go:44-60,
\* listener.go), if no ID has two destination numbers.
THEOREM OrderKept == ASSUME OneNumberPerID PROVE Spec => []SenderOrder
<1>1. Init => Ordering
  <2> SUFFICES ASSUME Init PROVE Ordering
    OBVIOUS
  <2>1. OneReader
    BY DEF Init, OneReader
  <2>2. \A r \in Receivers : 1..Len(arrived[r]) = {} /\ DOMAIN arrived[r] = {}
    BY DEF Init
  <2> QED  BY <2>1, <2>2 DEF Init, Ordering, Ahead, SenderOrder
<1>2. /\ Sockets /\ Sockets' /\ Framing /\ Framing' /\ Ordering /\ [Next]_vars
      => Ordering'
  BY OneReaderStep, AheadStep, SenderOrderStep DEF Ordering
<1>3. Ordering => SenderOrder
  BY DEF Ordering
<1> QED  BY <1>1, <1>2, <1>3, SocketsAlways, FramingAlways, PTL DEF Spec
=============================================================================
