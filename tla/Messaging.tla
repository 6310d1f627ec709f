------------------------------ MODULE Messaging ------------------------------
(***************************************************************************)
(* Sandbox-to-sandbox messages: one sending process (DestTable.Send and     *)
(* WriteFrame, on its guest's goroutine) and the processes that listen on   *)
(* the IDs it was given (Serve, then serveConn and ReadFrame on a goroutine *)
(* per connection), which crash and come back, as the sender may die at any *)
(* point.  The socket is external: a byte stream of bounded capacity that   *)
(* ends, once drained, when the sender's end is closed, and a write on it   *)
(* fails when the receiver's end is.                                        *)
(* A frame is two tokens in the stream, its length prefix and its payload,  *)
(* as the two Writes of WriteFrame make it.                                 *)
(***************************************************************************)
EXTENDS MailboxQueue

CONSTANTS Receivers,   \* the IDs
          Dests,       \* destination numbers that are assigned
          Assign,      \* Assign[d]: the ID of -d d=ID
          MaxSend,     \* bound: messages sent
          MaxCrash,    \* bound: crashes of receivers
          Buffer       \* tokens a socket holds before a Write blocks

ASSUME MessagingAssumption ==
    /\ Assign \in [Dests -> Receivers]
    /\ MaxSend \in Nat /\ MaxCrash \in Nat
    /\ Buffer \in Nat \ {0}

Messages == 1..MaxSend   \* numbered in the order the guest sends them
Conns == Messages        \* a connection is named by the message it was dialled for
NoConn == 0

\* `big': taken for a length prefix, the token exceeds the receiver's
\* max_frame.  A payload never does: its first bytes may be any, and small
\* ones are what a reader that is out of step would be misled by.  `to' is
\* history: the ID that Send meant, which is not in the frame and no guard reads.
Token == [n : Messages, part : {"length", "payload"}, big : BOOLEAN,
          to : Receivers]

VARIABLES
    spc,      \* the sender's goroutine: idle, in Send, or "dead"
    sent,     \* messages the guest has sent so far
    cur,      \* the message in progress: its destination number and `big'
    conns,    \* DestTable.conns
    stream,   \* stream[k]: tokens written and not read
    sOpen,    \* sOpen[k]: the sender's end is open
    rOpen,    \* rOpen[k]: the receiver's end is open
    peer,     \* peer[k]: the ID that k leads to
    rpc,      \* rpc[k]: the receiver's goroutine for k
    frame,    \* frame[k]: the prefix, then also the payload, it has read
    up,       \* up[r]: the process that listens on r: "serving", "deaf" once
              \* its Serve has returned, or "off" when there is none
    crashes,  \* receivers crashed so far
    box,      \* box[r]: the mailbox of r
    arrived   \* history: the frames that entered the mailbox of r

connVars == <<stream, sOpen, rOpen, peer, rpc, frame>>
recvVars == <<up, crashes, box, arrived>>
vars == <<spc, sent, cur, conns, connVars, recvVars>>

Init ==
    /\ spc = "idle"
    /\ sent = 0
    /\ cur = [d |-> CHOOSE d \in Dests : TRUE, big |-> FALSE]
    /\ conns = [d \in Dests |-> NoConn]
    /\ stream = [k \in Conns |-> <<>>]
    /\ sOpen = [k \in Conns |-> FALSE]
    /\ rOpen = [k \in Conns |-> FALSE]
    /\ peer = [k \in Conns |-> CHOOSE r \in Receivers : TRUE]  \* until dialled
    /\ rpc = [k \in Conns |-> "none"]
    /\ frame = [k \in Conns |-> <<>>]
    /\ up = [r \in Receivers |-> "off"]
    /\ crashes = 0
    /\ box = [r \in Receivers |-> <<>>]
    /\ arrived = [r \in Receivers |-> <<>>]

-----------------------------------------------------------------------------
(* The sender *)

\* Faulty variant: a connection per message.
SendDialling(d, big) ==
    /\ spc = "idle"
    /\ sent < MaxSend
    /\ sent' = sent + 1
    /\ cur' = [d |-> d, big |-> big]
    /\ spc' = "dial"
    /\ UNCHANGED <<conns, connVars, recvVars>>

\* Send is entered and looks for a cached connection.  (For a number without
\* an ID it returns at once.)
Send(d, big) ==
    /\ spc = "idle"
    /\ sent < MaxSend
    /\ sent' = sent + 1
    /\ cur' = [d |-> d, big |-> big]
    /\ spc' = IF conns[d] = NoConn THEN "dial" ELSE "length"
    /\ UNCHANGED <<conns, connVars, recvVars>>

\* net.Dial on the socket of the ID.  The message is dropped when nobody is
\* there, or when the dial fails although somebody is: the backlog is full, or
\* file descriptors have run out.  A listener whose process has stopped to
\* accept still has its backlog.
Dial ==
    LET r == Assign[cur.d]
    IN  /\ spc = "dial"
        /\ \/ /\ up[r] # "off"
              /\ conns' = [conns EXCEPT ![cur.d] = sent]
              /\ peer' = [peer EXCEPT ![sent] = r]
              /\ sOpen' = [sOpen EXCEPT ![sent] = TRUE]
              /\ rOpen' = [rOpen EXCEPT ![sent] = TRUE]
              /\ rpc' = [rpc EXCEPT ![sent] = "backlog"]
              /\ spc' = "length"
           \/ /\ spc' = "idle"
              /\ UNCHANGED <<conns, peer, sOpen, rOpen, rpc>>
        /\ UNCHANGED <<sent, cur, stream, frame, recvVars>>

\* WriteFrame: a Write of `part' to connection k goes through.  It blocks while
\* the socket is full, for as long as that is: Send has no deadline.
WriteTo(k, part, next) ==
    /\ spc = part
    /\ rOpen[k]
    /\ Len(stream[k]) < Buffer
    /\ stream' = [stream EXCEPT ![k] =
                     Append(@, [n |-> sent, part |-> part,
                                big |-> part = "length" /\ cur.big,
                                to |-> Assign[cur.d]])]
    /\ spc' = next
    /\ UNCHANGED <<sent, cur, conns, sOpen, rOpen, peer, rpc, frame, recvVars>>

\* Faulty variant: the connection dialled last serves every number.
WritePartNewest(part, next) ==
    LET newest == CHOOSE k \in Conns :
                      /\ \E d \in Dests : conns[d] = k
                      /\ \A d \in Dests : conns[d] <= k
    IN  WriteTo(newest, part, next)

\* Send hands WriteFrame the cached or newly dialled connection of the number.
WritePart(part, next) == WriteTo(conns[cur.d], part, next)

WriteFrame == WritePart("length", "payload") \/ WritePart("payload", "idle")

\* Faulty variant: the broken connection stays in the table.
WriteFailsKeeping ==
    LET k == conns[cur.d]
    IN  /\ spc \in {"length", "payload"}
        /\ ~rOpen[k]
        /\ sOpen' = [sOpen EXCEPT ![k] = FALSE]
        /\ spc' = "idle"
        /\ UNCHANGED <<sent, cur, conns, stream, rOpen, peer, rpc, frame, recvVars>>

\* A Write fails: Send closes the connection and forgets it; the next Send to
\* this number dials again.
WriteFails ==
    LET k == conns[cur.d]
    IN  /\ spc \in {"length", "payload"}
        /\ ~rOpen[k]
        /\ sOpen' = [sOpen EXCEPT ![k] = FALSE]
        /\ conns' = [conns EXCEPT ![cur.d] = NoConn]
        /\ spc' = "idle"
        /\ UNCHANGED <<sent, cur, stream, rOpen, peer, rpc, frame, recvVars>>

\* The sender's process ends: DestTable.Close between two sends, or killed
\* in the middle of one.
SenderEnds ==
    /\ spc # "dead"
    /\ spc' = "dead"
    /\ sOpen' = [k \in Conns |-> FALSE]
    /\ conns' = [d \in Dests |-> NoConn]
    /\ UNCHANGED <<sent, cur, stream, rOpen, peer, rpc, frame, recvVars>>

-----------------------------------------------------------------------------
(* The receiver's goroutine for connection k *)

Goto(k, label) == rpc' = [rpc EXCEPT ![k] = label]

\* Serve: l.Accept, and a goroutine is started.
Accept(k) ==
    /\ rpc[k] = "backlog"
    /\ up[peer[k]] = "serving"
    /\ Goto(k, "length")
    /\ UNCHANGED <<spc, sent, cur, conns, stream, sOpen, rOpen, peer, frame, recvVars>>

\* Serve: l.Accept fails, for want of file descriptors for example, and Serve
\* returns for good; its process, socket and connections live on.
AcceptFails(r) ==
    /\ up[r] = "serving"
    /\ up' = [up EXCEPT ![r] = "deaf"]
    /\ UNCHANGED <<spc, sent, cur, conns, connVars, crashes, box, arrived>>

\* One io.ReadFull (or io.CopyN) takes the next token from the stream.
Take(k) ==
    /\ stream[k] # <<>>
    /\ stream' = [stream EXCEPT ![k] = Tail(@)]

\* Faulty variant: the payload of a frame that is too long is not read away.
ReadLengthOnly(k) ==
    /\ rpc[k] = "length"
    /\ Take(k)
    /\ frame' = [frame EXCEPT ![k] = <<Head(stream[k])>>]
    /\ Goto(k, IF Head(stream[k]).big THEN "length" ELSE "payload")
    /\ UNCHANGED <<spc, sent, cur, conns, sOpen, rOpen, peer, recvVars>>

\* ReadFrame: the length prefix, compared with maxFrame.
ReadLength(k) ==
    /\ rpc[k] = "length"
    /\ Take(k)
    /\ frame' = [frame EXCEPT ![k] = <<Head(stream[k])>>]
    /\ Goto(k, IF Head(stream[k]).big THEN "discard" ELSE "payload")
    /\ UNCHANGED <<spc, sent, cur, conns, sOpen, rOpen, peer, recvVars>>

\* ReadFrame: the payload.
ReadPayload(k) ==
    /\ rpc[k] = "payload"
    /\ Take(k)
    /\ frame' = [frame EXCEPT ![k] = Append(@, Head(stream[k]))]
    /\ Goto(k, "push")
    /\ UNCHANGED <<spc, sent, cur, conns, sOpen, rOpen, peer, recvVars>>

\* ReadFrame: an oversized payload is read and thrown away; serveConn logs it.
DiscardPayload(k) ==
    /\ rpc[k] = "discard"
    /\ Take(k)
    /\ frame' = [frame EXCEPT ![k] = <<>>]
    /\ Goto(k, "length")
    /\ UNCHANGED <<spc, sent, cur, conns, sOpen, rOpen, peer, recvVars>>

\* ReadFrame: the stream ends, within a frame or between two.
ReadFails(k) ==
    /\ rpc[k] \in {"length", "payload", "discard"}
    /\ stream[k] = <<>>
    /\ ~sOpen[k]
    /\ rOpen' = [rOpen EXCEPT ![k] = FALSE]
    /\ frame' = [frame EXCEPT ![k] = <<>>]
    /\ Goto(k, "done")
    /\ UNCHANGED <<spc, sent, cur, conns, stream, sOpen, peer, recvVars>>

Event(k) == [kind |-> KindMessage, frame |-> frame[k]]

\* Faulty variant: push waits for room.
PushWaits(k) ==
    /\ rpc[k] = "push"
    /\ ~Full(box[peer[k]], Event(k))
    /\ box' = [box EXCEPT ![peer[k]] = Pushed(@, Event(k))]
    /\ arrived' = [arrived EXCEPT ![peer[k]] = Append(@, frame[k])]
    /\ frame' = [frame EXCEPT ![k] = <<>>]
    /\ Goto(k, "length")
    /\ UNCHANGED <<spc, sent, cur, conns, stream, sOpen, rOpen, peer, up, crashes>>

\* serveConn: mailbox.Push, which drops the message when the mailbox is full.
PushFrame(k) ==
    /\ rpc[k] = "push"
    /\ box' = [box EXCEPT ![peer[k]] = Pushed(@, Event(k))]
    /\ arrived' = IF Full(box[peer[k]], Event(k)) THEN arrived
                  ELSE [arrived EXCEPT ![peer[k]] = Append(@, frame[k])]
    /\ frame' = [frame EXCEPT ![k] = <<>>]
    /\ Goto(k, "length")
    /\ UNCHANGED <<spc, sent, cur, conns, stream, sOpen, rOpen, peer, up, crashes>>

-----------------------------------------------------------------------------
(* The receiver's guest and process *)

GuestRecv(r) ==
    /\ box[r] # <<>>
    /\ box' = [box EXCEPT ![r] = Tail(@)]
    /\ UNCHANGED <<spc, sent, cur, conns, connVars, up, crashes, arrived>>

\* A process starts to listen on r (module SocketListen).
Start(r) ==
    /\ up[r] = "off"
    /\ up' = [up EXCEPT ![r] = "serving"]
    /\ UNCHANGED <<spc, sent, cur, conns, connVars, crashes, box, arrived>>

\* It ends, and with it its connections and its mailbox.
Crash(r) ==
    LET mine == {k \in Conns : peer[k] = r /\ rOpen[k]}
    IN  /\ up[r] # "off"
        /\ crashes < MaxCrash
        /\ crashes' = crashes + 1
        /\ up' = [up EXCEPT ![r] = "off"]
        /\ box' = [box EXCEPT ![r] = <<>>]
        /\ rOpen' = [k \in Conns |-> rOpen[k] /\ k \notin mine]
        /\ stream' = [k \in Conns |-> IF k \in mine THEN <<>> ELSE stream[k]]
        /\ frame' = [k \in Conns |-> IF k \in mine THEN <<>> ELSE frame[k]]
        /\ rpc' = [k \in Conns |-> IF k \in mine THEN "done" ELSE rpc[k]]
        /\ UNCHANGED <<spc, sent, cur, conns, sOpen, peer, arrived>>

-----------------------------------------------------------------------------

SendStep == Dial \/ WriteFrame \/ WriteFails

ReceiveStep(k) ==
    \/ Accept(k) \/ ReadLength(k) \/ ReadPayload(k) \/ DiscardPayload(k)
    \/ ReadFails(k) \/ PushFrame(k)

Next ==
    \/ \E d \in Dests, big \in BOOLEAN : Send(d, big)
    \/ SendStep
    \/ SenderEnds
    \/ \E k \in Conns : ReceiveStep(k)
    \/ \E r \in Receivers : GuestRecv(r) \/ AcceptFails(r) \/ Start(r) \/ Crash(r)

\* The goroutines of both sides run.  The receiving guest need not call recv.
Fairness ==
    /\ WF_vars(SendStep)
    /\ \A k \in Conns : WF_vars(ReceiveStep(k))

Spec == Init /\ [][Next]_vars /\ Fairness

-----------------------------------------------------------------------------
(* Properties *)

\* A frame that enters the mailbox of r is one the sender sent to r: length and
\* payload of the same message, which is not too long and whose destination
\* number stands for r.  Also after an oversized frame, a crash between the two
\* Writes of a frame, or a reconnection (docs/spec §3.7, 1).
FrameIntegrity ==
    \A r \in Receivers : \A i \in DOMAIN arrived[r] :
        LET f == arrived[r][i]
        IN  /\ Len(f) = 2
            /\ f[1].part = "length" /\ f[2].part = "payload"
            /\ f[1].n = f[2].n
            /\ f[1].to = r /\ f[2].to = r
            /\ ~f[1].big

\* Messages of the sender reach a receiver in the order they were sent, each
\* at most once (docs/spec §3.7, 2).  A reconnection does not overtake: a
\* write fails only once the receiver has done with the old connection.
SenderOrder ==
    \A r \in Receivers : \A i, j \in DOMAIN arrived[r] :
        i < j => arrived[r][i][1].n < arrived[r][j][1].n

\* The table holds exactly the sender's open sockets, one per number, each
\* leading to the ID of that number.
TableMatchesSockets ==
    /\ \A d \in Dests : conns[d] # NoConn =>
            sOpen[conns[d]] /\ peer[conns[d]] = Assign[d]
    /\ \A k \in Conns : sOpen[k] => \E d \in Dests : conns[d] = k

\* A send always returns, although it has neither a deadline nor an answer:
\* the receiving side reads on and drops, whether or not its guest calls recv.
\* The exception is a connection that the receiver will never accept.
Waiting == spc \notin {"idle", "dead"}
Unaccepted == rpc[conns[cur.d]] = "backlog" /\ up[Assign[cur.d]] = "deaf"
SendReturns == Waiting ~> ~Waiting \/ (conns[cur.d] # NoConn /\ Unaccepted)
=============================================================================
