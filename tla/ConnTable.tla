------------------------------ MODULE ConnTable ------------------------------
(***************************************************************************)
(* External connections: sandbox/conn.go, with the part of the guest that   *)
(* meets it.  Four kinds of actor share the table and the mailbox:          *)
(*   - the acceptor, ConnTable.Serve, one goroutine;                        *)
(*   - one reader goroutine per connection, serveConn;                      *)
(*   - the guest's goroutine: recv, and conn_write (ConnTable.Write), which *)
(*     runs the same disconnect as a reader when the write fails;           *)
(*   - run() of cmd/execsandbox/main.go, on the guest's goroutine, whose    *)
(*     deferred calls close the table and then the listener.                *)
(* Critical sections under ct.mu are one step, and so is a push: module     *)
(* Mailbox shows that its mutex and wake-ups implement an atomic queue.     *)
(* The clients and the network choose when data arrives, when a peer hangs  *)
(* up and when a write fails.                                               *)
(***************************************************************************)
EXTENDS MailboxQueue, FiniteSets

CONSTANTS MaxConn,      \* bound: connections accepted
          MaxChunk,     \* bound: reads that return data, in all
          IdMod,        \* 2^32 in the code: connID is a uint32 that wraps
          GuestWrites   \* whether the guest calls conn_write at all

ASSUME ConnTableAssumption ==
    /\ MaxConn \in Nat /\ MaxChunk \in Nat
    /\ IdMod \in Nat \ {0, 1}
    /\ GuestWrites \in BOOLEAN

Conns == 1..MaxConn     \* net.Conn values, in the order they are accepted
NoConn == 0
Ids == 0..(IdMod - 1)

\* The goroutines that may run disconnect: the reader of each connection,
\* named like it, and the guest's.
Guest == 0
Goroutines == Conns \cup {Guest}

\* A mailbox event: Kind and ConnID, then what only the properties read: the
\* connection it is about, the number of the chunk, who pushed it (the
\* acceptor's events count as the reader's).
Event == [kind : {KindEstablished, KindData, KindClosed}, id : Ids,
          conn : Conns, n : 0..MaxChunk, by : Goroutines]

VARIABLES
    nextID,    \* ConnTable.nextID
    conns,     \* ConnTable.conns; NoConn where the map has no entry
    box,       \* the mailbox
    spc,       \* the acceptor
    accepted,  \* connections accepted so far
    pc,        \* where each goroutine is; a reader's is "none" until spawned
    id,        \* the id it was given (a reader), or is writing to (the guest)
    gconn,     \* the connection that the Write in progress looked up
    chunks,    \* chunks[c]: the latest chunk read from c; they are
               \* numbered across the connections, in the order of reading
    closed,    \* closed[c]: the host called conn.Close
    peerGone,  \* peerGone[c]: the client has closed its side, or broke
    view,      \* view[i]: the connection the guest has an entry for: made
               \* on an established event, discarded on a closed one
    seen,      \* the ids that the guest knows from the events it received
    \* History variables, which no guard reads.
    trail,     \* trail[c]: the events of c that entered the mailbox
    peakLive   \* the most connections that were ever live at once

tableVars  == <<nextID, conns>>
acceptVars == <<spc, accepted, peakLive>>
writeVars  == <<id, gconn>>
socketVars == <<chunks, closed, peerGone>>
mailVars   == <<box, trail>>
viewVars   == <<view, seen>>
vars == <<tableVars, acceptVars, pc, writeVars, socketVars, mailVars, viewVars>>

Init ==
    /\ nextID = 0
    /\ conns = [i \in Ids |-> NoConn]
    /\ spc = "accept" /\ accepted = 0 /\ peakLive = 0
    /\ pc = [g \in Goroutines |-> IF g = Guest THEN "run" ELSE "none"]
    /\ id = [g \in Goroutines |-> 0]
    /\ gconn = NoConn
    /\ chunks = [c \in Conns |-> 0]
    /\ closed = [c \in Conns |-> FALSE]
    /\ peerGone = [c \in Conns |-> FALSE]
    /\ box = <<>>
    /\ trail = [c \in Conns |-> <<>>]
    /\ view = [i \in Ids |-> NoConn]
    /\ seen = {}

-----------------------------------------------------------------------------
(* Helpers *)

Goto(g, label) == pc' = [pc EXCEPT ![g] = label]

\* One Mailbox.Push or PushDisconnect; what enters is kept in the trail.
Push(e) ==
    /\ box' = Pushed(box, e)
    /\ trail' = IF Full(box, e) THEN trail
                                ELSE [trail EXCEPT ![e.conn] = Append(@, e)]

Has(c, kind) == \E i \in DOMAIN trail[c] : trail[c][i].kind = kind

Max2(m, n) == IF m >= n THEN m ELSE n

\* Accepted and not yet announced as closed.
Live == {c \in 1..accepted : ~Has(c, KindClosed)}

\* Faulty variants: no look at the table, and no return to 0.
FreeUnlessZero(i) == i # 0
AllocIDNoWrap == nextID + 1

\* An id that allocID may return: not 0 and not in use.
Free(i) == i # 0 /\ conns[i] = NoConn

\* Faulty variant: the lowest free id, which is the one freed most recently.
AllocIDLowest == CHOOSE i \in Ids : Free(i) /\ \A e \in Ids : Free(e) => i <= e

\* allocID: count on from nextID, modulo the width, to the first free id.
AllocID ==
    LET after(d) == (nextID + d) % IdMod
        first == CHOOSE d \in 1..IdMod :
                     Free(after(d)) /\ \A e \in 1..(d - 1) : ~Free(after(e))
    IN  after(first)
-----------------------------------------------------------------------------
(* The acceptor *)

\* Faulty variant: the reader is started before the established event.
AcceptAndSpawn ==
    /\ spc = "accept"
    /\ accepted < MaxConn
    /\ \E i \in Ids : Free(i)
    /\ accepted' = accepted + 1
    /\ nextID' = AllocID
    /\ conns' = [conns EXCEPT ![nextID'] = accepted']
    /\ id' = [id EXCEPT ![accepted'] = nextID']
    /\ peakLive' = Max2(peakLive, Cardinality(Live) + 1)
    /\ Goto(accepted', "read")
    /\ spc' = "push"
    /\ UNCHANGED <<gconn, socketVars, mailVars, viewVars>>

\* l.Accept returns a connection and add enters it.  The third conjunct is a
\* bound: with every id in use allocID would not return.
Accept ==
    /\ spc = "accept"
    /\ accepted < MaxConn
    /\ \E i \in Ids : Free(i)
    /\ accepted' = accepted + 1
    /\ nextID' = AllocID
    /\ conns' = [conns EXCEPT ![nextID'] = accepted']
    /\ id' = [id EXCEPT ![accepted'] = nextID']
    /\ peakLive' = Max2(peakLive, Cardinality(Live) + 1)
    /\ spc' = "push"
    /\ UNCHANGED <<pc, gconn, socketVars, mailVars, viewVars>>

\* l.Accept fails, because the listener is closed or for any other reason,
\* and Serve returns for good.
AcceptFails ==
    /\ spc = "accept"
    /\ spc' = "stopped"
    /\ UNCHANGED <<tableVars, accepted, peakLive, pc, writeVars, socketVars,
                   mailVars, viewVars>>

\* The established event of the connection just entered.
PushEstablished ==
    /\ spc = "push"
    /\ Push([kind |-> KindEstablished, id |-> id[accepted],
             conn |-> accepted, n |-> 0, by |-> accepted])
    /\ spc' = "spawn"
    /\ UNCHANGED <<tableVars, accepted, peakLive, pc, writeVars, socketVars,
                   viewVars>>

\* go ct.serveConn(id, conn, maxFrame)
Spawn ==
    /\ spc = "spawn"
    /\ Goto(accepted, "read")
    /\ spc' = "accept"
    /\ UNCHANGED <<tableVars, accepted, peakLive, writeVars, socketVars,
                   mailVars, viewVars>>

-----------------------------------------------------------------------------
(* The reader of connection c *)

LatestChunk ==
    CHOOSE n \in 0..MaxChunk :
        (\E c \in Conns : chunks[c] = n) /\ \A c \in Conns : chunks[c] <= n

\* conn.Read returns data.
ReadData(c) ==
    /\ pc[c] = "read"
    /\ ~closed[c]
    /\ LatestChunk < MaxChunk
    /\ chunks' = [chunks EXCEPT ![c] = LatestChunk + 1]
    /\ Goto(c, "push")
    /\ UNCHANGED <<tableVars, acceptVars, writeVars, closed, peerGone,
                   mailVars, viewVars>>

DataEvent(c) == [kind |-> KindData, id |-> id[c], conn |-> c,
                 n |-> chunks[c], by |-> c]

\* Faulty variant: the payload is not copied out of buf, so that every event
\* of c already queued shows the bytes of the latest read.
PushDataShared(c) ==
    LET e == DataEvent(c)
        Overwritten(q) ==
            [i \in DOMAIN q |->
                IF q[i].conn = c /\ q[i].kind = KindData THEN e ELSE q[i]]
    IN  /\ pc[c] = "push"
        /\ box' = Pushed(Overwritten(box), e)
        /\ trail' = [trail EXCEPT ![c] = IF Full(box, e) THEN Overwritten(@)
                                         ELSE Append(Overwritten(@), e)]
        /\ Goto(c, "read")
        /\ UNCHANGED <<tableVars, acceptVars, writeVars, socketVars, viewVars>>

\* The data event for what was read.
PushData(c) ==
    /\ pc[c] = "push"
    /\ Push(DataEvent(c))
    /\ Goto(c, "read")
    /\ UNCHANGED <<tableVars, acceptVars, writeVars, socketVars, viewVars>>

\* Faulty variant: the deferred disconnect is missing.
ReadErrNoDisconnect(c) ==
    /\ pc[c] = "read"
    /\ closed[c] \/ peerGone[c]
    /\ Goto(c, "done")
    /\ UNCHANGED <<tableVars, acceptVars, writeVars, socketVars, mailVars, viewVars>>

\* conn.Read returns an error, and the deferred disconnect begins.
ReadErr(c) ==
    /\ pc[c] = "read"
    /\ closed[c] \/ peerGone[c]
    /\ Goto(c, "lock")
    /\ UNCHANGED <<tableVars, acceptVars, writeVars, socketVars, mailVars, viewVars>>

-----------------------------------------------------------------------------
(* disconnect(id, conn), on a reader's goroutine or on the guest's *)

ConnOf(g) == IF g = Guest THEN gconn ELSE g

\* disconnect returns: the reader is done, and conn_write returns -1.
Return(g) ==
    IF g = Guest
    THEN Goto(g, "run") /\ id' = [id EXCEPT ![g] = 0] /\ gconn' = NoConn
    ELSE Goto(g, "done") /\ UNCHANGED writeVars

\* Faulty variant: go on whether or not the id was in the table.
LockAlways(g) ==
    /\ pc[g] = "lock"
    /\ conns' = [conns EXCEPT ![id[g]] = NoConn]
    /\ Goto(g, "close")
    /\ UNCHANGED <<nextID, acceptVars, writeVars, socketVars, mailVars, viewVars>>

\* Under ct.mu: delete the id, and go on only if it was there.
Lock(g) ==
    /\ pc[g] = "lock"
    /\ conns' = [conns EXCEPT ![id[g]] = NoConn]
    /\ IF conns[id[g]] = NoConn
       THEN Return(g)
       ELSE Goto(g, "close") /\ UNCHANGED writeVars
    /\ UNCHANGED <<nextID, acceptVars, socketVars, mailVars, viewVars>>

\* conn.Close()
Close(g) ==
    /\ pc[g] = "close"
    /\ closed' = [closed EXCEPT ![ConnOf(g)] = TRUE]
    /\ Goto(g, "announce")
    /\ UNCHANGED <<tableVars, acceptVars, writeVars, chunks, peerGone,
                   mailVars, viewVars>>

\* Faulty variant: a failed conn_write announces nothing.
AnnounceUnlessGuest(g) ==
    /\ pc[g] = "announce"
    /\ IF g = Guest
       THEN UNCHANGED mailVars
       ELSE Push([kind |-> KindClosed, id |-> id[g], conn |-> ConnOf(g),
                  n |-> 0, by |-> g])
    /\ Return(g)
    /\ UNCHANGED <<tableVars, acceptVars, socketVars, viewVars>>

\* ct.mailbox.PushDisconnect(id)
Announce(g) ==
    /\ pc[g] = "announce"
    /\ Push([kind |-> KindClosed, id |-> id[g], conn |-> ConnOf(g), n |-> 0,
             by |-> g])
    /\ Return(g)
    /\ UNCHANGED <<tableVars, acceptVars, socketVars, viewVars>>

Disconnect(g) == Lock(g) \/ Close(g) \/ Announce(g)

-----------------------------------------------------------------------------
(* The guest's goroutine *)

\* recv delivers the oldest event, and the guest keeps its table of
\* connections as docs/spec §5.3 has it.
GuestRecv ==
    /\ pc[Guest] = "run"
    /\ box # <<>>
    /\ LET e == Head(box)
       IN  /\ view' = CASE e.kind = KindEstablished -> [view EXCEPT ![e.id] = e.conn]
                        [] e.kind = KindClosed -> [view EXCEPT ![e.id] = NoConn]
                        [] OTHER -> view
           /\ seen' = seen \cup {e.id}
    /\ box' = Tail(box)
    /\ UNCHANGED <<tableVars, acceptVars, pc, writeVars, socketVars, trail>>

\* Write looks an id up.  When the id is not in the table conn_write returns
\* -1 and nothing changes.
WriteLookup(i) ==
    /\ GuestWrites
    /\ pc[Guest] = "run"
    /\ i \in seen
    /\ conns[i] # NoConn
    /\ id' = [id EXCEPT ![Guest] = i]
    /\ gconn' = conns[i]
    /\ Goto(Guest, "write")
    /\ UNCHANGED <<tableVars, acceptVars, socketVars, mailVars, viewVars>>

\* conn.Write succeeds; conn_write returns 0.
WriteOK ==
    /\ pc[Guest] = "write"
    /\ ~closed[gconn]
    /\ Return(Guest)
    /\ UNCHANGED <<tableVars, acceptVars, socketVars, mailVars, viewVars>>

\* conn.Write fails: the peer is gone, the -t deadline has passed, or a
\* reader closed the connection since the lookup.  Write calls disconnect.
WriteFails ==
    /\ pc[Guest] = "write"
    /\ Goto(Guest, "lock")
    /\ UNCHANGED <<tableVars, acceptVars, writeVars, socketVars, mailVars, viewVars>>

\* The guest returns, or is stopped, and the deferred connTable.Close runs:
\* under ct.mu every connection in the table is closed and removed.
TableClose ==
    /\ pc[Guest] = "run"
    /\ closed' = [c \in Conns |-> closed[c] \/ \E i \in Ids : conns[i] = c]
    /\ conns' = [i \in Ids |-> NoConn]
    /\ Goto(Guest, "closing")
    /\ UNCHANGED <<nextID, acceptVars, writeVars, chunks, peerGone, mailVars, viewVars>>

\* Then the deferred connListener.Close, and the process exits.
ListenerClose ==
    /\ pc[Guest] = "closing"
    /\ Goto(Guest, "exited")
    /\ UNCHANGED <<tableVars, acceptVars, writeVars, socketVars, mailVars, viewVars>>

-----------------------------------------------------------------------------
(* The clients *)

HangUp(c) ==
    /\ c <= accepted
    /\ ~peerGone[c]
    /\ peerGone' = [peerGone EXCEPT ![c] = TRUE]
    /\ UNCHANGED <<tableVars, acceptVars, pc, writeVars, chunks, closed,
                   mailVars, viewVars>>

-----------------------------------------------------------------------------

\* When run() has returned, os.Exit ends every goroutine where it stands.
Running == pc[Guest] # "exited"

Next ==
    /\ Running
    /\ \/ Accept \/ AcceptFails \/ PushEstablished \/ Spawn
       \/ \E c \in Conns : ReadData(c) \/ PushData(c) \/ ReadErr(c) \/ HangUp(c)
       \/ \E g \in Goroutines : Disconnect(g)
       \/ \E i \in Ids : WriteLookup(i)
       \/ GuestRecv \/ WriteOK \/ WriteFails \/ TableClose \/ ListenerClose

\* Goroutines that can go on do go on.  Nothing makes a client connect, send
\* or hang up, nor the guest call recv or conn_write; and nothing ends a
\* conn.Write to a client that does not read when there is no -t deadline.
Fairness ==
    /\ WF_vars(Running /\ (PushEstablished \/ Spawn))
    /\ \A c \in Conns : WF_vars(Running /\ (PushData(c) \/ ReadErr(c)))
    /\ \A g \in Goroutines : WF_vars(Running /\ Disconnect(g))

Spec == Init /\ [][Next]_vars /\ Fairness

-----------------------------------------------------------------------------
(* Properties *)

TypeOK ==
    /\ nextID \in Ids
    /\ conns \in [Ids -> Conns \cup {NoConn}]
    /\ spc \in {"accept", "push", "spawn", "stopped"}
    /\ accepted \in 0..MaxConn
    /\ spc \in {"push", "spawn"} => accepted > 0
    /\ peakLive \in 0..MaxConn
    /\ pc \in [Goroutines -> {"none", "read", "push", "done", "lock", "close",
                             "announce", "run", "write", "closing", "exited"}]
    /\ id \in [Goroutines -> Ids]
    /\ gconn \in Conns \cup {NoConn}
    /\ pc[Guest] \in {"write", "lock", "close", "announce"} => gconn # NoConn
    /\ chunks \in [Conns -> 0..MaxChunk]
    /\ closed \in [Conns -> BOOLEAN]
    /\ peerGone \in [Conns -> BOOLEAN]
    /\ box \in Seq(Event)
    /\ trail \in [Conns -> Seq(Event)]
    /\ view \in [Ids -> Conns \cup {NoConn}]
    /\ seen \in SUBSET Ids

\* Once run() has begun to close down, nobody takes events any more.
ShuttingDown == pc[Guest] \in {"closing", "exited"}

\* Where connection c stands, as its events tell.
Stage(c) ==
    IF c > accepted \/ (c = accepted /\ spc = "push") THEN "new"
    ELSE IF ~Has(c, KindClosed) THEN "open"
    ELSE IF pc[c] = "push" THEN "late" ELSE "ended"

Told(c) == [i \in DOMAIN trail[c] |->
               [kind |-> trail[c][i].kind, n |-> trail[c][i].n]]

\* The events of every connection come as ConnSpec has it: the established
\* event first or not at all, chunks in the order they were read and each with
\* its own bytes (docs/spec §4.3), one closed event although a reader and the
\* guest's failed write may both run disconnect (conn.go:87-91), and at most
\* one chunk after it.
Abstract == INSTANCE ConnSpec WITH stage <- [c \in Conns |-> Stage(c)],
                                   told <- [c \in Conns |-> Told(c)]
ImplementsConnSpec == Abstract!Spec

\* Somebody is past the deletion of id i and will announce its closure.
ClosureUnderway(i) ==
    \/ \E g \in Goroutines : id[g] = i /\ pc[g] \in {"close", "announce"}
    \/ \E k \in DOMAIN box : box[k].kind = KindClosed /\ box[k].id = i

\* What the guest keeps for a connection can be discarded one day: the id is
\* in the table still, or its closed event is on the way.  It is also what a
\* conn_write that returns -1 for a tracked id means: not an error of the
\* guest, its closed event has just not been received.
GuestStateReclaimable ==
    \A i \in Ids :
        view[i] # NoConn /\ ~ShuttingDown =>
            conns[i] # NoConn \/ ClosureUnderway(i)

\* The guest never takes data of one connection for data of the connection
\* it has an entry for (docs/spec §4.2: "no mix-up occurs").
NoMixUp ==
    box # <<>> /\ Head(box).kind = KindData /\ view[Head(box).id] # NoConn =>
        view[Head(box).id] = Head(box).conn

\* The table and the open sockets agree: an entry belongs to a connection
\* that is open and whose reader will still run disconnect, and an accepted
\* connection that is open has its entry, or whoever deleted the entry is
\* about to close it.  (What is accepted after connTable.Close is left to
\* the exit of the process.)
EntryOwned(i) ==
    conns[i] # NoConn =>
        /\ id[conns[i]] = i
        /\ ~closed[conns[i]]
        /\ pc[conns[i]] \in {"none", "read", "push", "lock"}
OpenHeld(c) ==
    ~closed[c] => \/ conns[id[c]] = c
                  \/ \E g \in Goroutines : pc[g] = "close" /\ ConnOf(g) = c
NoConnectionLeaks ==
    ~ShuttingDown => /\ \A i \in Ids : EntryOwned(i)
                     /\ \A c \in 1..accepted : OpenHeld(c)

\* An id in use is never given to another connection.
NeverRebound ==
    [][\A i \in Ids : conns[i] # NoConn => conns'[i] \in {conns[i], NoConn}]_vars

\* Every connection that ends is announced to the guest's mailbox, also while
\* the guest is stuck in conn_write and never calls recv again.
HangUpAnnounced ==
    \A c \in Conns : peerGone[c] ~> Has(c, KindClosed) \/ ShuttingDown

(* What documents and comments say and the code does not do *)

\* docs/spec §5.3: the events of a connection are "start, continue, end".
NothingAfterClosed ==
    \A c \in Conns : \A i \in DOMAIN trail[c] :
        trail[c][i].kind = KindClosed => i = Len(trail[c])

\* mailbox.go:96 and docs/spec §3.6: what exceeds the cap is bounded by the
\* number of connections that are live at the same time.
ExcessBoundedByLive == Len(box) <= Limit + peakLive
=============================================================================
