--------------------------- MODULE ConnTableProofs ---------------------------
(***************************************************************************)
(* The connection table for any number of connections, any width of ids,    *)
(* any mailbox and any shutdown.                                            *)
(***************************************************************************)
EXTENDS ConnTable, SequenceTheorems, FiniteSetTheorems, WellFoundedInduction, TLAPS

\* The ids do not wrap: fewer connections than there are ids.
NoReuse == MaxConn < IdMod

\* Or they do, but the guest never writes, so that only its reader ends a
\* connection.  TLC shows that NoLeak, Reclaimed and EventsInOrder need this.
OneEnder == NoReuse \/ ~GuestWrites

\* Past the deletion of its entry, and not yet past the announcement.
Ending == {"close", "announce"}

\* Still on the way to its disconnect.
BeforeEnd == {"none", "read", "push", "lock"}

\* Where the goroutines can be, and that only accepted connections are known.
Places ==
    /\ \A c \in Conns : pc[c] \in BeforeEnd \cup Ending \cup {"done"}
    /\ pc[Guest] \in {"run", "write", "lock", "closing", "exited"} \cup Ending
    /\ ~GuestWrites => pc[Guest] \in {"run", "closing", "exited"}
    /\ \A c \in Conns : c > accepted => pc[c] = "none" /\ ~closed[c]
    /\ spc \in {"push", "spawn"} => pc[accepted] = "none"
    /\ \A i \in Ids : conns[i] <= accepted
    /\ gconn <= accepted
    /\ gconn # NoConn => pc[Guest] \in {"write", "lock"} \cup Ending

\* The established event of c has been pushed, or dropped.
Begun(c) == c \in 1..accepted /\ ~(c = accepted /\ spc = "push")

\* Without reuse the n-th connection has id n, and nobody but its own reader
\* knows it before its established event is out.
Fresh ==
    /\ nextID = accepted
    /\ \A c \in 1..accepted : id[c] = c
    /\ \A i \in Ids : conns[i] \in {NoConn, i}
    /\ id[Guest] = gconn
    /\ gconn # NoConn => Begun(gconn)
    /\ \A i \in seen : Begun(i)
    /\ \A i \in Ids : view[i] \in {NoConn, i}
    /\ \A k \in DOMAIN box : box[k].id = box[k].conn /\ Begun(box[k].conn)

\* Until the shutdown table and sockets agree; who ends a connection has
\* deleted its entry; and a connection only its reader ends has one.
Agreement ==
    /\ \A i \in Ids : EntryOwned(i)
    /\ \A c \in 1..accepted : OpenHeld(c)
    /\ \A g \in Goroutines, i \in Ids : pc[g] \in Ending => conns[i] # ConnOf(g)
    /\ \A c \in 1..accepted :
           ~GuestWrites /\ pc[c] \in BeforeEnd => conns[id[c]] = c
Agree == ~ShuttingDown => Agreement

\* Id i is in the table, or its closure has not been announced.
OpenId(i) ==
    \/ conns[i] # NoConn
    \/ \E g \in Goroutines : id[g] = i /\ pc[g] \in Ending

ClosureAfter(i, k) ==
    \E j \in DOMAIN box : j > k /\ box[j].kind = KindClosed /\ box[j].id = i

\* The closure of an id that the guest knows, or will know, is still to come.
Reclaimable ==
    ~ShuttingDown =>
        /\ \A i \in Ids : view[i] # NoConn => OpenId(i) \/ ClosureAfter(i, 0)
        /\ \A k \in DOMAIN box : box[k].kind = KindEstablished =>
               OpenId(box[k].id) \/ ClosureAfter(box[k].id, k)
        /\ spc = "push" => conns[id[accepted]] = accepted

\* One goroutine announces the end of a connection, once, with its socket
\* closed and its entry gone.
EndsOnce ==
    /\ \A g, h \in Goroutines :
           pc[g] \in Ending /\ pc[h] \in Ending /\ ConnOf(g) = ConnOf(h) => g = h
    /\ \A g \in Goroutines : pc[g] \in Ending =>
           conns[ConnOf(g)] = NoConn /\ ~Has(ConnOf(g), KindClosed)
    /\ \A g \in Goroutines : pc[g] = "announce" => closed[ConnOf(g)]
    /\ \A c \in Conns : Has(c, KindClosed) => conns[c] = NoConn /\ closed[c]
    /\ \A c \in Conns : ~Begun(c) => trail[c] = <<>>

\* If the guest does not write, the reader of a connection does, whatever ids
\* are reused.
ReaderEnds ==
    /\ \A c \in Conns : ~Begun(c) => trail[c] = <<>>
    /\ \A c \in Conns : Has(c, KindClosed) => pc[c] = "done"

\* What the two have in common, and the refinement of ConnSpec needs: nobody
\* acts on a connection before it has begun, or ends it a second time, or
\* reads from it after the end.
EndsInOrder ==
    /\ \A c \in Conns : ~Begun(c) => trail[c] = <<>>
    /\ \A g \in Goroutines : pc[g] \in {"read", "push", "lock"} \cup Ending =>
           ConnOf(g) \in Conns /\ Begun(ConnOf(g))
    /\ \A g \in Goroutines : pc[g] \in Ending => ~Has(ConnOf(g), KindClosed)
    /\ \A c \in Conns : pc[c] = "read" /\ Has(c, KindClosed) => closed[c]

\* Chunks are numbered in the order of reading, and one that a reader holds
\* is later than all of its connection that went into the mailbox.
Numbered ==
    /\ \A c \in Conns : \A k \in DOMAIN trail[c] : trail[c][k].n <= chunks[c]
    /\ \A c \in Conns : pc[c] = "push" =>
           chunks[c] > 0 /\ \A k \in DOMAIN trail[c] : trail[c][k].n < chunks[c]

-----------------------------------------------------------------------------
(* The choices of the code *)

\* Every set of naturals that is not empty has a least element.
LEMMA LeastNatural ==
    ASSUME NEW T, T \subseteq Nat, T # {}
    PROVE  \E x \in T : \A y \in T : x <= y
<1>1. PICK x \in T : \A y \in T : <<y, x>> \notin OpToRel(<, Nat)
  BY WFMin, NatLessThanWellFounded, Zenon
<1>2. ASSUME NEW y \in T PROVE x <= y
  <2>1. x \in Nat /\ y \in Nat
    OBVIOUS
  <2>2. <<y, x>> \notin {ss \in Nat \X Nat : ss[1] < ss[2]}
    BY <1>1, Zenon DEF OpToRel
  <2>3. ~(y < x)
    BY <2>1, <2>2
  <2> QED  BY <2>1, <2>3
<1> QED  BY <1>2, Zenon

\* Any id is some number of steps after any other, modulo the width.
LEMMA AllReached ==
    ASSUME NEW w \in Nat \ {0}, NEW m \in 0..(w - 1), NEW i \in 0..(w - 1)
    PROVE  \E d \in 1..w : (m + d) % w = i
<1>1. i % w = i /\ (i + w) % w = i
  OBVIOUS
<1>2. CASE m < i
  <2>1. i - m \in 1..w /\ m + (i - m) = i
    BY <1>2
  <2> QED  BY <1>1, <2>1
<1>3. CASE i <= m
  <2>1. i - m + w \in 1..w /\ m + (i - m + w) = i + w
    BY <1>3
  <2> QED  BY <1>1, <2>1
<1> QED  BY <1>2, <1>3

\* allocID returns an id that is not 0 and not in use, as long as there is one.
LEMMA AllocIDIsFree ==
    ASSUME nextID \in Ids, NEW i \in Ids, Free(i)
    PROVE  AllocID \in Ids /\ Free(AllocID)
<1> DEFINE after(d) == (nextID + d) % IdMod
           First(d) == Free(after(d)) /\ \A e \in 1..(d - 1) : ~Free(after(e))
           T == {d \in 1..IdMod : Free(after(d))}
<1>1. IdMod \in Nat \ {0, 1}
  BY ConnTableAssumption
<1>2. T # {} /\ T \subseteq Nat
  <2>1. nextID \in 0..(IdMod - 1) /\ i \in 0..(IdMod - 1) /\ IdMod \in Nat \ {0}
    BY <1>1 DEF Ids
  <2>2. PICK d \in 1..IdMod : after(d) = i
    BY <2>1, AllReached
  <2> QED  BY <1>1, <2>2
<1>3. PICK d \in T : \A e \in T : d <= e
  BY <1>2, LeastNatural
<1>4. d \in 1..IdMod /\ First(d)
  BY <1>1, <1>3
<1> DEFINE first == CHOOSE e \in 1..IdMod : First(e)
<1>5. first \in 1..IdMod /\ First(first)
  BY <1>4, Zenon
<1>6. AllocID = after(first)
  BY DEF AllocID
<1>7. after(first) \in Ids
  <2>1. nextID + first \in Int
    BY <1>1, <1>5 DEF Ids
  <2> HIDE DEF first
  <2> QED  BY <1>1, <2>1 DEF Ids
<1> QED  BY <1>5, <1>6, <1>7, Zenon

\* While ids 1 to nextID are all that was given out, it is the next one.
LEMMA AllocIDCounts ==
    ASSUME nextID \in Ids, nextID + 1 \in Ids, Free(nextID + 1)
    PROVE  AllocID = nextID + 1
<1> DEFINE after(d) == (nextID + d) % IdMod
           First(d) == Free(after(d)) /\ \A e \in 1..(d - 1) : ~Free(after(e))
           first == CHOOSE e \in 1..IdMod : First(e)
<1>1. IdMod \in Nat \ {0, 1}
  BY ConnTableAssumption
<1>2. after(1) = nextID + 1
  BY <1>1 DEF Ids
<1>3. 1 \in 1..IdMod /\ First(1)
  BY <1>1, <1>2
<1>4. first \in 1..IdMod /\ First(first)
  BY <1>3, Zenon
<1>5. first = 1
  BY <1>1, <1>2, <1>4
<1>6. AllocID = after(first)
  BY DEF AllocID
<1> QED  BY <1>2, <1>5, <1>6

-----------------------------------------------------------------------------
(* Types *)

\* A push leaves a mailbox and trails of events.
LEMMA PushType ==
    ASSUME TypeOK, NEW e \in Event, Push(e)
    PROVE  box' \in Seq(Event) /\ trail' \in [Conns -> Seq(Event)]
<1>1. e.conn \in Conns
  BY DEF Event
<1>2. trail[e.conn] \in Seq(Event) /\ Append(trail[e.conn], e) \in Seq(Event)
  BY <1>1, AppendProperties DEF TypeOK
<1>3. Append(box, e) \in Seq(Event)
  BY AppendProperties DEF TypeOK
<1> QED  BY <1>1, <1>2, <1>3 DEF Push, Pushed, TypeOK

\* The events that the code pushes.
LEMMA EventTypes ==
    ASSUME TypeOK
    PROVE  /\ spc = "push" =>
                  [kind |-> KindEstablished, id |-> id[accepted],
                   conn |-> accepted, n |-> 0, by |-> accepted] \in Event
           /\ \A c \in Conns : DataEvent(c) \in Event
           /\ \A g \in Goroutines : pc[g] = "announce" =>
                  [kind |-> KindClosed, id |-> id[g], conn |-> ConnOf(g), n |-> 0,
                   by |-> g] \in Event
<1> USE DEF TypeOK, Conns, Goroutines, Guest, NoConn
<1>1. MaxConn \in Nat /\ MaxChunk \in Nat
  BY ConnTableAssumption
<1>2. spc = "push" => accepted \in Conns /\ accepted \in Goroutines
  BY <1>1
<1>3. \A g \in Goroutines : pc[g] = "announce" => ConnOf(g) \in Conns
  BY <1>1 DEF ConnOf
<1> QED  BY <1>1, <1>2, <1>3 DEF Event, DataEvent

LEMMA ReadersAreNotTheGuest == \A c \in Conns : c \in Goroutines /\ c # Guest /\ ConnOf(c) = c
  BY ConnTableAssumption DEF Conns, Goroutines, Guest, ConnOf

\* The number of the latest chunk is one that a connection has, and the
\* greatest.
LEMMA LatestChunkIs ==
    ASSUME TypeOK, Conns # {}
    PROVE  /\ LatestChunk \in 0..MaxChunk
           /\ \E c \in Conns : chunks[c] = LatestChunk
           /\ \A c \in Conns : chunks[c] <= LatestChunk
<1> DEFINE T == {MaxChunk - chunks[c] : c \in Conns}
           Is(n) == /\ \E c \in Conns : chunks[c] = n
                    /\ \A c \in Conns : chunks[c] <= n
<1>1. MaxChunk \in Nat /\ chunks \in [Conns -> 0..MaxChunk]
  BY ConnTableAssumption DEF TypeOK
<1>2. T # {} /\ T \subseteq Nat
  BY <1>1
<1>3. PICK t \in T : \A u \in T : t <= u
  BY <1>2, LeastNatural
<1>4. MaxChunk - t \in 0..MaxChunk /\ Is(MaxChunk - t)
  BY <1>1, <1>3
<1>5. LatestChunk \in 0..MaxChunk /\ Is(LatestChunk)
  BY <1>4, Zenon DEF LatestChunk
<1> QED  BY <1>5

\* The connections counted as live are no more than were accepted.
LEMMA LiveBound ==
    ASSUME TypeOK PROVE Cardinality(Live) \in Nat /\ Cardinality(Live) <= accepted
<1>1. accepted \in Nat /\ Live \in SUBSET (1..accepted)
  BY DEF TypeOK, Live
<1>2. IsFiniteSet(1..accepted) /\ Cardinality(1..accepted) <= accepted
  BY <1>1, FS_Interval
<1>3. IsFiniteSet(Live) /\ Cardinality(Live) <= Cardinality(1..accepted)
  BY <1>1, <1>2, FS_Subset
<1>4. Cardinality(Live) \in Nat /\ Cardinality(1..accepted) \in Nat
  BY <1>2, <1>3, FS_CardinalityType
<1> QED  BY <1>1, <1>2, <1>3, <1>4

\* What disconnect leaves of the goroutine that ran it.
LEMMA ReturnType ==
    ASSUME TypeOK, NEW g \in Goroutines, Return(g)
    PROVE  /\ pc' \in [Goroutines -> {"none", "read", "push", "done", "lock", "close",
                             "announce", "run", "write", "closing", "exited"}]
           /\ id' \in [Goroutines -> Ids]
           /\ gconn' \in Conns \cup {NoConn}
           /\ pc'[Guest] \in {"write", "lock", "close", "announce"} => gconn' # NoConn
<1>1. 0 \in Ids
  BY ConnTableAssumption DEF Ids
<1>2. CASE g = Guest
  BY <1>1, <1>2 DEF Return, Goto, TypeOK
<1>3. CASE g # Guest
  <2>1. pc' = [pc EXCEPT ![g] = "done"] /\ id' = id /\ gconn' = gconn
    BY <1>3 DEF Return, Goto, writeVars
  <2>2. pc'[Guest] = pc[Guest]
    BY <1>3, <2>1 DEF TypeOK, Goroutines
  <2> QED  BY <2>1, <2>2 DEF TypeOK
<1> QED  BY <1>2, <1>3

\* Every variable keeps its type, ids that wrap included.
THEOREM TypeCorrect == Spec => []TypeOK
<1>1. Init => TypeOK
  <2> SUFFICES ASSUME Init PROVE TypeOK
    OBVIOUS
  <2>1. MaxConn \in Nat /\ MaxChunk \in Nat /\ IdMod \in Nat \ {0, 1}
    BY ConnTableAssumption
  <2> QED  BY <2>1 DEF Init, TypeOK, Conns, Ids, Goroutines, Guest, NoConn
<1>2. TypeOK /\ [Next]_vars => TypeOK'
  <2> SUFFICES ASSUME TypeOK, [Next]_vars PROVE TypeOK'
    OBVIOUS
  <2>1. CASE Accept
    <3>1. AllocID \in Ids
      BY <2>1, AllocIDIsFree DEF Accept, TypeOK
    <3>2. accepted' = accepted + 1 /\ accepted' \in Conns /\ accepted' \in Goroutines
      BY <2>1, ConnTableAssumption DEF Accept, TypeOK, Conns, Goroutines
    <3>3. peakLive' \in 0..MaxConn
      <4>1. Cardinality(Live) + 1 \in 0..MaxConn
        BY <2>1, LiveBound, ConnTableAssumption DEF Accept, TypeOK
      <4> QED  BY <2>1, <4>1, Zenon DEF Accept, Max2, TypeOK
    <3> QED
      BY <2>1, <3>1, <3>2, <3>3, SMTT(30)
      DEF Accept, TypeOK, socketVars, mailVars, viewVars, Conns
  <2>2. CASE AcceptFails
    BY <2>2 DEF AcceptFails, TypeOK, tableVars, writeVars, socketVars, mailVars, viewVars
  <2>3. CASE PushEstablished
    <3>1. box' \in Seq(Event) /\ trail' \in [Conns -> Seq(Event)]
      BY <2>3, EventTypes, PushType DEF PushEstablished
    <3> QED
      BY <2>3, <3>1
      DEF PushEstablished, TypeOK, tableVars, writeVars, socketVars, viewVars
  <2>4. CASE Spawn
    <3>1. accepted \in Goroutines /\ accepted # Guest
      BY <2>4 DEF Spawn, TypeOK, Goroutines, Conns, Guest
    <3> QED
      BY <2>4, <3>1
      DEF Spawn, TypeOK, Goto, tableVars, writeVars, socketVars, mailVars, viewVars
  <2>5. ASSUME NEW c \in Conns, ReadData(c) PROVE TypeOK'
    <3>1. LatestChunk + 1 \in 0..MaxChunk
      BY <2>5, LatestChunkIs, ConnTableAssumption DEF ReadData
    <3> QED
      BY <2>5, <3>1, ReadersAreNotTheGuest
      DEF ReadData, TypeOK, Goto, tableVars, acceptVars, writeVars, mailVars, viewVars,
          Goroutines
  <2>6. ASSUME NEW c \in Conns, PushData(c) PROVE TypeOK'
    <3>1. box' \in Seq(Event) /\ trail' \in [Conns -> Seq(Event)]
      BY <2>6, EventTypes, PushType DEF PushData
    <3> QED
      BY <2>6, <3>1, ReadersAreNotTheGuest
      DEF PushData, TypeOK, Goto, tableVars, acceptVars, writeVars, socketVars,
          viewVars, Goroutines
  <2>7. ASSUME NEW c \in Conns, ReadErr(c) PROVE TypeOK'
    BY <2>7, ReadersAreNotTheGuest
    DEF ReadErr, TypeOK, Goto, tableVars, acceptVars, writeVars, socketVars, mailVars,
        viewVars, Goroutines
  <2>8. ASSUME NEW c \in Conns, HangUp(c) PROVE TypeOK'
    BY <2>8
    DEF HangUp, TypeOK, tableVars, acceptVars, writeVars, mailVars, viewVars
  <2>9. ASSUME NEW g \in Goroutines, Lock(g) PROVE TypeOK'
    <3>1. 0 \in Ids
      BY ConnTableAssumption DEF Ids
    <3>2. id[g] \in Ids /\ conns' \in [Ids -> Conns \cup {NoConn}]
      BY <2>9 DEF Lock, TypeOK
    <3>3. UNCHANGED <<nextID, acceptVars, socketVars, mailVars, viewVars>>
      BY <2>9 DEF Lock
    <3>4. CASE conns[id[g]] = NoConn
      <4>1. Return(g)
        BY <2>9, <3>4 DEF Lock
      <4> QED
        BY <3>2, <3>3, <4>1, ReturnType
        DEF TypeOK, acceptVars, socketVars, mailVars, viewVars
    <3>5. CASE conns[id[g]] # NoConn
      <4>1. pc' = [pc EXCEPT ![g] = "close"] /\ UNCHANGED <<id, gconn>>
        BY <2>9, <3>5 DEF Lock, Goto, writeVars
      <4>2. pc'[Guest] \in {"write", "lock", "close", "announce"} => gconn' # NoConn
        BY <2>9, <4>1 DEF Lock, TypeOK
      <4> QED
        BY <3>2, <3>3, <4>1, <4>2
        DEF TypeOK, acceptVars, socketVars, mailVars, viewVars
    <3> QED  BY <3>4, <3>5
  <2>10. ASSUME NEW g \in Goroutines, Close(g) PROVE TypeOK'
    <3>1. ConnOf(g) \in Conns
      BY <2>10, ReadersAreNotTheGuest DEF Close, ConnOf, TypeOK, Goroutines
    <3> QED
    BY <2>10, <3>1
    DEF Close, TypeOK, Goto, tableVars, acceptVars, writeVars, mailVars, viewVars
  <2>11. ASSUME NEW g \in Goroutines, Announce(g) PROVE TypeOK'
    <3>1. box' \in Seq(Event) /\ trail' \in [Conns -> Seq(Event)]
      BY <2>11, EventTypes, PushType DEF Announce
    <3> QED
      BY <2>11, <3>1, ReturnType
      DEF Announce, TypeOK, tableVars, acceptVars, socketVars, viewVars
  <2>12. ASSUME NEW i \in Ids, WriteLookup(i) PROVE TypeOK'
    BY <2>12
    DEF WriteLookup, TypeOK, Goto, tableVars, acceptVars, socketVars, mailVars,
        viewVars, Goroutines
  <2>13. CASE GuestRecv
    <3>1. Head(box) \in Event /\ Tail(box) \in Seq(Event)
      BY <2>13, HeadTailProperties DEF GuestRecv, TypeOK
    <3>2. Head(box).id \in Ids /\ Head(box).conn \in Conns
      BY <3>1 DEF Event
    <3>3. view' \in [Ids -> Conns \cup {NoConn}]
      BY <2>13, <3>2, Zenon DEF GuestRecv, TypeOK
    <3> QED
      BY <2>13, <3>1, <3>2, <3>3
      DEF GuestRecv, TypeOK, tableVars, acceptVars, writeVars, socketVars
  <2>14. CASE WriteOK
    <3>1. 0 \in Ids /\ Guest \in Goroutines
      BY ConnTableAssumption DEF Ids, Goroutines
    <3> QED
      BY <2>14, <3>1
      DEF WriteOK, Return, TypeOK, Goto, tableVars, acceptVars, socketVars, mailVars,
          viewVars
  <2>15. CASE WriteFails
    BY <2>15
    DEF WriteFails, TypeOK, Goto, tableVars, acceptVars, writeVars, socketVars,
        mailVars, viewVars
  <2>16. CASE TableClose
    BY <2>16, Zenon
    DEF TableClose, TypeOK, Goto, acceptVars, writeVars, mailVars, viewVars
  <2>17. CASE ListenerClose
    BY <2>17
    DEF ListenerClose, TypeOK, Goto, tableVars, acceptVars, writeVars, socketVars,
        mailVars, viewVars
  <2>18. CASE UNCHANGED vars
    BY <2>18
    DEF vars, TypeOK, tableVars, acceptVars, writeVars, socketVars, mailVars, viewVars
  <2> QED
    BY <2>1, <2>2, <2>3, <2>4, <2>5, <2>6, <2>7, <2>8, <2>9, <2>10, <2>11, <2>12,
       <2>13, <2>14, <2>15, <2>16, <2>17, <2>18 DEF Next, Disconnect
<1> QED  BY <1>1, <1>2, PTL DEF Spec

-----------------------------------------------------------------------------
(* No id is given twice *)

\* add enters a connection under an id that no other connection has, and
\* everything else only removes entries: however often the ids wrap, an id in
\* use is never given to another connection (conn.go, allocID and add).
THEOREM NeverGivenTwice == Spec => NeverRebound
<1> DEFINE Kept == \A i \in Ids : conns[i] # NoConn => conns'[i] \in {conns[i], NoConn}
<1>1. TypeOK /\ [Next]_vars => [Kept]_vars
  <2> SUFFICES ASSUME TypeOK, Next PROVE Kept
    OBVIOUS
  <2>1. CASE Accept
    <3>1. Free(AllocID) /\ conns' = [conns EXCEPT ![AllocID] = accepted']
      BY <2>1, AllocIDIsFree DEF Accept, TypeOK
    <3> QED  BY <3>1 DEF Free, TypeOK
  <2>2. CASE \E g \in Goroutines : Lock(g)
    BY <2>2 DEF Lock, TypeOK
  <2>3. CASE TableClose
    BY <2>3 DEF TableClose
  <2>4. CASE conns' = conns
    BY <2>4
  <2> QED
    BY <2>1, <2>2, <2>3, <2>4
    DEF Next, Disconnect, AcceptFails, PushEstablished, Spawn, ReadData, PushData,
        ReadErr, HangUp, Close, Announce, WriteLookup, GuestRecv, WriteOK, WriteFails,
        ListenerClose, tableVars
<1> QED  BY <1>1, TypeCorrect, PTL DEF Spec, NeverRebound

-----------------------------------------------------------------------------
(* Where the goroutines are *)

\* One goroutine moves, the others stay.
LEMMA GuestMoves ==
    ASSUME TypeOK, NEW l, Goto(Guest, l)
    PROVE  pc'[Guest] = l /\ \A c \in Conns : pc'[c] = pc[c]
  BY ReadersAreNotTheGuest DEF Goto, TypeOK, Goroutines

LEMMA ReaderMoves ==
    ASSUME TypeOK, NEW c \in Conns, NEW l, Goto(c, l)
    PROVE  /\ pc'[c] = l
           /\ pc'[Guest] = pc[Guest]
           /\ \A d \in Conns : d # c => pc'[d] = pc[d]
  BY ReadersAreNotTheGuest DEF Goto, TypeOK, Goroutines

LEMMA GuestOrReader == \A g \in Goroutines : g = Guest \/ g \in Conns
  BY DEF Goroutines

LEMMA PlacesHold == Spec => []Places
<1>1. Init => Places
  <2> SUFFICES ASSUME Init PROVE Places
    OBVIOUS
  <2> QED
    BY ConnTableAssumption, ReadersAreNotTheGuest
    DEF Init, Places, BeforeEnd, Ending, Conns, Goroutines, NoConn
<1>2. TypeOK /\ Places /\ [Next]_vars => Places'
  <2> SUFFICES ASSUME TypeOK, Places, [Next]_vars PROVE Places'
    OBVIOUS
  <2>0. /\ accepted \in Nat
        /\ spc \in {"push", "spawn"} => accepted \in Conns
        /\ \A i \in Ids : conns[i] \in Nat
        /\ gconn \in Nat
        /\ Conns \subseteq Nat
        /\ NoConn = 0
    BY ConnTableAssumption DEF TypeOK, Conns, NoConn
  <2> USE <2>0, ReadersAreNotTheGuest DEF BeforeEnd, Ending
  <2>1. CASE Accept
    <3>1. AllocID \in Ids /\ accepted \in Nat
      BY <2>1, AllocIDIsFree DEF Accept, TypeOK
    <3>2. accepted' = accepted + 1 /\ spc' = "push" /\ pc' = pc /\ closed' = closed
          /\ gconn' = gconn /\ conns' = [conns EXCEPT ![AllocID] = accepted + 1]
          /\ accepted + 1 \in Conns
      BY <2>1, ConnTableAssumption DEF Accept, TypeOK, socketVars, Conns
    <3>3. \A i \in Ids : conns'[i] <= accepted'
      BY <3>1, <3>2 DEF Places, TypeOK, Conns, NoConn
    <3>4. gconn' <= accepted'
      BY <3>1, <3>2 DEF Places, TypeOK, Conns, NoConn
    <3>5. \A c \in Conns : c > accepted' => c > accepted
      BY <3>1, <3>2 DEF Conns
    <3>6. accepted' > accepted
      BY <3>1, <3>2
    <3> QED  BY <3>2, <3>3, <3>4, <3>5, <3>6 DEF Places
  <2>2. CASE AcceptFails \/ PushEstablished \/ UNCHANGED vars
    BY <2>2
    DEF Places, AcceptFails, PushEstablished, tableVars, writeVars, socketVars, vars,
        acceptVars
  <2>3. CASE Spawn
    BY <2>3
    DEF Spawn, Places, TypeOK, Goto, tableVars, writeVars, socketVars, Goroutines, Conns
  <2>4. ASSUME NEW c \in Conns, ReadData(c) \/ PushData(c) \/ ReadErr(c) PROVE Places'
    <3>1. UNCHANGED <<conns, accepted, spc, closed, gconn>>
      BY <2>4 DEF ReadData, PushData, ReadErr, tableVars, acceptVars, writeVars, socketVars
    <3>2. \E l \in {"push", "read", "lock"} : pc' = [pc EXCEPT ![c] = l]
      BY <2>4 DEF ReadData, PushData, ReadErr, Goto
    <3>3. pc[c] \in {"read", "push"}
      BY <2>4 DEF ReadData, PushData, ReadErr
    <3> QED  BY <3>1, <3>2, <3>3 DEF Places, TypeOK
  <2>5. ASSUME NEW c \in Conns, HangUp(c) PROVE Places'
    BY <2>5 DEF HangUp, Places, tableVars, acceptVars, writeVars
  <2>6. ASSUME NEW g \in Goroutines, Return(g), pc[g] \in {"lock", "announce"},
               UNCHANGED <<accepted, spc, closed>>,
               \A i \in Ids : conns'[i] \in {conns[i], NoConn}
        PROVE  Places'
    <3>1. \A i \in Ids : conns'[i] <= accepted'
      BY <2>6 DEF Places
    <3>2. CASE g = Guest
      <4>1. Goto(Guest, "run") /\ gconn' = NoConn
        BY <2>6, <3>2 DEF Return
      <4>2. gconn' <= accepted'
        BY <2>6, <4>1 DEF NoConn, TypeOK
      <4> QED  BY <2>6, <3>1, <4>1, <4>2, GuestMoves DEF Places
    <3>3. CASE g \in Conns
      <4>1. Goto(g, "done") /\ gconn' = gconn
        BY <2>6, <3>3 DEF Return, writeVars
      <4>2. /\ pc'[g] = "done" /\ pc'[Guest] = pc[Guest]
            /\ \A c \in Conns : c # g => pc'[c] = pc[c]
        BY <3>3, <4>1, ReaderMoves
      <4>3. pc[g] # "none"
        BY <2>6
      <4>4. /\ ~(g > accepted) /\ UNCHANGED <<accepted, spc, closed>>
            /\ ~(spc \in {"push", "spawn"} /\ g = accepted)
        BY <2>6, <3>3, <4>3 DEF Places
      <4> QED  BY <3>1, <3>3, <4>1, <4>2, <4>4 DEF Places
    <3> QED  BY <3>2, <3>3, GuestOrReader
  <2>7. ASSUME NEW g \in Goroutines, Lock(g) PROVE Places'
    <3>1. /\ UNCHANGED <<accepted, spc, closed>>
          /\ \A i \in Ids : conns'[i] \in {conns[i], NoConn}
      BY <2>7 DEF Lock, acceptVars, socketVars, TypeOK
    <3>2. CASE conns[id[g]] = NoConn
      BY <2>6, <2>7, <3>1, <3>2 DEF Lock
    <3>3. CASE conns[id[g]] # NoConn
      <4>1. Goto(g, "close") /\ gconn' = gconn /\ pc[g] = "lock"
        BY <2>7, <3>3 DEF Lock, writeVars
      <4>2. \A i \in Ids : conns'[i] <= accepted'
        BY <3>1 DEF Places
      <4>3. CASE g = Guest
        BY <3>1, <4>1, <4>2, <4>3, GuestMoves DEF Places
      <4>4. CASE g \in Conns
        BY <3>1, <4>1, <4>2, <4>4, ReaderMoves DEF Places
      <4> QED  BY <4>3, <4>4, GuestOrReader
    <3> QED  BY <3>2, <3>3
  <2>8. ASSUME NEW g \in Goroutines, Close(g) PROVE Places'
    <3>1. UNCHANGED <<conns, accepted, spc, gconn>> /\ Goto(g, "announce") /\ pc[g] = "close"
      BY <2>8 DEF Close, tableVars, acceptVars, writeVars
    <3>2. ConnOf(g) \in Nat /\ ConnOf(g) <= accepted
      BY <3>1, GuestOrReader DEF ConnOf, Places, TypeOK, Conns
    <3>3. \A c \in Conns : c > accepted => closed'[c] = closed[c]
      <4>1. \A c \in Conns : c > accepted => c # ConnOf(g)
        BY <3>2
      <4> QED  BY <2>8, <4>1, Zenon DEF Close, TypeOK
    <3>4. CASE g = Guest
      BY <3>1, <3>3, <3>4, GuestMoves DEF Places
    <3>5. CASE g \in Conns
      BY <3>1, <3>3, <3>5, ReaderMoves DEF Places
    <3> QED  BY <3>4, <3>5, GuestOrReader
  <2>9. ASSUME NEW g \in Goroutines, Announce(g) PROVE Places'
    BY <2>6, <2>9 DEF Announce, tableVars, acceptVars, socketVars
  <2>10. ASSUME NEW i \in Ids, WriteLookup(i) PROVE Places'
    BY <2>10
    DEF WriteLookup, Places, TypeOK, Goto, tableVars, acceptVars, socketVars, Goroutines
  <2>11. CASE GuestRecv
    BY <2>11 DEF GuestRecv, Places, tableVars, acceptVars, writeVars, socketVars
  <2>12. CASE WriteOK
    <3>1. /\ UNCHANGED <<conns, accepted, spc, closed>>
          /\ Goto(Guest, "run") /\ gconn' = NoConn
      BY <2>12 DEF WriteOK, Return, tableVars, acceptVars, socketVars
    <3>2. gconn' <= accepted'
      BY <3>1 DEF NoConn, TypeOK
    <3> QED  BY <3>1, <3>2, GuestMoves DEF Places
  <2>13. CASE WriteFails
    BY <2>13
    DEF WriteFails, Places, TypeOK, Goto, tableVars, acceptVars, writeVars, socketVars,
        Goroutines
  <2>14. CASE TableClose
    <3>1. \A c \in Conns : c > accepted => closed'[c] = closed[c]
      <4>1. \A c \in Conns, i \in Ids : c > accepted => conns[i] # c
        BY DEF Places
      <4>2. \A c \in Conns : closed'[c] = (closed[c] \/ \E i \in Ids : conns[i] = c)
        BY <2>14, Zenon DEF TableClose
      <4>3. \A c \in Conns : closed[c] \in BOOLEAN
        BY DEF TypeOK
      <4> QED  BY <4>1, <4>2, <4>3, Zenon
    <3>2. UNCHANGED <<accepted, spc, gconn>> /\ Goto(Guest, "closing") /\ gconn = NoConn
      BY <2>14 DEF TableClose, Places, acceptVars, writeVars
    <3>3. \A i \in Ids : conns'[i] <= accepted'
      BY <2>14, <3>2 DEF TableClose, TypeOK, NoConn
    <3> QED  BY <3>1, <3>2, <3>3, GuestMoves DEF Places
  <2>15. CASE ListenerClose
    BY <2>15
    DEF ListenerClose, Places, TypeOK, Goto, tableVars, acceptVars, writeVars,
        socketVars, Goroutines
  <2> QED
    BY <2>1, <2>2, <2>3, <2>4, <2>5, <2>7, <2>8, <2>9, <2>10, <2>11, <2>12, <2>13,
       <2>14, <2>15 DEF Next, Disconnect
<1> QED  BY <1>1, <1>2, TypeCorrect, PTL DEF Spec

-----------------------------------------------------------------------------
(* What pushes do, and the order of chunks *)

\* A push adds its event at the end of the mailbox and of the trail of its
\* connection, or nothing anywhere.
LEMMA PushAppends ==
    ASSUME TypeOK, NEW e \in Event, Push(e)
    PROVE  /\ Full(box, e) => box' = box /\ trail' = trail
           /\ ~Full(box, e) =>
                  /\ DOMAIN box' = 1..(Len(box) + 1)
                  /\ \A k \in DOMAIN box : box'[k] = box[k]
                  /\ box'[Len(box) + 1] = e
                  /\ DOMAIN trail'[e.conn] = 1..(Len(trail[e.conn]) + 1)
                  /\ \A k \in DOMAIN trail[e.conn] :
                         trail'[e.conn][k] = trail[e.conn][k]
                  /\ trail'[e.conn][Len(trail[e.conn]) + 1] = e
                  /\ trail'[e.conn] = Append(trail[e.conn], e)
           /\ \A c \in Conns : c # e.conn => trail'[c] = trail[c]
           /\ DOMAIN box = 1..Len(box) /\ Len(box) \in Nat
           /\ \A c \in Conns : DOMAIN trail[c] = 1..Len(trail[c]) /\ Len(trail[c]) \in Nat
<1>1. e.conn \in Conns
  BY DEF Event
<1>2. box \in Seq(Event) /\ \A c \in Conns : trail[c] \in Seq(Event)
  BY DEF TypeOK
<1>3. trail \in [Conns -> Seq(Event)]
  BY DEF TypeOK
<1>4. Full(box, e) => box' = box /\ trail' = trail
  BY DEF Push, Pushed
<1>5. ASSUME ~Full(box, e)
      PROVE  /\ box' = Append(box, e)
             /\ trail'[e.conn] = Append(trail[e.conn], e)
  BY <1>1, <1>3, <1>5 DEF Push, Pushed
<1>6. \A c \in Conns : c # e.conn => trail'[c] = trail[c]
  BY <1>1, <1>3 DEF Push
<1>7. ASSUME NEW q \in Seq(Event)
      PROVE  /\ DOMAIN q = 1..Len(q) /\ Len(q) \in Nat
             /\ DOMAIN Append(q, e) = 1..(Len(q) + 1)
             /\ \A k \in DOMAIN q : Append(q, e)[k] = q[k]
             /\ Append(q, e)[Len(q) + 1] = e
  BY AppendProperties, LenProperties
<1>8. ASSUME ~Full(box, e)
      PROVE  /\ DOMAIN box' = 1..(Len(box) + 1)
             /\ \A k \in DOMAIN box : box'[k] = box[k]
             /\ box'[Len(box) + 1] = e
             /\ DOMAIN trail'[e.conn] = 1..(Len(trail[e.conn]) + 1)
             /\ \A k \in DOMAIN trail[e.conn] :
                    trail'[e.conn][k] = trail[e.conn][k]
             /\ trail'[e.conn][Len(trail[e.conn]) + 1] = e
  BY <1>1, <1>2, <1>5, <1>7, <1>8, ZenonT(40)
<1> QED  BY <1>2, <1>4, <1>5, <1>6, <1>7, <1>8, Zenon

\* The elements of a mailbox and of a trail, after a push.
LEMMA PushElements ==
    ASSUME TypeOK, NEW e \in Event, Push(e)
    PROVE  /\ \A k \in DOMAIN box' :
                  box'[k] = e \/ (k \in DOMAIN box /\ box'[k] = box[k])
           /\ \A c \in Conns : \A k \in DOMAIN trail'[c] :
                  \/ c = e.conn /\ trail'[c][k] = e
                  \/ k \in DOMAIN trail[c] /\ trail'[c][k] = trail[c][k]
<1>1. e.conn \in Conns
  BY DEF Event
<1>2. CASE Full(box, e)
  BY <1>2, PushAppends
<1>3. CASE ~Full(box, e)
  <2>1. ASSUME NEW k \in DOMAIN box'
        PROVE  box'[k] = e \/ (k \in DOMAIN box /\ box'[k] = box[k])
    <3>1. k \in 1..(Len(box) + 1) /\ Len(box) \in Nat /\ DOMAIN box = 1..Len(box)
      BY <1>3, PushAppends
    <3>2. k = Len(box) + 1 \/ k \in DOMAIN box
      BY <3>1
    <3> QED  BY <1>3, <3>2, PushAppends
  <2>2. ASSUME NEW k \in DOMAIN trail'[e.conn]
        PROVE  \/ trail'[e.conn][k] = e
               \/ k \in DOMAIN trail[e.conn] /\ trail'[e.conn][k] = trail[e.conn][k]
    <3> DEFINE q == trail[e.conn]
    <3>1. k \in 1..(Len(q) + 1) /\ Len(q) \in Nat /\ DOMAIN q = 1..Len(q)
      BY <1>1, <1>3, PushAppends
    <3>2. k = Len(q) + 1 \/ k \in DOMAIN q
      BY <3>1
    <3> QED  BY <1>3, <3>2, PushAppends
  <2>3. \A c \in Conns : c # e.conn => trail'[c] = trail[c]
    BY PushAppends
  <2> QED  BY <2>1, <2>2, <2>3, Zenon
<1> QED  BY <1>2, <1>3

\* Chunks are numbered in the order they are read, and pushed in that order.
LEMMA NumberedHolds == Spec => []Numbered
<1>1. Init => Numbered
  <2>1. Init => \A c \in Conns : trail[c] = <<>> /\ pc[c] = "none"
    BY ReadersAreNotTheGuest DEF Init
  <2> QED  BY <2>1 DEF Numbered
<1>2. TypeOK /\ Numbered /\ [Next]_vars => Numbered'
  <2> SUFFICES ASSUME TypeOK, Numbered, [Next]_vars PROVE Numbered'
    OBVIOUS
  <2>0. /\ MaxChunk \in Nat /\ \A c \in Conns : chunks[c] \in Nat
        /\ \A c \in Conns : \A l : pc' = [pc EXCEPT ![c] = l] =>
               \A d \in Conns : pc'[d] = IF d = c THEN l ELSE pc[d]
    BY ConnTableAssumption, ReadersAreNotTheGuest DEF TypeOK
  <2>1. CASE UNCHANGED <<chunks, trail>> /\ \A c \in Conns : pc'[c] = "push" => pc[c] = "push"
    BY <2>1 DEF Numbered
  <2>2. ASSUME NEW e \in Event, Push(e), e.n = 0, UNCHANGED chunks,
               \A c \in Conns : pc'[c] = "push" => pc[c] = "push"
        PROVE  Numbered'
    <3>1. \A c \in Conns : \A k \in DOMAIN trail'[c] :
              trail'[c][k] = e \/ (k \in DOMAIN trail[c] /\ trail'[c][k] = trail[c][k])
      BY <2>2, PushElements
    <3> QED  BY <2>0, <2>2, <3>1 DEF Numbered
  <2>3. CASE PushEstablished
    BY <2>2, <2>3, EventTypes DEF PushEstablished, socketVars
  <2>4. ASSUME NEW c \in Conns, ReadData(c) PROVE Numbered'
    <3>1. /\ chunks' = [chunks EXCEPT ![c] = LatestChunk + 1]
          /\ UNCHANGED trail
          /\ pc' = [pc EXCEPT ![c] = "push"]
      BY <2>4 DEF ReadData, mailVars, Goto
    <3>2. LatestChunk \in Nat /\ \A d \in Conns : chunks[d] <= LatestChunk
      BY <2>0, LatestChunkIs
    <3>3. /\ chunks'[c] = LatestChunk + 1
          /\ \A d \in Conns : d # c => chunks'[d] = chunks[d]
      BY <3>1 DEF TypeOK
    <3>4. \A k \in DOMAIN trail[c] : trail[c][k].n \in Nat
      <4>1. trail[c] \in Seq(Event)
        BY DEF TypeOK
      <4>2. \A k \in DOMAIN trail[c] : trail[c][k] \in Event
        BY <4>1, ElementOfSeq, LenProperties
      <4> QED  BY <2>0, <4>2 DEF Event
    <3>5. \A k \in DOMAIN trail[c] : trail[c][k].n < chunks'[c]
      BY <2>0, <3>2, <3>3, <3>4 DEF Numbered
    <3> QED  BY <2>0, <3>1, <3>2, <3>3, <3>4, <3>5 DEF Numbered
  <2>5. ASSUME NEW c \in Conns, PushData(c) PROVE Numbered'
    <3>1. Push(DataEvent(c)) /\ pc' = [pc EXCEPT ![c] = "read"] /\ UNCHANGED chunks
      BY <2>5 DEF PushData, Goto, socketVars
    <3>2. DataEvent(c) \in Event /\ DataEvent(c).n = chunks[c] /\ DataEvent(c).conn = c
      BY EventTypes DEF DataEvent
    <3>3. \A d \in Conns : \A k \in DOMAIN trail'[d] :
              \/ d = c /\ trail'[d][k] = DataEvent(c)
              \/ k \in DOMAIN trail[d] /\ trail'[d][k] = trail[d][k]
      BY <3>1, <3>2, PushElements
    <3>4. \A d \in Conns : \A k \in DOMAIN trail'[d] : trail'[d][k].n <= chunks'[d]
      BY <2>0, <3>1, <3>2, <3>3 DEF Numbered
    <3>5. \A d \in Conns : pc'[d] = "push" => pc[d] = "push" /\ d # c
      <4>1. Goto(c, "read")
        BY <3>1 DEF Goto
      <4>2. pc'[c] = "read" /\ \A d \in Conns : d # c => pc'[d] = pc[d]
        BY <4>1, ReaderMoves
      <4> QED  BY <4>2
    <3>6. \A d \in Conns : d # c => trail'[d] = trail[d]
      BY <3>1, <3>2, PushAppends
    <3> QED  BY <3>1, <3>4, <3>5, <3>6 DEF Numbered
  <2>6. ASSUME NEW c \in Conns, ReadErr(c) PROVE Numbered'
    BY <2>0, <2>1, <2>6 DEF ReadErr, socketVars, mailVars, Goto
  <2>7. ASSUME NEW g \in Goroutines, NEW l, l # "push", pc' = [pc EXCEPT ![g] = l]
        PROVE  \A c \in Conns : pc'[c] = "push" => pc[c] = "push"
    BY <2>7, ReadersAreNotTheGuest DEF TypeOK
  <2>8. ASSUME NEW g \in Goroutines, Return(g)
        PROVE  \A c \in Conns : pc'[c] = "push" => pc[c] = "push"
    BY <2>7, <2>8 DEF Return, Goto
  <2>9. ASSUME NEW g \in Goroutines, Lock(g) PROVE Numbered'
    BY <2>1, <2>7, <2>8, <2>9 DEF Lock, Goto, socketVars, mailVars
  <2>10. ASSUME NEW g \in Goroutines, Close(g) PROVE Numbered'
    BY <2>1, <2>7, <2>10 DEF Close, Goto, mailVars
  <2>11. ASSUME NEW g \in Goroutines, Announce(g) PROVE Numbered'
    <3>1. /\ [kind |-> KindClosed, id |-> id[g], conn |-> ConnOf(g), n |-> 0,
              by |-> g] \in Event
      BY <2>11, EventTypes DEF Announce
    <3> QED  BY <2>2, <2>8, <2>11, <3>1 DEF Announce, socketVars
  <2>12. Guest \in Goroutines
    BY DEF Goroutines
  <2>13. CASE \/ Accept \/ AcceptFails \/ (\E c \in Conns : HangUp(c)) \/ GuestRecv
              \/ UNCHANGED vars
    BY <2>1, <2>13
    DEF Accept, AcceptFails, HangUp, GuestRecv, vars, mailVars, socketVars, acceptVars
  <2>14. CASE Spawn
    BY <2>0, <2>1, <2>14 DEF Spawn, Goto, mailVars, socketVars, TypeOK, Conns
  <2>15. CASE \/ (\E i \in Ids : WriteLookup(i)) \/ WriteFails \/ TableClose
              \/ ListenerClose
    BY <2>1, <2>7, <2>12, <2>15
    DEF WriteLookup, WriteFails, TableClose, ListenerClose, Goto, mailVars, socketVars
  <2>16. CASE WriteOK
    BY <2>1, <2>8, <2>12, <2>16 DEF WriteOK, mailVars, socketVars
  <2> QED
    BY <2>3, <2>4, <2>5, <2>6, <2>9, <2>10, <2>11, <2>13, <2>14, <2>15, <2>16
    DEF Next, Disconnect
<1> QED  BY <1>1, <1>2, TypeCorrect, PTL DEF Spec

-----------------------------------------------------------------------------
(* Ids while they do not wrap *)

LEMMA Typed ==
    ASSUME TypeOK
    PROVE  /\ accepted \in Nat /\ MaxConn \in Nat /\ accepted <= MaxConn
           /\ spc \in {"push", "spawn"} => accepted \in Conns
           /\ \A i \in Ids : conns[i] \in Conns \cup {NoConn}
           /\ \A i \in Ids : conns[i] \in Nat
           /\ gconn \in Nat
           /\ Conns \subseteq Nat /\ Ids \subseteq Nat
           /\ \A c \in Conns : c # NoConn /\ c # 0
           /\ NoConn = 0
           /\ \A i \in Ids : view[i] \in Conns \cup {NoConn}
<1>1. /\ MaxConn \in Nat /\ IdMod \in Nat /\ NoConn = 0
      /\ Conns = 1..MaxConn /\ Ids = 0..(IdMod - 1)
  BY ConnTableAssumption DEF Conns, NoConn, Ids
<1>2. /\ accepted \in 0..MaxConn
      /\ spc \in {"push", "spawn"} => accepted > 0
      /\ gconn \in Conns \cup {NoConn}
      /\ \A i \in Ids : conns[i] \in Conns \cup {NoConn}
      /\ \A i \in Ids : view[i] \in Conns \cup {NoConn}
  BY DEF TypeOK
<1> QED  BY <1>1, <1>2

\* Begun is for good: c was accepted before the connection that is now being
\* announced to the guest.
LEMMA BegunStays ==
    ASSUME TypeOK, [Next]_vars, NEW c, Begun(c)
    PROVE  Begun(c)'
<1>1. accepted \in Nat
  BY Typed
<1>2. CASE Accept
  BY <1>1, <1>2 DEF Accept, Begun
<1>3. CASE UNCHANGED <<accepted, spc>>
  BY <1>3 DEF Begun
<1>4. CASE AcceptFails \/ PushEstablished \/ Spawn
  BY <1>4 DEF AcceptFails, PushEstablished, Spawn, Begun
<1> QED
  BY <1>2, <1>3, <1>4
  DEF Next, Disconnect, ReadData, PushData, ReadErr, HangUp, Lock, Close, Announce,
      WriteLookup, GuestRecv, WriteOK, WriteFails, TableClose, ListenerClose, vars,
      acceptVars

\* The same of the next state, for a connection named in that state.
BegunNext(c) == c \in 1..accepted' /\ ~(c = accepted' /\ spc' = "push")

\* Without reuse the n-th connection gets id n.
LEMMA AcceptCounts ==
    ASSUME TypeOK, Places, NoReuse, Fresh, Accept
    PROVE  AllocID = accepted + 1 /\ accepted + 1 \in Ids
<1>1. nextID + 1 \in Ids /\ nextID \in Ids /\ nextID = accepted
  <2>1. nextID = accepted /\ accepted < MaxConn /\ MaxConn < IdMod
    BY DEF NoReuse, Accept, Fresh
  <2>2. accepted \in Nat /\ MaxConn \in Nat /\ IdMod \in Nat
    BY Typed, ConnTableAssumption
  <2> QED  BY <2>1, <2>2 DEF Ids
<1>2. Free(nextID + 1)
  BY <1>1, Typed DEF Free, Fresh, Places
<1> QED  BY <1>1, <1>2, AllocIDCounts

LEMMA FreshHolds == ASSUME NoReuse PROVE Spec => []Fresh
<1>1. Init => Fresh
  <2>1. 0 \in Ids /\ 0 \notin Conns
    BY ConnTableAssumption DEF Ids, Conns
  <2>2. \A c \in 1..0 : FALSE
    OBVIOUS
  <2> QED
    BY <2>1, <2>2 DEF Init, Fresh, NoConn, Goroutines, Guest
<1>2. TypeOK /\ Places /\ Fresh /\ [Next]_vars => Fresh'
  <2> SUFFICES ASSUME TypeOK, Places, Fresh, [Next]_vars PROVE Fresh'
    OBVIOUS
  <2>0. /\ \A c : Begun(c) => BegunNext(c)
        /\ gconn # NoConn => Begun(gconn)
    BY BegunStays DEF Fresh, Begun, BegunNext
  <2>1. CASE Accept
    <3>3. AllocID = accepted + 1
      BY <2>1, AcceptCounts
    <3>4. /\ accepted' = accepted + 1 /\ nextID' = accepted + 1
          /\ conns' = [conns EXCEPT ![accepted + 1] = accepted + 1]
          /\ id' = [id EXCEPT ![accepted + 1] = accepted + 1]
          /\ UNCHANGED <<gconn, box, view, seen>>
      BY <2>1, <3>3 DEF Accept, mailVars, viewVars
    <3>5. accepted + 1 \in Conns /\ accepted + 1 \in Goroutines /\ accepted + 1 # Guest
      BY <2>1, Typed, ReadersAreNotTheGuest DEF Accept, Conns
    <3>6. id'[accepted + 1] = accepted + 1 /\ \A g \in Goroutines : g # accepted + 1 => id'[g] = id[g]
      BY <3>4, <3>5 DEF TypeOK
    <3>7. \A c \in 1..accepted' : c = accepted + 1 \/ (c \in 1..accepted /\ c \in Goroutines)
      BY <3>4, Typed, ReadersAreNotTheGuest DEF Conns
    <3>8. \A c \in 1..accepted' : id'[c] = c
      BY <3>6, <3>7 DEF Fresh
    <3>9. \A i \in Ids : conns'[i] \in {NoConn, i}
      BY <3>4 DEF Fresh, TypeOK
    <3>10. id'[Guest] = gconn'
      BY <3>4, <3>5, <3>6, Typed DEF Fresh, Goroutines
    <3> QED  BY <2>0, <3>4, <3>8, <3>9, <3>10 DEF Fresh, Begun, BegunNext
  <2>2. CASE UNCHANGED <<tableVars, accepted, writeVars, box, viewVars>>
    BY <2>0, <2>2 DEF Fresh, tableVars, writeVars, viewVars, Begun, BegunNext
  <2>ids. ASSUME UNCHANGED accepted,
                \/ UNCHANGED writeVars
                \/ id' = [id EXCEPT ![Guest] = 0] /\ gconn' = NoConn
         PROVE  /\ \A c \in 1..accepted' : id'[c] = c
                /\ id'[Guest] = gconn'
                /\ gconn' # NoConn => BegunNext(gconn')
    <3>1. CASE UNCHANGED writeVars
      BY <2>0, <2>ids, <3>1 DEF writeVars, Fresh
    <3>2. CASE id' = [id EXCEPT ![Guest] = 0] /\ gconn' = NoConn
      <4>1. Guest \in Goroutines /\ id \in [Goroutines -> Ids]
        BY DEF TypeOK, Goroutines
      <4>2. \A c \in 1..accepted : c \in Conns
        BY Typed DEF Conns
      <4>3. \A c \in Conns : id'[c] = id[c]
        BY <3>2, <4>1, ReadersAreNotTheGuest
      <4>4. id'[Guest] = 0
        BY <3>2, <4>1
      <4> QED  BY <2>ids, <3>2, <4>2, <4>3, <4>4 DEF Fresh, NoConn
    <3> QED  BY <2>ids, <3>1, <3>2
  <2>3. ASSUME NEW e \in Event, Push(e), e.id = e.conn, BegunNext(e.conn),
               UNCHANGED <<tableVars, accepted, viewVars>>,
               \/ UNCHANGED writeVars
               \/ id' = [id EXCEPT ![Guest] = 0] /\ gconn' = NoConn
        PROVE  Fresh'
    <3>1. \A k \in DOMAIN box' : box'[k].id = box'[k].conn /\ BegunNext(box'[k].conn)
      <4>1. \A k \in DOMAIN box' :
                box'[k] = e \/ (k \in DOMAIN box /\ box'[k] = box[k])
        BY <2>3, PushElements
      <4> QED  BY <2>0, <2>3, <4>1, Zenon DEF Fresh
    <3>2. /\ \A c \in 1..accepted' : id'[c] = c
          /\ id'[Guest] = gconn'
          /\ gconn' # NoConn => BegunNext(gconn')
      BY <2>3, <2>ids
    <3>4. UNCHANGED <<nextID, conns, accepted, view, seen>>
      BY <2>3 DEF tableVars, viewVars
    <3> QED  BY <2>0, <3>1, <3>2, <3>4 DEF Fresh, Begun, BegunNext
  <2>4. CASE PushEstablished
    <3>1. accepted \in Conns /\ accepted \in 1..accepted
      BY <2>4, Typed DEF PushEstablished, Conns
    <3>2. id[accepted] = accepted /\ BegunNext(accepted)
      BY <2>4, <3>1 DEF PushEstablished, Fresh, BegunNext
    <3> DEFINE e == [kind |-> KindEstablished, id |-> id[accepted],
                     conn |-> accepted, n |-> 0, by |-> accepted]
    <3>3. e \in Event /\ e.id = e.conn /\ e.conn = accepted
      BY <2>4, <3>2, EventTypes DEF PushEstablished
    <3>4. Push(e) /\ UNCHANGED <<tableVars, accepted, viewVars, writeVars>>
      BY <2>4 DEF PushEstablished
    <3> HIDE DEF e
    <3> QED  BY <2>3, <3>2, <3>3, <3>4
  <2>5. ASSUME NEW c \in Conns, pc[c] # "none" PROVE Begun(c) /\ id[c] = c
    <3>1. c \in 1..accepted
      BY <2>5, Typed DEF Places, Conns
    <3>2. ~(c = accepted /\ spc = "push")
      BY <2>5 DEF Places
    <3> QED  BY <3>1, <3>2 DEF Begun, Fresh
  <2>6. ASSUME NEW c \in Conns, PushData(c) PROVE Fresh'
    <3>1. DataEvent(c) \in Event /\ DataEvent(c).id = DataEvent(c).conn
          /\ DataEvent(c).conn = c /\ BegunNext(c)
      BY <2>0, <2>5, <2>6, EventTypes DEF DataEvent, PushData
    <3> QED
      BY <2>3, <2>6, <3>1 DEF PushData, acceptVars
  <2>7. ASSUME NEW g \in Goroutines, Announce(g) PROVE Fresh'
    <3> DEFINE e == [kind |-> KindClosed, id |-> id[g], conn |-> ConnOf(g), n |-> 0,
                     by |-> g]
    <3>1. e \in Event /\ e.id = id[g] /\ e.conn = ConnOf(g)
      BY <2>7, EventTypes DEF Announce
    <3>2. id[g] = ConnOf(g) /\ Begun(ConnOf(g))
      <4>1. CASE g = Guest
        BY <2>0, <2>7, <4>1 DEF Announce, TypeOK, Fresh, ConnOf
      <4>2. CASE g \in Conns
        BY <2>5, <2>7, <4>2, ReadersAreNotTheGuest DEF Announce
      <4> QED  BY <4>1, <4>2, GuestOrReader
    <3>3. Push(e) /\ UNCHANGED <<tableVars, accepted, viewVars>>
      BY <2>7 DEF Announce, acceptVars
    <3>4. \/ UNCHANGED writeVars
          \/ id' = [id EXCEPT ![Guest] = 0] /\ gconn' = NoConn
      BY <2>7 DEF Announce, Return
    <3> HIDE DEF e
    <3> QED  BY <2>0, <2>3, <3>1, <3>2, <3>3, <3>4
  <2>8. CASE /\ UNCHANGED <<nextID, accepted, box, viewVars>>
             /\ \A i \in Ids : conns'[i] \in {conns[i], NoConn}
             /\ \/ UNCHANGED writeVars
                \/ id' = [id EXCEPT ![Guest] = 0] /\ gconn' = NoConn
    <3>1. /\ \A c \in 1..accepted' : id'[c] = c
          /\ id'[Guest] = gconn'
          /\ gconn' # NoConn => BegunNext(gconn')
      BY <2>8, <2>ids
    <3>2. \A i \in Ids : conns'[i] \in {NoConn, i}
      BY <2>8 DEF Fresh
    <3>3. UNCHANGED <<nextID, accepted, box, view, seen>>
      BY <2>8 DEF viewVars
    <3> QED  BY <2>0, <3>1, <3>2, <3>3 DEF Fresh, Begun, BegunNext
  <2>9. ASSUME NEW g \in Goroutines, Lock(g) PROVE Fresh'
    BY <2>8, <2>9 DEF Lock, Return, acceptVars, mailVars, TypeOK
  <2>10. CASE WriteOK
    BY <2>8, <2>10 DEF WriteOK, Return, tableVars, acceptVars, mailVars
  <2>11. CASE TableClose
    BY <2>8, <2>11 DEF TableClose, acceptVars, mailVars
  <2>12. ASSUME NEW i \in Ids, WriteLookup(i) PROVE Fresh'
    <3>1. UNCHANGED <<nextID, conns, accepted, box, view, seen>>
      BY <2>12 DEF WriteLookup, tableVars, acceptVars, mailVars, viewVars
    <3>2. conns[i] = i /\ Begun(i) /\ id' = [id EXCEPT ![Guest] = i] /\ gconn' = i
      BY <2>12 DEF WriteLookup, Fresh
    <3>3. /\ \A c \in 1..accepted' : id'[c] = c
          /\ id'[Guest] = gconn'
      BY <3>1, <3>2, Typed, ReadersAreNotTheGuest, SMTT(30)
      DEF Fresh, TypeOK, Conns, Goroutines
    <3> QED  BY <2>0, <3>1, <3>2, <3>3 DEF Fresh, Begun, BegunNext
  <2>13. CASE GuestRecv
    <3>1. box \in Seq(Event) /\ box # <<>> /\ box' = Tail(box)
          /\ UNCHANGED <<tableVars, accepted, writeVars>>
      BY <2>13 DEF GuestRecv, TypeOK, acceptVars
    <3>2. Head(box).id = Head(box).conn /\ Begun(Head(box).conn)
      BY <3>1, EmptySeq, LenProperties DEF Fresh
    <3>3. \A k \in DOMAIN box' : k + 1 \in DOMAIN box /\ box'[k] = box[k + 1]
      BY <3>1, HeadTailProperties, LenProperties
    <3>4. \A k \in DOMAIN box' : box'[k].id = box'[k].conn /\ BegunNext(box'[k].conn)
      BY <2>0, <3>3, Zenon DEF Fresh
    <3>5. Head(box).id \in Ids
      <4>1. Head(box) \in Event
        BY <3>1, HeadTailProperties
      <4> QED  BY <4>1 DEF Event
    <3>6. \A i \in Ids : view'[i] \in {NoConn, i}
      BY <2>13, <3>2, <3>5, Zenon DEF GuestRecv, Fresh, TypeOK
    <3>7. \A i \in seen' : BegunNext(i)
      BY <2>0, <2>13, <3>2 DEF GuestRecv, Fresh
    <3> QED
      BY <2>0, <3>1, <3>4, <3>6, <3>7
      DEF Fresh, tableVars, writeVars, Begun, BegunNext
  <2> QED
    BY <2>1, <2>2, <2>4, <2>6, <2>7, <2>9, <2>10, <2>11, <2>12, <2>13
    DEF Next, Disconnect, AcceptFails, Spawn, ReadData, ReadErr, HangUp, Close,
        WriteFails, ListenerClose, vars, acceptVars, mailVars
<1> QED  BY <1>1, <1>2, TypeCorrect, PlacesHold, PTL DEF Spec

\* While ids are not reused the guest never takes data of one connection for
\* data of another: the id of every event that waits is the number of its
\* connection, and so is the one of every entry of the guest.
THEOREM NoMixUpHolds == ASSUME NoReuse PROVE Spec => []NoMixUp
<1>1. TypeOK /\ Fresh => NoMixUp
  <2> SUFFICES ASSUME TypeOK, Fresh, box # <<>>, view[Head(box).id] # NoConn
               PROVE  view[Head(box).id] = Head(box).conn
    BY DEF NoMixUp
  <2>1. box \in Seq(Event)
    BY DEF TypeOK
  <2>2. 1 \in DOMAIN box /\ Head(box) = box[1] /\ Head(box) \in Event
    BY <2>1, EmptySeq, LenProperties, HeadTailProperties
  <2>3. Head(box).id \in Ids /\ Head(box).id = Head(box).conn
    BY <2>2 DEF Event, Fresh
  <2> QED  BY <2>3 DEF Fresh
<1> QED  BY <1>1, TypeCorrect, FreshHolds, PTL DEF Spec

-----------------------------------------------------------------------------
(* The table and the sockets *)

\* Nothing undoes the shutdown.
LEMMA ShutdownIsFinal ==
    ASSUME TypeOK, [Next]_vars, ShuttingDown PROVE ShuttingDown'
<1> USE ReadersAreNotTheGuest DEF ShuttingDown, TypeOK, Goroutines
<1>1. CASE \E c \in Conns : ReadData(c) \/ PushData(c) \/ ReadErr(c)
  BY <1>1 DEF ReadData, PushData, ReadErr, Goto
<1>2. CASE \E g \in Goroutines : Lock(g) \/ Close(g) \/ Announce(g)
  BY <1>2 DEF Lock, Close, Announce, Return, Goto
<1>3. CASE Spawn
  BY <1>3 DEF Spawn, Goto, Conns
<1>4. CASE TableClose \/ ListenerClose
  BY <1>4 DEF TableClose, ListenerClose, Goto
<1>5. CASE pc' = pc
  BY <1>5
<1> QED
  BY <1>1, <1>2, <1>3, <1>4, <1>5
  DEF Next, Disconnect, Accept, AcceptFails, PushEstablished, HangUp, WriteLookup,
      GuestRecv, WriteOK, WriteFails, vars

\* What Lock finds under the id is the connection it is about or nothing,
\* and no other id leads to that connection.
LEMMA LockFinds ==
    ASSUME TypeOK, Places, OneEnder, NoReuse => Fresh, Agreement,
           NEW g \in Goroutines, pc[g] = "lock"
    PROVE  /\ conns[id[g]] \in {NoConn, ConnOf(g)}
           /\ ~GuestWrites => conns[id[g]] = ConnOf(g)
           /\ ConnOf(g) \in Conns
           /\ \A i \in Ids : conns[i] = ConnOf(g) => i = id[g]
<1>1. CASE g = Guest
  <2>1. GuestWrites /\ NoReuse /\ gconn # NoConn /\ gconn \in Conns
    BY <1>1 DEF Places, Ending, OneEnder, TypeOK
  <2>2. gconn \in Ids /\ ConnOf(g) = gconn /\ id[g] = gconn
    BY <1>1, <2>1 DEF Fresh, TypeOK, Goroutines, ConnOf
  <2> QED  BY <2>1, <2>2 DEF Fresh
<1>2. CASE g \in Conns
  <2>1. g \in 1..accepted /\ ConnOf(g) = g
    BY <1>2, Typed, ReadersAreNotTheGuest DEF Places, Conns
  <2>2. id[g] \in Ids
    BY DEF TypeOK
  <2>3. NoReuse => id[g] = g /\ conns[id[g]] \in {NoConn, g}
    BY <2>1, <2>2 DEF Fresh
  <2>4. ~GuestWrites => conns[id[g]] = g
    BY <2>1 DEF Agreement, BeforeEnd
  <2>5. \A i \in Ids : conns[i] = g => i = id[g]
    BY <1>2, Typed DEF Agreement, EntryOwned
  <2> QED  BY <1>2, <2>1, <2>3, <2>4, <2>5 DEF OneEnder
<1> QED  BY <1>1, <1>2, GuestOrReader

\* Every step but the shutdown keeps the agreement.
LEMMA AgreementKept ==
    ASSUME TypeOK, Places, OneEnder, NoReuse => Fresh, Agreement,
           [Next]_vars, ~ShuttingDown'
    PROVE  Agreement'
<1>0. /\ accepted \in Nat
      /\ \A g \in Goroutines : ConnOf(g) \in Nat /\ (pc[g] # "none" => ConnOf(g) <= accepted)
      /\ \A g \in Goroutines : pc[g] \in Ending => ConnOf(g) \in Conns
      /\ \A c \in 1..accepted : c \in Conns /\ c \in Goroutines /\ c # Guest /\ ConnOf(c) = c
      /\ \A i \in Ids : conns[i] # NoConn =>
             conns[i] \in Conns /\ conns[i] \in 1..accepted /\ conns[i] \in Goroutines
      /\ \A g \in Goroutines : id[g] \in Ids
  <2>1. ASSUME NEW g \in Goroutines
        PROVE  /\ ConnOf(g) \in Nat /\ (pc[g] # "none" => ConnOf(g) <= accepted)
               /\ pc[g] \in Ending => ConnOf(g) \in Conns
               /\ id[g] \in Ids
    <3>1. CASE g = Guest
      BY <3>1, Typed DEF ConnOf, Places, TypeOK, Ending
    <3>2. CASE g \in Conns
      BY <3>2, Typed, ReadersAreNotTheGuest DEF Places, TypeOK
    <3> QED  BY <3>1, <3>2, GuestOrReader
  <2>2. \A c \in 1..accepted : c \in Conns
    BY Typed DEF Conns
  <2>3. \A i \in Ids : conns[i] # NoConn => conns[i] \in Conns /\ conns[i] \in 1..accepted
    BY Typed DEF Places, Conns
  <2> QED  BY <2>1, <2>2, <2>3, Typed, ReadersAreNotTheGuest
<1>1. CASE /\ UNCHANGED <<conns, closed, accepted, id, gconn>>
           /\ \A g \in Goroutines :
                  pc'[g] = pc[g] \/ (pc[g] \in BeforeEnd /\ pc'[g] \in BeforeEnd)
  <2>1. \A g \in Goroutines : ConnOf(g)' = ConnOf(g)
    BY <1>1 DEF ConnOf
  <2>2. \A g \in Goroutines : /\ pc'[g] \in Ending <=> pc[g] \in Ending
                              /\ pc'[g] \in BeforeEnd <=> pc[g] \in BeforeEnd
                              /\ pc'[g] = "close" <=> pc[g] = "close"
    BY <1>1 DEF Ending, BeforeEnd
  <2>3. \A i \in Ids : EntryOwned(i)'
    BY <1>0, <1>1, <2>2 DEF Agreement, EntryOwned, BeforeEnd
  <2>4. \A c \in 1..accepted' : OpenHeld(c)'
    BY <1>1, <2>1, <2>2 DEF Agreement, OpenHeld
  <2>5. \A g \in Goroutines, i \in Ids : pc'[g] \in Ending => conns'[i] # ConnOf(g)'
    BY <1>1, <2>1, <2>2 DEF Agreement
  <2>6. \A c \in 1..accepted' :
            ~GuestWrites /\ pc'[c] \in BeforeEnd => conns'[id'[c]] = c
    BY <1>0, <1>1, <2>2 DEF Agreement
  <2> QED  BY <2>3, <2>4, <2>5, <2>6 DEF Agreement
<1>2. CASE Accept
  <2>1. PICK n \in Conns, a \in Ids :
        /\ accepted' = n /\ n = accepted + 1 /\ n \in Goroutines /\ n # Guest
        /\ conns' = [conns EXCEPT ![a] = n] /\ id' = [id EXCEPT ![n] = a]
        /\ pc' = pc /\ closed' = closed /\ gconn' = gconn
        /\ conns[a] = NoConn
    <3>1. AllocID \in Ids /\ Free(AllocID)
      BY <1>2, AllocIDIsFree DEF Accept, TypeOK
    <3>2. accepted + 1 \in Conns
      BY <1>2, Typed DEF Accept, Conns
    <3>3. /\ accepted' = accepted + 1
          /\ conns' = [conns EXCEPT ![AllocID] = accepted + 1]
          /\ id' = [id EXCEPT ![accepted + 1] = AllocID]
          /\ pc' = pc /\ closed' = closed /\ gconn' = gconn
      BY <1>2 DEF Accept, socketVars
    <3> QED  BY <3>1, <3>2, <3>3, ReadersAreNotTheGuest DEF Free
  <2>2. pc[n] = "none" /\ ~closed[n]
    BY <2>1, Typed DEF Places
  <2>3. /\ conns'[a] = n /\ \A i \in Ids : i # a => conns'[i] = conns[i]
        /\ id'[n] = a /\ \A g \in Goroutines : g # n => id'[g] = id[g]
    BY <2>1 DEF TypeOK
  <2>4. \A c \in 1..accepted' : c = n \/ (c \in 1..accepted /\ c # n)
    BY <1>0, <2>1
  <2>5. \A g \in Goroutines : ConnOf(g)' = ConnOf(g)
    BY <2>1 DEF ConnOf
  <2>6. n \notin 1..accepted /\ \A g \in Goroutines : pc[g] \in Ending => ConnOf(g) # n
    BY <1>0, <2>1 DEF Ending
  <2>7. \A i \in Ids : EntryOwned(i)'
    BY <1>0, <2>1, <2>2, <2>3, <2>6 DEF Agreement, EntryOwned, BeforeEnd
  <2>8. \A c \in 1..accepted' : OpenHeld(c)'
    <3>1. OpenHeld(n)'
      BY <2>3 DEF OpenHeld
    <3>2. ASSUME NEW c \in 1..accepted, c # n PROVE OpenHeld(c)'
      BY <1>0, <2>1, <2>3, <2>5, <3>2 DEF Agreement, OpenHeld, NoConn
    <3> QED  BY <2>1, <2>4, <3>1, <3>2
  <2>9. \A g \in Goroutines, i \in Ids : pc'[g] \in Ending => conns'[i] # ConnOf(g)'
    BY <2>1, <2>3, <2>5, <2>6 DEF Agreement
  <2>10. \A c \in 1..accepted' :
             ~GuestWrites /\ pc'[c] \in BeforeEnd => conns'[id'[c]] = c
    BY <1>0, <2>1, <2>3, <2>4 DEF Agreement, NoConn
  <2> QED  BY <2>7, <2>8, <2>9, <2>10 DEF Agreement
<1>3. ASSUME NEW g \in Goroutines, Lock(g), conns[id[g]] # NoConn PROVE Agreement'
  <2>1. /\ pc[g] = "lock" /\ pc' = [pc EXCEPT ![g] = "close"]
        /\ conns' = [conns EXCEPT ![id[g]] = NoConn]
        /\ UNCHANGED <<closed, accepted, id, gconn>>
    BY <1>3 DEF Lock, Goto, writeVars, acceptVars, socketVars
  <2>2. /\ conns[id[g]] = ConnOf(g) /\ ConnOf(g) \in Conns
        /\ \A i \in Ids : conns[i] = ConnOf(g) => i = id[g]
    BY <1>3, <2>1, LockFinds
  <2>3. /\ pc'[g] = "close" /\ \A h \in Goroutines : h # g => pc'[h] = pc[h]
        /\ conns'[id[g]] = NoConn /\ \A i \in Ids : i # id[g] => conns'[i] = conns[i]
    BY <1>0, <2>1 DEF TypeOK
  <2>4. \A h \in Goroutines : ConnOf(h)' = ConnOf(h)
    BY <2>1 DEF ConnOf
  <2>5. \A i \in Ids : EntryOwned(i)'
    <3>1. ASSUME NEW i \in Ids, i # id[g], conns[i] # NoConn
          PROVE  conns[i] # g /\ pc'[conns[i]] = pc[conns[i]]
      BY <1>0, <2>2, <2>3, <3>1 DEF ConnOf, Agreement, EntryOwned
    <3> QED  BY <2>1, <2>3, <3>1 DEF Agreement, EntryOwned
  <2>6. \A c \in 1..accepted' : OpenHeld(c)'
    BY <1>0, <2>1, <2>2, <2>3, <2>4 DEF Agreement, OpenHeld
  <2>7. \A h \in Goroutines, i \in Ids : pc'[h] \in Ending => conns'[i] # ConnOf(h)'
    BY <1>0, <2>2, <2>3, <2>4, Typed DEF Agreement
  <2>8. \A c \in 1..accepted' :
            ~GuestWrites /\ pc'[c] \in BeforeEnd => conns'[id'[c]] = c
    <3>1. ASSUME NEW c \in 1..accepted, ~GuestWrites, pc'[c] \in BeforeEnd
          PROVE  conns'[id'[c]] = c
      <4>1. pc[c] \in BeforeEnd /\ c # g /\ conns[id[c]] = c
        BY <1>0, <2>3, <3>1 DEF Agreement, BeforeEnd
      <4>2. g # Guest /\ ConnOf(g) = g
        BY <2>1, <3>1, GuestOrReader, ReadersAreNotTheGuest DEF Places
      <4> QED  BY <1>0, <2>1, <2>2, <2>3, <4>1, <4>2
    <3> QED  BY <2>1, <3>1
  <2> QED  BY <2>5, <2>6, <2>7, <2>8 DEF Agreement
<1>4. ASSUME NEW g \in Goroutines, Return(g), pc[g] \in {"lock", "announce"},
             \A i \in Ids : conns[i] # ConnOf(g),
             ~GuestWrites => pc[g] = "announce",
             UNCHANGED <<conns, closed, accepted>>
      PROVE  Agreement'
  <2>1. /\ pc'[g] \in {"run", "done"}
        /\ \A h \in Goroutines : h # g =>
               pc'[h] = pc[h] /\ id'[h] = id[h] /\ ConnOf(h)' = ConnOf(h)
        /\ g # Guest => id' = id /\ gconn' = gconn
    BY <1>4 DEF Return, Goto, TypeOK, writeVars, ConnOf
  <2>2. \A c \in 1..accepted : id'[c] = id[c]
    BY <1>0, <2>1
  <2>3. \A i \in Ids : EntryOwned(i)'
    <3>1. ASSUME NEW i \in Ids, conns[i] # NoConn
          PROVE  conns[i] # g /\ pc'[conns[i]] = pc[conns[i]] /\ id'[conns[i]] = id[conns[i]]
      BY <1>0, <1>4, <2>1, <2>2, <3>1
    <3> QED  BY <1>4, <3>1 DEF Agreement, EntryOwned
  <2>4. \A c \in 1..accepted' : OpenHeld(c)'
    BY <1>0, <1>4, <2>1, <2>2 DEF Agreement, OpenHeld
  <2>5. \A h \in Goroutines, i \in Ids : pc'[h] \in Ending => conns'[i] # ConnOf(h)'
    BY <1>4, <2>1 DEF Agreement, Ending
  <2>6. \A c \in 1..accepted' :
            ~GuestWrites /\ pc'[c] \in BeforeEnd => conns'[id'[c]] = c
    BY <1>0, <1>4, <2>1, <2>2 DEF Agreement, BeforeEnd
  <2> QED  BY <2>3, <2>4, <2>5, <2>6 DEF Agreement
<1>5. ASSUME NEW g \in Goroutines, Close(g) PROVE Agreement'
  <2>1. /\ pc[g] = "close" /\ pc' = [pc EXCEPT ![g] = "announce"]
        /\ closed' = [closed EXCEPT ![ConnOf(g)] = TRUE]
        /\ UNCHANGED <<conns, accepted, id, gconn>>
    BY <1>5 DEF Close, Goto, tableVars, writeVars, acceptVars
  <2>2. /\ pc'[g] = "announce" /\ \A h \in Goroutines : h # g => pc'[h] = pc[h]
        /\ ConnOf(g) \in Conns
        /\ \A i \in Ids : conns[i] # ConnOf(g)
    BY <1>0, <2>1 DEF TypeOK, Ending, Agreement
  <2>3. closed'[ConnOf(g)] /\ \A c \in Conns : c # ConnOf(g) => closed'[c] = closed[c]
    BY <2>1, <2>2, Zenon DEF TypeOK
  <2>4. \A h \in Goroutines : ConnOf(h)' = ConnOf(h)
    BY <2>1 DEF ConnOf
  <2>5. \A i \in Ids : EntryOwned(i)'
    BY <1>0, <2>1, <2>2, <2>3 DEF Agreement, EntryOwned
  <2>6. \A c \in 1..accepted' : OpenHeld(c)'
    BY <1>0, <2>1, <2>2, <2>3, <2>4 DEF Agreement, OpenHeld
  <2>7. \A h \in Goroutines, i \in Ids : pc'[h] \in Ending => conns'[i] # ConnOf(h)'
    BY <2>1, <2>2, <2>4 DEF Agreement
  <2>8. \A c \in 1..accepted' :
            ~GuestWrites /\ pc'[c] \in BeforeEnd => conns'[id'[c]] = c
    BY <1>0, <2>1, <2>2 DEF Agreement, BeforeEnd
  <2> QED  BY <2>5, <2>6, <2>7, <2>8 DEF Agreement
<1>6. ASSUME pc[Guest] \notin Ending, pc'[Guest] \notin Ending,
             UNCHANGED <<conns, closed, accepted>>,
             \A c \in Conns : pc'[c] = pc[c] /\ id'[c] = id[c]
      PROVE  Agreement'
  <2>1. \A c \in Conns : ConnOf(c)' = ConnOf(c)
    BY ReadersAreNotTheGuest DEF ConnOf
  <2>2. \A i \in Ids : EntryOwned(i)'
    BY <1>0, <1>6 DEF Agreement, EntryOwned
  <2>3. \A c \in 1..accepted' : OpenHeld(c)'
    BY <1>0, <1>6, <2>1, GuestOrReader DEF Agreement, OpenHeld, Ending
  <2>4. \A g \in Goroutines, i \in Ids : pc'[g] \in Ending => conns'[i] # ConnOf(g)'
    BY <1>6, <2>1, GuestOrReader DEF Agreement
  <2>5. \A c \in 1..accepted' :
            ~GuestWrites /\ pc'[c] \in BeforeEnd => conns'[id'[c]] = c
    BY <1>0, <1>6 DEF Agreement
  <2> QED  BY <2>2, <2>3, <2>4, <2>5 DEF Agreement
<1>7. ASSUME NEW g \in Goroutines, Lock(g) PROVE Agreement'
  <2>1. CASE conns[id[g]] = NoConn
    <3>1. /\ pc[g] = "lock" /\ Return(g) /\ UNCHANGED <<closed, accepted>>
          /\ conns' = [conns EXCEPT ![id[g]] = NoConn]
      BY <1>7, <2>1 DEF Lock, acceptVars, socketVars
    <3>2. conns' = conns
      BY <2>1, <3>1 DEF TypeOK
    <3>3. GuestWrites /\ \A i \in Ids : conns[i] # ConnOf(g)
      BY <2>1, <3>1, LockFinds, Typed
    <3> QED  BY <1>4, <3>1, <3>2, <3>3
  <2> QED  BY <1>3, <1>7, <2>1
<1>8. ASSUME NEW g \in Goroutines, Announce(g) PROVE Agreement'
  <2>1. /\ pc[g] = "announce" /\ Return(g) /\ UNCHANGED <<conns, closed, accepted>>
    BY <1>8 DEF Announce, acceptVars, socketVars, tableVars
  <2>2. \A i \in Ids : conns[i] # ConnOf(g)
    BY <2>1 DEF Agreement, Ending
  <2> QED  BY <1>4, <2>1, <2>2
<1>9. ASSUME NEW c \in Conns, ReadData(c) \/ PushData(c) \/ ReadErr(c) PROVE Agreement'
  <2>1. UNCHANGED <<conns, closed, accepted, id, gconn>>
    BY <1>9
    DEF ReadData, PushData, ReadErr, tableVars, acceptVars, writeVars, socketVars
  <2>2. pc[c] \in BeforeEnd
    BY <1>9 DEF ReadData, PushData, ReadErr, BeforeEnd
  <2>3. PICK l \in BeforeEnd : Goto(c, l)
    BY <1>9 DEF ReadData, PushData, ReadErr, BeforeEnd
  <2>4. \A g \in Goroutines : pc'[g] = pc[g] \/ (g = c /\ pc'[g] = l)
    BY <2>3, ReaderMoves, GuestOrReader
  <2> QED  BY <1>1, <2>1, <2>2, <2>4
<1>10. CASE Spawn
  <2>1. UNCHANGED <<conns, closed, accepted, id, gconn>>
    BY <1>10 DEF Spawn, tableVars, writeVars, socketVars
  <2>2. Goto(accepted, "read") /\ pc[accepted] \in BeforeEnd /\ accepted \in Conns
    BY <1>10, Typed DEF Spawn, Places, BeforeEnd
  <2>3. \A g \in Goroutines : pc'[g] = pc[g] \/ (g = accepted /\ pc'[g] = "read")
    BY <2>2, ReaderMoves, GuestOrReader
  <2> QED  BY <1>1, <2>1, <2>2, <2>3 DEF BeforeEnd
<1>11. CASE \/ AcceptFails \/ PushEstablished \/ (\E c \in Conns : HangUp(c))
            \/ GuestRecv \/ UNCHANGED vars
  BY <1>1, <1>11
  DEF AcceptFails, PushEstablished, HangUp, GuestRecv, vars, tableVars, acceptVars,
      writeVars, socketVars
<1>12. ASSUME NEW i \in Ids, WriteLookup(i) PROVE Agreement'
  <2>1. /\ pc[Guest] = "run" /\ Goto(Guest, "write") /\ id' = [id EXCEPT ![Guest] = i]
        /\ UNCHANGED <<conns, closed, accepted>>
    BY <1>12 DEF WriteLookup, tableVars, acceptVars, socketVars
  <2>2. pc'[Guest] = "write" /\ \A c \in Conns : pc'[c] = pc[c] /\ id'[c] = id[c]
    BY <2>1, GuestMoves, ReadersAreNotTheGuest DEF TypeOK
  <2> QED  BY <1>6, <2>1, <2>2 DEF Ending
<1>13. CASE WriteOK
  <2>1. /\ pc[Guest] = "write" /\ Goto(Guest, "run") /\ id' = [id EXCEPT ![Guest] = 0]
        /\ UNCHANGED <<conns, closed, accepted>>
    BY <1>13 DEF WriteOK, Return, tableVars, acceptVars, socketVars
  <2>2. pc'[Guest] = "run" /\ \A c \in Conns : pc'[c] = pc[c] /\ id'[c] = id[c]
    BY <2>1, GuestMoves, ReadersAreNotTheGuest DEF TypeOK
  <2> QED  BY <1>6, <2>1, <2>2 DEF Ending
<1>14. CASE WriteFails
  <2>1. /\ pc[Guest] = "write" /\ Goto(Guest, "lock") /\ id' = id
        /\ UNCHANGED <<conns, closed, accepted>>
    BY <1>14 DEF WriteFails, tableVars, acceptVars, writeVars, socketVars
  <2>2. pc'[Guest] = "lock" /\ \A c \in Conns : pc'[c] = pc[c] /\ id'[c] = id[c]
    BY <2>1, GuestMoves
  <2> QED  BY <1>6, <2>1, <2>2 DEF Ending
<1>15. CASE TableClose \/ ListenerClose
  <2>1. Goto(Guest, "closing") \/ Goto(Guest, "exited")
    BY <1>15 DEF TableClose, ListenerClose
  <2>2. pc'[Guest] \in {"closing", "exited"}
    BY <2>1, GuestMoves
  <2> QED  BY <2>2 DEF ShuttingDown
<1> QED
  BY <1>2, <1>5, <1>7, <1>8, <1>9, <1>10, <1>11, <1>12, <1>13, <1>14, <1>15
  DEF Next, Disconnect

LEMMA AgreeHolds == ASSUME OneEnder PROVE Spec => []Agree
<1>1. Init => Agree
  <2> SUFFICES ASSUME Init PROVE Agreement
    BY DEF Agree
  <2>1. accepted = 0 /\ \A i \in Ids : conns[i] = NoConn
    BY DEF Init
  <2>2. \A g \in Goroutines : pc[g] \in {"run", "none"}
    BY DEF Init
  <2> QED  BY <2>1, <2>2 DEF Agreement, EntryOwned, Ending
<1>2. TypeOK /\ Places /\ (NoReuse => Fresh) /\ Agree /\ [Next]_vars => Agree'
  BY AgreementKept, ShutdownIsFinal DEF Agree
<1>3. CASE NoReuse
  <2>1. TypeOK /\ Places /\ Fresh /\ Agree /\ [Next]_vars => Agree'
    BY <1>2
  <2> QED  BY <1>1, <1>3, <2>1, TypeCorrect, PlacesHold, FreshHolds, PTL DEF Spec
<1>4. CASE ~NoReuse
  <2>1. TypeOK /\ Places /\ Agree /\ [Next]_vars => Agree'
    BY <1>2, <1>4
  <2> QED  BY <1>1, <2>1, TypeCorrect, PlacesHold, PTL DEF Spec
<1> QED  BY <1>3, <1>4

\* Until the shutdown every entry of the table is that of an open connection
\* whose reader will still run disconnect, and every open connection has its
\* entry or is about to be closed by whoever deleted it: no socket leaks and
\* no entry stays behind, whichever of a reader and a failed write comes first
\* to disconnect (conn.go:87-91).
THEOREM NoLeak == ASSUME OneEnder PROVE Spec => []NoConnectionLeaks
<1>1. Agree => NoConnectionLeaks
  BY DEF Agree, Agreement, NoConnectionLeaks
<1> QED  BY <1>1, AgreeHolds, PTL

-----------------------------------------------------------------------------
(* What the guest keeps *)

\* Covered by the table, by somebody who is ending it, or by the mailbox after
\* its k-th event.
Covered(i, k) == OpenId(i) \/ ClosureAfter(i, k)

\* A step of anybody but the receiving guest leaves what is covered covered:
\* deleting the entry makes somebody responsible, and the announcement is
\* never dropped.
LEMMA CoveredStays ==
    ASSUME TypeOK, Places, OneEnder, NoReuse => Fresh, Agreement,
           [Next]_vars, ~ShuttingDown', ~GuestRecv,
           NEW i \in Ids, NEW k \in 0..Len(box), Covered(i, k)
    PROVE  \/ conns'[i] # NoConn
           \/ \E g \in Goroutines : id'[g] = i /\ pc'[g] \in Ending
           \/ \E j \in DOMAIN box' : j > k /\ box'[j].kind = KindClosed /\ box'[j].id = i
<1> DEFINE Open == \/ conns'[i] # NoConn
                   \/ \E g \in Goroutines : id'[g] = i /\ pc'[g] \in Ending
           After == \E j \in DOMAIN box' :
                        j > k /\ box'[j].kind = KindClosed /\ box'[j].id = i
<1>1. ASSUME UNCHANGED box \/ (\E e \in Event : Push(e)), ClosureAfter(i, k)
      PROVE  After
  <2>1. CASE UNCHANGED box
    BY <1>1, <2>1 DEF ClosureAfter
  <2>2. ASSUME NEW e \in Event, Push(e) PROVE After
    <3>1. \A j \in DOMAIN box : j \in DOMAIN box' /\ box'[j] = box[j]
      BY <2>2, PushAppends
    <3> QED  BY <1>1, <3>1, Zenon DEF ClosureAfter
  <2> QED  BY <1>1, <2>1, <2>2
<1>2. CASE /\ UNCHANGED box \/ \E e \in Event : Push(e)
           /\ \A j \in Ids : conns[j] # NoConn => conns'[j] # NoConn
           /\ \A g \in Goroutines :
                  pc[g] \in Ending => pc'[g] \in Ending /\ id'[g] = id[g]
  BY <1>1, <1>2, Zenon DEF Covered, OpenId
<1>3. ASSUME NEW g \in Goroutines, pc[g] \notin Ending, Return(g)
      PROVE  \A h \in Goroutines : pc[h] \in Ending => pc'[h] \in Ending /\ id'[h] = id[h]
  BY <1>3 DEF Return, Goto, writeVars, TypeOK
<1>4. ASSUME NEW g \in Goroutines, Lock(g) PROVE Open \/ After
  <2>1. /\ pc[g] = "lock" /\ UNCHANGED box
        /\ conns' = [conns EXCEPT ![id[g]] = NoConn]
    BY <1>4 DEF Lock, mailVars
  <2>2. CASE conns[id[g]] = NoConn
    <3>1. Return(g) /\ conns' = conns
      BY <1>4, <2>1, <2>2 DEF Lock, TypeOK
    <3> QED  BY <1>2, <1>3, <2>1, <3>1 DEF Ending
  <2>3. CASE conns[id[g]] # NoConn
    <3>1. pc' = [pc EXCEPT ![g] = "close"] /\ id' = id
      BY <1>4, <2>3 DEF Lock, Goto, writeVars
    <3>2. pc'[g] \in Ending /\ \A h \in Goroutines : h # g => pc'[h] = pc[h]
      BY <3>1 DEF TypeOK, Ending
    <3>3. CASE id[g] = i
      BY <3>1, <3>2, <3>3
    <3>4. CASE id[g] # i
      <4>1. conns'[i] = conns[i]
        BY <2>1, <3>4 DEF TypeOK
      <4>2. OpenId(i) => Open
        BY <3>1, <3>2, <4>1 DEF OpenId
      <4> QED  BY <1>1, <2>1, <4>2 DEF Covered
    <3> QED  BY <3>3, <3>4
  <2> QED  BY <2>2, <2>3
<1>5. ASSUME NEW g \in Goroutines, Announce(g) PROVE Open \/ After
  <2> DEFINE e == [kind |-> KindClosed, id |-> id[g], conn |-> ConnOf(g), n |-> 0,
                   by |-> g]
  <2>1. /\ e \in Event /\ e.kind = KindClosed /\ e.id = id[g]
        /\ pc[g] = "announce" /\ Push(e) /\ Return(g) /\ conns' = conns
    BY <1>5, EventTypes DEF Announce, tableVars
  <2> HIDE DEF e
  <2>2. ClosureAfter(i, k) => After
    BY <1>1, <2>1
  <2>3. CASE id[g] = i
    <3>1. ~Full(box, e)
      BY <2>1 DEF Full
    <3>2. /\ Len(box) + 1 \in DOMAIN box' /\ Len(box) + 1 > k
          /\ box'[Len(box) + 1] = e
      BY <2>1, <3>1, PushAppends
    <3> QED  BY <2>1, <2>3, <3>2
  <2>4. CASE id[g] # i
    <3>1. \A h \in Goroutines : h # g => pc'[h] = pc[h] /\ id'[h] = id[h]
      BY <2>1 DEF Return, Goto, writeVars, TypeOK
    <3>2. OpenId(i) => Open
      BY <2>1, <2>4, <3>1 DEF OpenId
    <3> QED  BY <2>2, <3>2 DEF Covered
  <2> QED  BY <2>3, <2>4
<1>6. CASE Accept
  <2>1. /\ AllocID \in Ids /\ conns[AllocID] = NoConn /\ accepted + 1 \in Conns
        /\ conns' = [conns EXCEPT ![AllocID] = accepted + 1]
        /\ id' = [id EXCEPT ![accepted + 1] = AllocID]
        /\ pc' = pc /\ box' = box
    <3>1. AllocID \in Ids /\ Free(AllocID)
      BY <1>6, AllocIDIsFree DEF Accept, TypeOK
    <3>2. accepted + 1 \in Conns
      BY <1>6, Typed DEF Accept, Conns
    <3> QED  BY <1>6, <3>1, <3>2 DEF Accept, mailVars, Free
  <2>2. pc[accepted + 1] \notin Ending
    BY <2>1, Typed DEF Places, Ending
  <2> QED  BY <1>2, <2>1, <2>2, Typed DEF TypeOK
<1>7. CASE PushEstablished
  <2>1. (\E e \in Event : Push(e)) /\ UNCHANGED <<conns, pc, id>>
    BY <1>7, EventTypes DEF PushEstablished, tableVars, writeVars
  <2> QED  BY <1>2, <2>1
<1>8. ASSUME NEW c \in Conns, ReadData(c) \/ PushData(c) \/ ReadErr(c)
      PROVE  Open \/ After
  <2>1. UNCHANGED box \/ (\E e \in Event : Push(e))
    BY <1>8, EventTypes
    DEF ReadData, PushData, ReadErr, tableVars, writeVars, mailVars
  <2>2. pc[c] \notin Ending /\ \E l : Goto(c, l)
    BY <1>8 DEF ReadData, PushData, ReadErr, Ending
  <2>3. \A g \in Goroutines : g # c => pc'[g] = pc[g]
    BY <2>2 DEF Goto, TypeOK
  <2>4. UNCHANGED <<conns, id>>
    BY <1>8 DEF ReadData, PushData, ReadErr, tableVars, writeVars
  <2> QED  BY <1>2, <2>1, <2>2, <2>3, <2>4
<1>9. ASSUME NEW g \in Goroutines, Close(g) PROVE Open \/ After
  <2>1. UNCHANGED <<box, conns, id>> /\ pc' = [pc EXCEPT ![g] = "announce"]
    BY <1>9 DEF Close, Goto, tableVars, writeVars, mailVars
  <2>2. \A h \in Goroutines : pc[h] \in Ending => pc'[h] \in Ending
    BY <2>1 DEF TypeOK, Ending
  <2> QED  BY <1>2, <2>1, <2>2
<1>10. CASE Spawn
  <2>1. UNCHANGED <<box, conns, id>> /\ Goto(accepted, "read")
    BY <1>10 DEF Spawn, tableVars, writeVars, mailVars
  <2>2. pc[accepted] = "none"
    BY <1>10 DEF Spawn, Places
  <2>3. \A g \in Goroutines : g # accepted => pc'[g] = pc[g]
    BY <2>1 DEF Goto, TypeOK
  <2> QED  BY <1>2, <2>1, <2>2, <2>3 DEF Ending
<1>11. CASE AcceptFails \/ (\E c \in Conns : HangUp(c)) \/ UNCHANGED vars
  BY <1>2, <1>11 DEF AcceptFails, HangUp, vars, tableVars, writeVars, mailVars
<1>12. CASE \/ (\E j \in Ids : WriteLookup(j)) \/ WriteOK \/ WriteFails
  <2>1. UNCHANGED <<box, conns>> /\ pc[Guest] \notin Ending
    BY <1>12 DEF WriteLookup, WriteOK, WriteFails, tableVars, mailVars, Ending
  <2>2. \E l : pc' = [pc EXCEPT ![Guest] = l]
    BY <1>12 DEF WriteLookup, WriteOK, WriteFails, Return, Goto
  <2>3. id' = id \/ \E j : id' = [id EXCEPT ![Guest] = j]
    BY <1>12, Zenon DEF WriteLookup, WriteOK, WriteFails, Return, writeVars
  <2>4. \A g \in Goroutines : g # Guest => pc'[g] = pc[g] /\ id'[g] = id[g]
    BY <2>2, <2>3 DEF TypeOK
  <2> QED  BY <1>2, <2>1, <2>4
<1>13. CASE TableClose \/ ListenerClose
  <2>1. Goto(Guest, "closing") \/ Goto(Guest, "exited")
    BY <1>13 DEF TableClose, ListenerClose
  <2>2. pc'[Guest] \in {"closing", "exited"}
    BY <2>1, GuestMoves
  <2> QED  BY <2>2 DEF ShuttingDown
<1> QED
  BY <1>4, <1>5, <1>6, <1>7, <1>8, <1>9, <1>10, <1>11, <1>12, <1>13
  DEF Next, Disconnect

LEMMA ReclaimableHolds == ASSUME OneEnder PROVE Spec => []Reclaimable
<1>1. Init => Reclaimable
  <2>1. Init => DOMAIN box = {} /\ spc # "push" /\ \A i \in Ids : view[i] = NoConn
    BY DEF Init
  <2> QED  BY <2>1 DEF Reclaimable
<1>2. ASSUME TypeOK, Places, NoReuse => Fresh, Agree, Reclaimable, [Next]_vars
      PROVE  Reclaimable'
  <2> SUFFICES ASSUME ~ShuttingDown' PROVE Reclaimable'
    BY DEF Reclaimable
  <2>0. Agreement /\ ~ShuttingDown
    BY <1>2, ShutdownIsFinal DEF Agree
  <2> DEFINE Later(i, k) ==
                 \/ conns'[i] # NoConn
                 \/ \E g \in Goroutines : id'[g] = i /\ pc'[g] \in Ending
                 \/ \E j \in DOMAIN box' :
                        j > k /\ box'[j].kind = KindClosed /\ box'[j].id = i
             InTable == spc' = "push" => conns'[id'[accepted']] = accepted'
  <2>1. ASSUME InTable,
               \A i \in Ids : view'[i] # NoConn => Later(i, 0),
               \A k \in DOMAIN box' :
                   box'[k].kind = KindEstablished => Later(box'[k].id, k)
        PROVE  Reclaimable'
    BY <2>1 DEF Reclaimable, OpenId, ClosureAfter
  <2>2. ASSUME NEW i \in Ids, NEW k \in 0..Len(box), ~GuestRecv, Covered(i, k)
        PROVE  Later(i, k)
    BY <1>2, <2>0, <2>2, CoveredStays
  <2>3. box \in Seq(Event) /\ DOMAIN box = 1..Len(box) /\ Len(box) \in Nat
    BY <1>2, LenProperties DEF TypeOK
  <2>4. \A k \in DOMAIN box : box[k] \in Event /\ box[k].id \in Ids
    <3>1. \A k \in DOMAIN box : box[k] \in Event
      BY <2>3, ElementOfSeq
    <3> QED  BY <3>1 DEF Event
  <2>5. InTable
    <3>1. CASE Accept
      <4>1. /\ AllocID \in Ids /\ accepted + 1 \in Conns /\ accepted' = accepted + 1
            /\ conns' = [conns EXCEPT ![AllocID] = accepted + 1]
            /\ id' = [id EXCEPT ![accepted + 1] = AllocID]
        <5>1. AllocID \in Ids
          BY <1>2, <3>1, AllocIDIsFree DEF Accept, TypeOK
        <5>2. accepted + 1 \in Conns
          BY <1>2, <3>1, Typed DEF Accept, Conns
        <5> QED  BY <3>1, <5>1, <5>2 DEF Accept
      <4>2. id'[accepted + 1] = AllocID
        BY <1>2, <4>1, ReadersAreNotTheGuest DEF TypeOK
      <4> QED  BY <1>2, <4>1, <4>2 DEF TypeOK
    <3>2. ASSUME spc' = spc, accepted' = accepted, conns' = conns, spc = "push",
                 id' = id \/ \E j : id' = [id EXCEPT ![Guest] = j]
          PROVE  conns'[id'[accepted']] = accepted'
      <4>1. accepted \in Conns
        BY <1>2, <3>2, Typed
      <4>2. id'[accepted] = id[accepted]
        BY <1>2, <3>2, <4>1, ReadersAreNotTheGuest DEF TypeOK
      <4> QED  BY <1>2, <2>0, <3>2, <4>2 DEF Reclaimable
    <3>3. ASSUME NEW g \in Goroutines, Lock(g), spc = "push"
          PROVE  conns'[id'[accepted']] = accepted'
      <4>1. /\ pc[g] = "lock" /\ conns' = [conns EXCEPT ![id[g]] = NoConn]
            /\ accepted' = accepted
            /\ id' = id \/ \E j : id' = [id EXCEPT ![Guest] = j]
        BY <3>3, Zenon DEF Lock, Return, acceptVars, writeVars
      <4>2. /\ accepted \in Conns /\ pc[accepted] = "none"
            /\ conns[id[accepted]] = accepted
        BY <1>2, <2>0, <3>3, Typed DEF Places, Reclaimable
      <4>3. id'[accepted] = id[accepted] /\ id[accepted] \in Ids
        BY <1>2, <4>1, <4>2, ReadersAreNotTheGuest DEF TypeOK
      <4>4. conns[id[g]] \in {NoConn, ConnOf(g)}
        BY <1>2, <2>0, <4>1, LockFinds
      <4>5. ConnOf(g) # accepted
        <5>1. CASE g = Guest
          <6>1. NoReuse /\ gconn # NoConn
            BY <1>2, <4>1, <5>1 DEF Places, Ending, OneEnder, TypeOK
          <6>2. Begun(gconn)
            BY <1>2, <6>1 DEF Fresh
          <6> QED  BY <3>3, <5>1, <6>2 DEF Begun, ConnOf
        <5>2. CASE g \in Conns
          BY <4>1, <4>2, <5>2, ReadersAreNotTheGuest
        <5> QED  BY <5>1, <5>2, GuestOrReader
      <4>6. id[accepted] # id[g]
        BY <1>2, <4>2, <4>4, <4>5, Typed
      <4> QED  BY <1>2, <4>1, <4>2, <4>3, <4>6 DEF TypeOK
    <3>4. spc' = "push" => Accept \/ spc = "push"
      BY <1>2
      DEF Next, Disconnect, AcceptFails, PushEstablished, Spawn, ReadData, PushData,
          ReadErr, HangUp, Lock, Close, Announce, WriteLookup, GuestRecv, WriteOK,
          WriteFails, TableClose, ListenerClose, vars, acceptVars
    <3>5. CASE spc' = "push" /\ ~Accept /\ (\A g \in Goroutines : ~Lock(g))
      <4>1. ~TableClose
        <5>1. TableClose => Goto(Guest, "closing")
          BY DEF TableClose
        <5> QED  BY <1>2, <5>1, GuestMoves DEF ShuttingDown
      <4>2. UNCHANGED <<conns, accepted, spc>>
        BY <1>2, <3>5, <4>1
        DEF Next, Disconnect, AcceptFails, PushEstablished, Spawn, ReadData, PushData,
            ReadErr, HangUp, Close, Announce, WriteLookup, GuestRecv, WriteOK,
            WriteFails, ListenerClose, vars, acceptVars, tableVars
      <4>3. id' = id \/ \E j : id' = [id EXCEPT ![Guest] = j]
        BY <1>2, <3>5, <4>1, Zenon
        DEF Next, Disconnect, AcceptFails, PushEstablished, Spawn, ReadData, PushData,
            ReadErr, HangUp, Close, Announce, WriteLookup, GuestRecv, WriteOK,
            WriteFails, ListenerClose, vars, writeVars, Return
      <4> QED  BY <3>2, <3>5, <4>2, <4>3
    <3> QED  BY <3>1, <3>3, <3>4, <3>5
  <2>6. CASE GuestRecv
    <3>1. /\ box # <<>> /\ box' = Tail(box)
          /\ UNCHANGED <<conns, id, pc>>
      BY <2>6 DEF GuestRecv, tableVars, writeVars
    <3> DEFINE e == Head(box)
    <3>2. /\ 1 \in DOMAIN box /\ e = box[1] /\ e \in Event /\ e.id \in Ids
      BY <2>3, <2>4, <3>1, EmptySeq, HeadTailProperties
    <3>3. /\ \A j \in DOMAIN box' : j + 1 \in DOMAIN box /\ box'[j] = box[j + 1]
          /\ \A j \in DOMAIN box : j > 1 => j - 1 \in DOMAIN box' /\ box'[j - 1] = box[j]
      BY <2>3, <3>1, HeadTailProperties, LenProperties
    <3>4. ASSUME NEW i \in Ids, NEW k \in Nat, Covered(i, k + 1) PROVE Later(i, k)
      <4>1. OpenId(i) => Later(i, k)
        BY <3>1 DEF OpenId
      <4>2. ASSUME ClosureAfter(i, k + 1) PROVE Later(i, k)
        <5>1. PICK j \in DOMAIN box : j > k + 1 /\ box[j].kind = KindClosed /\ box[j].id = i
          BY <4>2 DEF ClosureAfter
        <5>2. j > 1 /\ j - 1 > k
          BY <2>3, <5>1
        <5> QED  BY <3>3, <5>1, <5>2
      <4> QED  BY <3>4, <4>1, <4>2 DEF Covered
    <3>5. ASSUME NEW i \in Ids, view'[i] # NoConn PROVE Later(i, 0)
      <4>1. CASE e.kind = KindEstablished /\ e.id = i
        <5>1. Covered(i, 1)
          BY <1>2, <2>0, <3>2, <4>1 DEF Reclaimable, Covered
        <5> QED  BY <3>4, <5>1
      <4>2. CASE ~(e.kind = KindEstablished /\ e.id = i)
        <5>1. ~(e.kind = KindClosed /\ e.id = i) /\ view[i] # NoConn
          BY <1>2, <2>6, <3>2, <3>5, <4>2
          DEF GuestRecv, TypeOK, KindEstablished, KindClosed
        <5>2. Covered(i, 0)
          BY <1>2, <2>0, <5>1 DEF Reclaimable, Covered
        <5>3. ClosureAfter(i, 0) => ClosureAfter(i, 1)
          BY <2>3, <3>2, <5>1 DEF ClosureAfter
        <5> QED  BY <3>4, <5>2, <5>3 DEF Covered
      <4> QED  BY <4>1, <4>2
    <3>6. ASSUME NEW k \in DOMAIN box', box'[k].kind = KindEstablished
          PROVE  Later(box'[k].id, k)
      <4>1. k + 1 \in DOMAIN box /\ box'[k] = box[k + 1] /\ k \in Nat
        BY <2>3, <3>1, <3>3, HeadTailProperties, LenProperties
      <4>2. Covered(box[k + 1].id, k + 1)
        BY <1>2, <2>0, <3>6, <4>1 DEF Reclaimable, Covered
      <4> QED  BY <2>4, <3>4, <4>1, <4>2
    <3> QED  BY <2>1, <2>5, <3>5, <3>6
  <2>7. CASE ~GuestRecv
    <3>1. ASSUME NEW i \in Ids, view'[i] # NoConn PROVE Later(i, 0)
      <4>1. view' = view
        BY <1>2, <2>7
        DEF Next, Disconnect, Accept, AcceptFails, PushEstablished, Spawn, ReadData,
            PushData, ReadErr, HangUp, Lock, Close, Announce, WriteLookup, WriteOK,
            WriteFails, TableClose, ListenerClose, vars, viewVars
      <4>2. Covered(i, 0)
        BY <1>2, <2>0, <3>1, <4>1 DEF Reclaimable, Covered
      <4> QED  BY <2>2, <2>3, <2>7, <4>2
    <3>2. ASSUME NEW k \in DOMAIN box, box[k].kind = KindEstablished
          PROVE  Later(box[k].id, k)
      <4>1. Covered(box[k].id, k)
        BY <1>2, <2>0, <3>2 DEF Reclaimable, Covered
      <4> QED  BY <2>2, <2>3, <2>4, <2>7, <4>1
    <3>3. CASE UNCHANGED box
      BY <2>1, <2>5, <3>1, <3>2, <3>3
    <3>4. ASSUME NEW e \in Event, Push(e), e.kind # KindEstablished
          PROVE  Reclaimable'
      <4>1. \A k \in DOMAIN box' : box'[k].kind = KindEstablished =>
                k \in DOMAIN box /\ box'[k] = box[k]
        BY <1>2, <3>4, PushElements
      <4>2. \A k \in DOMAIN box' :
                box'[k].kind = KindEstablished => Later(box'[k].id, k)
        BY <3>2, <4>1
      <4> QED  BY <2>1, <2>5, <3>1, <4>2
    <3>5. CASE PushEstablished
      <4> DEFINE e == [kind |-> KindEstablished, id |-> id[accepted],
                       conn |-> accepted, n |-> 0, by |-> accepted]
      <4>1. /\ e \in Event /\ e.id = id[accepted] /\ Push(e) /\ conns' = conns
            /\ spc = "push"
        BY <1>2, <3>5, EventTypes DEF PushEstablished, tableVars
      <4> HIDE DEF e
      <4>2. conns'[id[accepted]] # NoConn
        BY <1>2, <2>0, <4>1, Typed DEF Reclaimable
      <4>3. \A k \in DOMAIN box' :
                box'[k].kind = KindEstablished => Later(box'[k].id, k)
        <5>1. \A k \in DOMAIN box' :
                  box'[k] = e \/ (k \in DOMAIN box /\ box'[k] = box[k])
          BY <1>2, <4>1, PushElements
        <5> QED  BY <3>2, <4>1, <4>2, <5>1
      <4> QED  BY <2>1, <2>5, <3>1, <4>3
    <3>6. ASSUME NEW c \in Conns, PushData(c) PROVE Reclaimable'
      <4>1. /\ DataEvent(c) \in Event /\ DataEvent(c).kind # KindEstablished
            /\ Push(DataEvent(c))
        BY <1>2, <3>6, EventTypes DEF PushData, DataEvent, KindData, KindEstablished
      <4> QED  BY <3>4, <4>1
    <3>7. ASSUME NEW g \in Goroutines, Announce(g) PROVE Reclaimable'
      <4> DEFINE e == [kind |-> KindClosed, id |-> id[g], conn |-> ConnOf(g),
                       n |-> 0, by |-> g]
      <4>1. e \in Event /\ e.kind # KindEstablished /\ Push(e)
        BY <1>2, <3>7, EventTypes DEF Announce, KindClosed, KindEstablished
      <4> QED  BY <3>4, <4>1
    <3>8. UNCHANGED box \/ PushEstablished \/ (\E c \in Conns : PushData(c))
          \/ (\E g \in Goroutines : Announce(g))
      BY <1>2, <2>7
      DEF Next, Disconnect, Accept, AcceptFails, Spawn, ReadData, ReadErr, HangUp,
          Lock, Close, WriteLookup, WriteOK, WriteFails, TableClose, ListenerClose,
          vars, mailVars
    <3> QED  BY <3>3, <3>5, <3>6, <3>7, <3>8
  <2> QED  BY <2>6, <2>7
<1>3. CASE NoReuse
  <2>1. TypeOK /\ Places /\ Fresh /\ Agree /\ Reclaimable /\ [Next]_vars => Reclaimable'
    BY <1>2
  <2> QED  BY <1>1, <1>3, <2>1, TypeCorrect, PlacesHold, FreshHolds, AgreeHolds, PTL DEF Spec
<1>4. CASE ~NoReuse
  <2>1. TypeOK /\ Places /\ Agree /\ Reclaimable /\ [Next]_vars => Reclaimable'
    BY <1>2, <1>4
  <2> QED  BY <1>1, <2>1, TypeCorrect, PlacesHold, AgreeHolds, PTL DEF Spec
<1> QED  BY <1>3, <1>4

\* What the guest keeps for a connection it can discard one day: the id is in
\* the table, or somebody is past its deletion and will announce the closure,
\* or the closed event waits in the mailbox, whose cap does not touch it.
THEOREM Reclaimed == ASSUME OneEnder PROVE Spec => []GuestStateReclaimable
<1>1. Reclaimable => GuestStateReclaimable
  BY DEF Reclaimable, GuestStateReclaimable, OpenId, ClosureAfter, ClosureUnderway, Ending
<1> QED  BY <1>1, ReclaimableHolds, PTL

-----------------------------------------------------------------------------
(* Every connection ends once *)

\* The same in the next state, for a connection named in that state.
HasNext(c) == \E i \in DOMAIN trail'[c] : trail'[c][i].kind = KindClosed
ConnNext(g) == IF g = Guest THEN gconn' ELSE g

\* A push of e changes whether c has been announced as closed only when it is
\* that announcement.
LEMMA HasAfterPush ==
    ASSUME TypeOK, NEW e \in Event, Push(e)
    PROVE  /\ \A c \in Conns : Has(c, KindClosed) => HasNext(c)
           /\ \A c \in Conns : c # e.conn \/ e.kind # KindClosed =>
                  (HasNext(c) => Has(c, KindClosed))
           /\ e.kind = KindClosed => HasNext(e.conn)
<1>1. e.conn \in Conns
  BY DEF Event
<1>2. ASSUME NEW c \in Conns, Has(c, KindClosed) PROVE HasNext(c)
  <2>1. \A k \in DOMAIN trail[c] : k \in DOMAIN trail'[c] /\ trail'[c][k] = trail[c][k]
    <3>1. CASE c # e.conn \/ Full(box, e)
      BY <3>1, PushAppends
    <3>2. CASE c = e.conn /\ ~Full(box, e)
      <4>1. /\ DOMAIN trail[c] = 1..Len(trail[c]) /\ Len(trail[c]) \in Nat
            /\ DOMAIN trail'[c] = 1..(Len(trail[c]) + 1)
            /\ \A k \in DOMAIN trail[c] : trail'[c][k] = trail[c][k]
        BY <3>2, PushAppends
      <4> QED  BY <4>1
    <3> QED  BY <3>1, <3>2
  <2> QED  BY <1>2, <2>1, Zenon DEF Has, HasNext
<1>3. ASSUME NEW c \in Conns, c # e.conn \/ e.kind # KindClosed, HasNext(c)
      PROVE  Has(c, KindClosed)
  BY <1>3, PushElements, Zenon DEF Has, HasNext
<1>4. ASSUME e.kind = KindClosed PROVE HasNext(e.conn)
  <2>1. ~Full(box, e)
    BY <1>4 DEF Full
  <2>2. PICK k \in DOMAIN trail'[e.conn] : trail'[e.conn][k] = e
    BY <1>1, <2>1, PushAppends
  <2> QED  BY <1>4, <2>2, Zenon DEF Has, HasNext
<1> QED  BY <1>2, <1>3, <1>4

LEMMA BegunWhenRunning ==
    ASSUME TypeOK, Places, Fresh, NEW g \in Goroutines,
           pc[g] \in {"push", "read", "lock"} \cup Ending
    PROVE  Begun(ConnOf(g)) /\ ConnOf(g) \in Conns /\ id[g] = ConnOf(g)
<1>1. CASE g = Guest
  <2>1. gconn # NoConn
    BY <1>1 DEF TypeOK, Places, Ending
  <2> QED  BY <1>1, <2>1 DEF Fresh, TypeOK, ConnOf
<1>2. CASE g \in Conns
  <2>1. g \in 1..accepted
    BY <1>2, Typed DEF Places, Conns, Ending
  <2>2. ~(g = accepted /\ spc = "push")
    BY DEF Places, Ending
  <2> QED  BY <1>2, <2>1, <2>2, ReadersAreNotTheGuest DEF Begun, Fresh
<1> QED  BY <1>1, <1>2, GuestOrReader

LEMMA EndsOnceKept ==
    ASSUME TypeOK, Places, NoReuse, Fresh, EndsOnce, [Next]_vars
    PROVE  EndsOnce'
<1>0. /\ Conns \subseteq Ids
      /\ \A g \in Goroutines : pc[g] \in Ending => ConnOf(g) \in Conns
      /\ \A c \in Conns : Begun(c) => BegunNext(c)
  <2>1. Conns \subseteq Ids
    BY ConnTableAssumption DEF Conns, Ids, NoReuse
  <2>2. \A c \in Conns : Begun(c) => BegunNext(c)
    BY BegunStays DEF Begun, BegunNext
  <2> QED  BY <2>1, <2>2, BegunWhenRunning
<1>1. ASSUME \A g, h \in Goroutines :
                 pc'[g] \in Ending /\ pc'[h] \in Ending /\ ConnNext(g) = ConnNext(h) => g = h,
             \A g \in Goroutines : pc'[g] \in Ending =>
                 conns'[ConnNext(g)] = NoConn /\ ~HasNext(ConnNext(g)),
             \A g \in Goroutines : pc'[g] = "announce" => closed'[ConnNext(g)],
             \A c \in Conns : HasNext(c) => conns'[c] = NoConn /\ closed'[c],
             \A c \in Conns : ~BegunNext(c) => trail'[c] = <<>>
      PROVE  EndsOnce'
  BY <1>1, Zenon DEF EndsOnce, Has, HasNext, ConnOf, ConnNext, Begun, BegunNext
\* The form of most steps: nobody begins to end a connection or announces it.
<1>2. ASSUME \A g \in Goroutines : pc'[g] \in Ending =>
                 pc'[g] = pc[g] /\ ConnNext(g) = ConnOf(g),
             \A c \in Conns : conns[c] = NoConn /\ Begun(c) => conns'[c] = NoConn,
             \A c \in Conns : closed[c] => closed'[c],
             \A c \in Conns : HasNext(c) => Has(c, KindClosed),
             \A c \in Conns : ~BegunNext(c) => trail'[c] = trail[c]
      PROVE  EndsOnce'
  <2>1. \A g \in Goroutines : pc[g] \in Ending => Begun(ConnOf(g))
    BY BegunWhenRunning
  <2>2. \A c \in Conns : Has(c, KindClosed) => Begun(c)
    BY DEF EndsOnce, Has
  <2>3. \A g \in Goroutines : pc'[g] \in Ending =>
            /\ pc'[g] = pc[g] /\ ConnNext(g) = ConnOf(g) /\ ConnOf(g) \in Conns
            /\ pc[g] \in Ending
    <3>1. ASSUME NEW g \in Goroutines, pc'[g] \in Ending
          PROVE  pc'[g] = pc[g] /\ ConnNext(g) = ConnOf(g) /\ pc[g] \in Ending
      <4>1. pc'[g] = pc[g] /\ ConnNext(g) = ConnOf(g)
        BY <1>2, <3>1
      <4> QED  BY <3>1, <4>1
    <3> QED  BY <1>0, <3>1
  <2>7. \A g, h \in Goroutines :
            pc'[g] \in Ending /\ pc'[h] \in Ending /\ ConnNext(g) = ConnNext(h) => g = h
    BY <2>3 DEF EndsOnce
  <2>4. ASSUME NEW g \in Goroutines, pc'[g] \in Ending
        PROVE  /\ conns'[ConnNext(g)] = NoConn /\ ~HasNext(ConnNext(g))
               /\ pc'[g] = "announce" => closed'[ConnNext(g)]
    <3> DEFINE c == ConnOf(g)
    <3>1. /\ pc'[g] = pc[g] /\ ConnNext(g) = c /\ c \in Conns /\ pc[g] \in Ending
          /\ Begun(c)
      BY <2>1, <2>3, <2>4
    <3>2. conns[c] = NoConn /\ ~Has(c, KindClosed) /\ (pc[g] = "announce" => closed[c])
      BY <3>1 DEF EndsOnce
    <3> QED  BY <1>2, <3>1, <3>2, Zenon
  <2>5. \A c \in Conns : HasNext(c) => conns'[c] = NoConn /\ closed'[c]
    BY <1>2, <2>2, Zenon DEF EndsOnce
  <2>6. \A c \in Conns : ~BegunNext(c) => trail'[c] = <<>>
    BY <1>0, <1>2, Zenon DEF EndsOnce
  <2>8. \A g \in Goroutines : pc'[g] \in Ending =>
            conns'[ConnNext(g)] = NoConn /\ ~HasNext(ConnNext(g))
    BY <2>4
  <2>9. \A g \in Goroutines : pc'[g] = "announce" => closed'[ConnNext(g)]
    BY <2>4 DEF Ending
  <2> QED  BY <1>1, <2>5, <2>6, <2>7, <2>8, <2>9
<1>3. ASSUME UNCHANGED trail,
             \A g \in Goroutines : pc'[g] \in Ending =>
                 pc'[g] = pc[g] /\ ConnNext(g) = ConnOf(g),
             \A c \in Conns : conns[c] = NoConn /\ Begun(c) => conns'[c] = NoConn,
             \A c \in Conns : closed[c] => closed'[c]
      PROVE  EndsOnce'
  <2>1. \A c \in Conns : HasNext(c) => Has(c, KindClosed)
    BY <1>3, Zenon DEF Has, HasNext
  <2> QED  BY <1>2, <1>3, <2>1
\* A push of an event that is not a closure, of a connection that has begun.
<1>4. ASSUME NEW e \in Event, Push(e), e.kind # KindClosed, BegunNext(e.conn),
             UNCHANGED <<conns, closed>>,
             \A g \in Goroutines : pc'[g] \in Ending =>
                 pc'[g] = pc[g] /\ ConnNext(g) = ConnOf(g)
      PROVE  EndsOnce'
  <2>1. \A c \in Conns : HasNext(c) => Has(c, KindClosed)
    BY <1>4, HasAfterPush, Zenon
  <2>2. \A c \in Conns : ~BegunNext(c) => trail'[c] = trail[c]
    BY <1>4, PushAppends, Zenon
  <2> QED  BY <1>2, <1>4, <2>1, <2>2
\* The goroutines that do not end a connection, before or after the step.
<1>5. /\ \A c \in Conns : ConnNext(c) = c /\ ConnOf(c) = c
      /\ gconn' = gconn => \A g \in Goroutines : ConnNext(g) = ConnOf(g)
  BY ReadersAreNotTheGuest DEF ConnNext, ConnOf
<1>6. ASSUME NEW c \in Conns, NEW l, l \notin Ending, Goto(c, l), gconn' = gconn
      PROVE  \A g \in Goroutines : pc'[g] \in Ending =>
                 pc'[g] = pc[g] /\ ConnNext(g) = ConnOf(g)
  BY <1>5, <1>6, ReaderMoves, GuestOrReader
<1>7. ASSUME NEW l, l \notin Ending, Goto(Guest, l)
      PROVE  \A g \in Goroutines : pc'[g] \in Ending =>
                 pc'[g] = pc[g] /\ ConnNext(g) = ConnOf(g)
  BY <1>5, <1>7, GuestMoves, GuestOrReader
<1>8. ASSUME NEW g \in Goroutines, Return(g)
      PROVE  \A h \in Goroutines : pc'[h] \in Ending =>
                 pc'[h] = pc[h] /\ ConnNext(h) = ConnOf(h) /\ h # g
  <2>1. CASE g = Guest
    <3>1. Goto(Guest, "run")
      BY <1>8, <2>1 DEF Return
    <3>2. pc'[g] = "run"
      BY <2>1, <3>1, GuestMoves
    <3> QED  BY <1>7, <3>1, <3>2 DEF Ending
  <2>2. CASE g \in Conns
    <3>1. Goto(g, "done") /\ gconn' = gconn
      BY <1>8, <2>2, ReadersAreNotTheGuest DEF Return, writeVars
    <3>2. pc'[g] = "done"
      BY <2>2, <3>1, ReaderMoves
    <3> QED  BY <1>6, <2>2, <3>1, <3>2 DEF Ending
  <2> QED  BY <2>1, <2>2, GuestOrReader
<1>9. CASE Accept
  <2>1. /\ accepted + 1 \in Ids
        /\ conns' = [conns EXCEPT ![accepted + 1] = accepted + 1]
        /\ UNCHANGED <<pc, gconn, closed, trail>>
    <3>1. AllocID = accepted + 1 /\ accepted + 1 \in Ids
      BY <1>9, AcceptCounts
    <3> QED  BY <1>9, <3>1 DEF Accept, socketVars, mailVars
  <2>2. \A c \in Conns : Begun(c) => c # accepted + 1
    BY Typed DEF Begun
  <2>3. \A c \in Conns : conns[c] = NoConn /\ Begun(c) => conns'[c] = NoConn
    BY <1>0, <2>1, <2>2 DEF TypeOK
  <2> QED  BY <1>3, <1>5, <2>1, <2>3
<1>10. CASE PushEstablished
  <2> DEFINE e == [kind |-> KindEstablished, id |-> id[accepted],
                   conn |-> accepted, n |-> 0, by |-> accepted]
  <2>1. /\ e \in Event /\ e.kind # KindClosed /\ e.conn = accepted /\ Push(e)
        /\ UNCHANGED <<conns, closed, pc, gconn>>
    BY <1>10, EventTypes
    DEF PushEstablished, tableVars, socketVars, writeVars, KindEstablished, KindClosed
  <2> HIDE DEF e
  <2>2. BegunNext(accepted)
    <3>1. accepted \in 1..accepted /\ accepted' = accepted /\ spc' = "spawn"
      BY <1>10, Typed DEF PushEstablished, Conns
    <3> QED  BY <3>1 DEF BegunNext
  <2> QED  BY <1>4, <1>5, <2>1, <2>2
<1>11. ASSUME NEW c \in Conns, PushData(c) PROVE EndsOnce'
  <2>1. /\ DataEvent(c) \in Event /\ DataEvent(c).kind # KindClosed
        /\ DataEvent(c).conn = c /\ Push(DataEvent(c)) /\ Goto(c, "read")
        /\ UNCHANGED <<conns, closed, gconn>>
    BY <1>11, EventTypes
    DEF PushData, tableVars, socketVars, writeVars, DataEvent, KindData, KindClosed
  <2>2. BegunNext(c)
    BY <1>0, <1>5, <1>11, BegunWhenRunning DEF PushData, Goroutines
  <2> QED  BY <1>4, <1>6, <2>1, <2>2 DEF Ending
<1>12. ASSUME NEW c \in Conns, ReadData(c) \/ ReadErr(c) PROVE EndsOnce'
  <2>1. /\ Goto(c, "push") \/ Goto(c, "lock")
        /\ UNCHANGED <<conns, closed, gconn, trail>>
    BY <1>12 DEF ReadData, ReadErr, tableVars, socketVars, writeVars, mailVars
  <2> QED  BY <1>3, <1>6, <2>1 DEF Ending
<1>13. CASE Spawn
  <2>1. Goto(accepted, "read") /\ UNCHANGED <<conns, closed, gconn, trail>>
    BY <1>13 DEF Spawn, tableVars, socketVars, writeVars, mailVars
  <2>2. accepted \in Conns
    BY <1>13, Typed DEF Spawn
  <2> QED  BY <1>3, <1>6, <2>1, <2>2 DEF Ending
<1>14. ASSUME NEW g \in Goroutines, Lock(g) PROVE EndsOnce'
  <2>1. /\ pc[g] = "lock" /\ conns' = [conns EXCEPT ![id[g]] = NoConn]
        /\ UNCHANGED <<closed, trail>>
    BY <1>14 DEF Lock, socketVars, mailVars
  <2>2. \A c \in Conns : conns[c] = NoConn => conns'[c] = NoConn
    BY <2>1 DEF TypeOK
  <2>3. CASE conns[id[g]] = NoConn
    BY <1>3, <1>8, <1>14, <2>1, <2>2, <2>3 DEF Lock
  <2>4. CASE conns[id[g]] # NoConn
    <3> DEFINE c == ConnOf(g)
    <3>1. c \in Conns /\ id[g] = c /\ c \in Ids
      BY <1>0, <2>1, BegunWhenRunning
    <3>2. pc' = [pc EXCEPT ![g] = "close"] /\ gconn' = gconn
      BY <1>14, <2>4 DEF Lock, Goto, writeVars
    <3>3. pc'[g] = "close" /\ \A h \in Goroutines : h # g => pc'[h] = pc[h]
      BY <3>2 DEF TypeOK
    <3>4. \A h \in Goroutines : ConnNext(h) = ConnOf(h)
      BY <1>5, <3>2
    <3>5. \A h \in Goroutines : pc[h] \in Ending => ConnOf(h) # c
      BY <2>4, <3>1 DEF EndsOnce
    <3>6. conns'[c] = NoConn /\ ~Has(c, KindClosed)
      BY <2>1, <2>4, <3>1 DEF EndsOnce, TypeOK
    <3>7. \A d \in Conns : HasNext(d) <=> Has(d, KindClosed)
      BY <2>1 DEF HasNext, Has
    <3>8. \A h, i \in Goroutines :
              pc'[h] \in Ending /\ pc'[i] \in Ending /\ ConnNext(h) = ConnNext(i) => h = i
      BY <3>3, <3>4, <3>5 DEF EndsOnce
    <3>9. ASSUME NEW h \in Goroutines, pc'[h] \in Ending
          PROVE  conns'[ConnNext(h)] = NoConn /\ ~HasNext(ConnNext(h))
      <4>1. CASE h = g
        BY <3>1, <3>4, <3>6, <3>7, <4>1
      <4>2. CASE h # g
        BY <1>0, <2>2, <3>3, <3>4, <3>7, <3>9, <4>2 DEF EndsOnce
      <4> QED  BY <4>1, <4>2
    <3>10. \A h \in Goroutines : pc'[h] = "announce" => closed'[ConnNext(h)]
      BY <2>1, <3>3, <3>4 DEF EndsOnce
    <3>11. \A d \in Conns : HasNext(d) => conns'[d] = NoConn /\ closed'[d]
      BY <2>1, <2>2, <3>7 DEF EndsOnce
    <3>12. \A d \in Conns : ~BegunNext(d) => trail'[d] = <<>>
      BY <1>0, <2>1 DEF EndsOnce
    <3> QED  BY <1>1, <3>8, <3>9, <3>10, <3>11, <3>12
  <2> QED  BY <2>3, <2>4
<1>15. ASSUME NEW g \in Goroutines, Close(g) PROVE EndsOnce'
  <2>1. /\ pc[g] = "close" /\ pc' = [pc EXCEPT ![g] = "announce"]
        /\ closed' = [closed EXCEPT ![ConnOf(g)] = TRUE]
        /\ UNCHANGED <<conns, gconn, trail>>
    BY <1>15 DEF Close, Goto, tableVars, writeVars, mailVars
  <2>2. pc'[g] = "announce" /\ \A h \in Goroutines : h # g => pc'[h] = pc[h]
    BY <2>1 DEF TypeOK
  <2>3. ConnOf(g) \in Conns
    BY <1>0, <2>1 DEF Ending
  <2>4. closed'[ConnOf(g)] /\ \A c \in Conns : closed[c] => closed'[c]
    BY <2>1, <2>3, Zenon DEF TypeOK
  <2>5. \A h \in Goroutines : pc'[h] \in Ending <=> pc[h] \in Ending
    BY <2>1, <2>2 DEF Ending
  <2>6. \A h \in Goroutines : ConnNext(h) = ConnOf(h)
    BY <1>5, <2>1
  <2>7. \A d \in Conns : HasNext(d) <=> Has(d, KindClosed)
    BY <2>1 DEF HasNext, Has
  <2>8. \A h, i \in Goroutines :
            pc'[h] \in Ending /\ pc'[i] \in Ending /\ ConnNext(h) = ConnNext(i) => h = i
    BY <2>5, <2>6 DEF EndsOnce
  <2>9. \A h \in Goroutines : pc'[h] \in Ending =>
            conns'[ConnNext(h)] = NoConn /\ ~HasNext(ConnNext(h))
    BY <1>0, <2>1, <2>5, <2>6, <2>7 DEF EndsOnce
  <2>10. ASSUME NEW h \in Goroutines, pc'[h] = "announce" PROVE closed'[ConnNext(h)]
    <3>1. CASE h = g
      BY <2>4, <2>6, <3>1
    <3>2. CASE h # g
      <4>1. pc[h] = "announce" /\ ConnOf(h) \in Conns
        BY <1>0, <2>2, <2>10, <3>2 DEF Ending
      <4> QED  BY <2>4, <2>6, <4>1 DEF EndsOnce
    <3> QED  BY <3>1, <3>2
  <2>11. \A d \in Conns : HasNext(d) => conns'[d] = NoConn /\ closed'[d]
    BY <2>1, <2>4, <2>7, Zenon DEF EndsOnce
  <2>12. \A d \in Conns : ~BegunNext(d) => trail'[d] = <<>>
    BY <1>0, <2>1 DEF EndsOnce
  <2> QED  BY <1>1, <2>8, <2>9, <2>10, <2>11, <2>12
<1>16. ASSUME NEW g \in Goroutines, Announce(g) PROVE EndsOnce'
  <2> DEFINE c == ConnOf(g)
             e == [kind |-> KindClosed, id |-> id[g], conn |-> c, n |-> 0, by |-> g]
  <2>1. /\ e \in Event /\ e.conn = c /\ pc[g] = "announce" /\ Push(e) /\ Return(g)
        /\ UNCHANGED <<conns, closed>>
    BY <1>16, EventTypes DEF Announce, tableVars, socketVars
  <2>2. /\ pc[g] \in Ending /\ c \in Conns /\ Begun(c)
        /\ conns[c] = NoConn /\ closed[c]
    BY <1>0, <2>1, BegunWhenRunning DEF Ending, EndsOnce
  <2> HIDE DEF e
  <2>3. \A h \in Goroutines : pc'[h] \in Ending =>
            pc'[h] = pc[h] /\ ConnNext(h) = ConnOf(h) /\ h # g
    BY <1>8, <2>1
  <2>4. \A h \in Goroutines : pc'[h] \in Ending =>
            /\ pc'[h] = pc[h] /\ ConnNext(h) = ConnOf(h) /\ h # g
            /\ pc[h] \in Ending /\ ConnOf(h) \in Conns
    BY <1>0, <2>3
  <2>5. \A h \in Goroutines : pc'[h] \in Ending => ConnOf(h) # c
    BY <2>2, <2>4 DEF EndsOnce
  <2>6. \A d \in Conns : d # c => (HasNext(d) => Has(d, KindClosed))
    BY <2>1, HasAfterPush
  <2>7. \A h, i \in Goroutines :
            pc'[h] \in Ending /\ pc'[i] \in Ending /\ ConnNext(h) = ConnNext(i) => h = i
    BY <2>4 DEF EndsOnce
  <2>8. \A h \in Goroutines : pc'[h] \in Ending =>
            conns'[ConnNext(h)] = NoConn /\ ~HasNext(ConnNext(h))
    BY <2>1, <2>4, <2>5, <2>6 DEF EndsOnce
  <2>9. \A h \in Goroutines : pc'[h] = "announce" => closed'[ConnNext(h)]
    BY <2>1, <2>4 DEF EndsOnce, Ending
  <2>10. \A d \in Conns : HasNext(d) => conns'[d] = NoConn /\ closed'[d]
    BY <2>1, <2>2, <2>6 DEF EndsOnce
  <2>11. \A d \in Conns : ~BegunNext(d) => trail'[d] = <<>>
    <3>1. \A d \in Conns : ~BegunNext(d) => d # c /\ ~Begun(d)
      BY <1>0, <2>2
    <3> QED  BY <2>1, <3>1, PushAppends DEF EndsOnce
  <2> QED  BY <1>1, <2>7, <2>8, <2>9, <2>10, <2>11
<1>17. ASSUME NEW i \in Ids, WriteLookup(i) PROVE EndsOnce'
  <2>1. Goto(Guest, "write") /\ UNCHANGED <<conns, closed, trail>>
    BY <1>17 DEF WriteLookup, tableVars, socketVars, mailVars
  <2> QED  BY <1>3, <1>7, <2>1 DEF Ending
<1>18. CASE WriteOK
  <2>1. Goto(Guest, "run") /\ UNCHANGED <<conns, closed, trail>>
    BY <1>18 DEF WriteOK, Return, tableVars, socketVars, mailVars
  <2> QED  BY <1>3, <1>7, <2>1 DEF Ending
<1>19. CASE WriteFails \/ ListenerClose
  <2>1. (Goto(Guest, "lock") \/ Goto(Guest, "exited")) /\ UNCHANGED <<conns, closed, trail>>
    BY <1>19 DEF WriteFails, ListenerClose, tableVars, socketVars, mailVars
  <2> QED  BY <1>3, <1>7, <2>1 DEF Ending
<1>20. CASE TableClose
  <2>1. /\ Goto(Guest, "closing") /\ trail' = trail
        /\ conns' = [i \in Ids |-> NoConn]
    BY <1>20 DEF TableClose, mailVars
  <2>2. \A c \in Conns : closed[c] => closed'[c]
    BY <1>20, Zenon DEF TableClose
  <2> QED  BY <1>0, <1>3, <1>7, <2>1, <2>2 DEF Ending
<1>21. CASE AcceptFails \/ (\E c \in Conns : HangUp(c)) \/ GuestRecv \/ UNCHANGED vars
  <2>1. UNCHANGED <<pc, gconn, conns, closed, trail>>
    BY <1>21
    DEF AcceptFails, HangUp, GuestRecv, vars, tableVars, writeVars, socketVars, mailVars
  <2> QED  BY <1>3, <1>5, <2>1
<1> QED
  BY <1>9, <1>10, <1>11, <1>12, <1>13, <1>14, <1>15, <1>16, <1>17, <1>18, <1>19,
     <1>20, <1>21 DEF Next, Disconnect

LEMMA EndsOnceHolds == ASSUME NoReuse PROVE Spec => []EndsOnce
<1>1. Init => EndsOnce
  <2>1. Init => /\ \A g \in Goroutines : pc[g] \in {"run", "none"}
                /\ \A c \in Conns : trail[c] = <<>>
    BY DEF Init
  <2> QED  BY <2>1 DEF EndsOnce, Ending, Has
<1>2. TypeOK /\ Places /\ Fresh /\ EndsOnce /\ [Next]_vars => EndsOnce'
  BY EndsOnceKept
<1> QED  BY <1>1, <1>2, TypeCorrect, PlacesHold, FreshHolds, PTL DEF Spec

\* Who runs disconnect, or is about to, does so for a connection that has
\* begun; a reader does whatever the ids are.
LEMMA ReaderBegun ==
    ASSUME TypeOK, Places, NEW c \in Conns, pc[c] # "none"
    PROVE  Begun(c)
<1>1. c <= accepted /\ ~(c = accepted /\ spc = "push")
  <2>1. c \in Nat /\ accepted \in Nat
    BY Typed
  <2> QED  BY <2>1 DEF Places
<1> QED  BY <1>1, Typed DEF Begun, Conns

LEMMA ReaderEndsKept ==
    ASSUME TypeOK, Places, ~GuestWrites, ReaderEnds, [Next]_vars
    PROVE  ReaderEnds'
<1>1. \A c \in Conns : Begun(c) => BegunNext(c)
  BY BegunStays DEF Begun, BegunNext
<1>2. ASSUME \A c \in Conns : ~BegunNext(c) => trail'[c] = <<>>,
             \A c \in Conns : HasNext(c) => pc'[c] = "done"
      PROVE  ReaderEnds'
  BY <1>2, Zenon DEF ReaderEnds, Has, HasNext, Begun, BegunNext
\* Most steps announce no closure, and move no reader that is done.
<1>3. ASSUME UNCHANGED trail, \A c \in Conns : pc[c] = "done" => pc'[c] = "done"
      PROVE  ReaderEnds'
  <2>1. \A c \in Conns : HasNext(c) => Has(c, KindClosed)
    BY <1>3, Zenon DEF Has, HasNext
  <2> QED  BY <1>1, <1>2, <1>3, <2>1 DEF ReaderEnds
<1>4. ASSUME NEW e \in Event, Push(e), e.kind # KindClosed, BegunNext(e.conn),
             \A c \in Conns : pc[c] = "done" => pc'[c] = "done"
      PROVE  ReaderEnds'
  <2>1. \A c \in Conns : HasNext(c) => Has(c, KindClosed)
    BY <1>4, HasAfterPush, Zenon
  <2>2. \A c \in Conns : ~BegunNext(c) => trail'[c] = trail[c]
    BY <1>4, PushAppends, Zenon
  <2> QED  BY <1>1, <1>2, <1>4, <2>1, <2>2 DEF ReaderEnds
<1>5. ASSUME NEW c \in Conns, pc[c] # "done", NEW l, Goto(c, l)
      PROVE  \A d \in Conns : pc[d] = "done" => pc'[d] = "done"
  BY <1>5, ReaderMoves
<1>6. CASE PushEstablished
  <2> DEFINE e == [kind |-> KindEstablished, id |-> id[accepted],
                   conn |-> accepted, n |-> 0, by |-> accepted]
  <2>1. /\ e \in Event /\ e.kind # KindClosed /\ e.conn = accepted /\ Push(e)
        /\ UNCHANGED pc
    BY <1>6, EventTypes DEF PushEstablished, KindEstablished, KindClosed
  <2> HIDE DEF e
  <2>2. BegunNext(accepted)
    BY <1>6, Typed DEF PushEstablished, Conns, BegunNext
  <2> QED  BY <1>4, <2>1, <2>2
<1>7. ASSUME NEW c \in Conns, PushData(c) PROVE ReaderEnds'
  <2>1. /\ DataEvent(c) \in Event /\ DataEvent(c).kind # KindClosed
        /\ DataEvent(c).conn = c /\ Push(DataEvent(c)) /\ Goto(c, "read")
        /\ pc[c] = "push"
    BY <1>7, EventTypes DEF PushData, DataEvent, KindData, KindClosed
  <2>2. BegunNext(c)
    BY <1>1, <2>1, ReaderBegun
  <2> QED  BY <1>4, <1>5, <2>1, <2>2
<1>8. CASE Spawn
  <2>1. /\ accepted \in Conns /\ pc[accepted] = "none"
        /\ Goto(accepted, "read") /\ UNCHANGED trail
    BY <1>8, Typed DEF Spawn, mailVars, Places
  <2> QED  BY <1>3, <1>5, <2>1
<1>9. ASSUME NEW c \in Conns, ReadData(c) \/ ReadErr(c) PROVE ReaderEnds'
  <2>1. pc[c] = "read" /\ (\E l : Goto(c, l)) /\ UNCHANGED trail
    BY <1>9 DEF ReadData, ReadErr, mailVars
  <2> QED  BY <1>3, <1>5, <2>1
\* Only readers run disconnect.
<1>10. ASSUME NEW g \in Goroutines, Disconnect(g)
       PROVE  g \in Conns /\ g # Guest /\ ConnOf(g) = g
  <2>1. pc[g] \in {"lock"} \cup Ending
    BY <1>10 DEF Disconnect, Lock, Close, Announce, Ending
  <2>2. g # Guest
    BY <2>1 DEF Places, Ending
  <2> QED  BY <2>2, GuestOrReader DEF ConnOf
<1>11. ASSUME NEW g \in Goroutines, Lock(g) \/ Close(g) PROVE ReaderEnds'
  <2>1. g \in Conns /\ g # Guest
    BY <1>10, <1>11 DEF Disconnect
  <2>2. pc[g] # "done" /\ (\E l : Goto(g, l)) /\ UNCHANGED trail
    BY <1>11, <2>1 DEF Lock, Close, Return, mailVars
  <2> QED  BY <1>3, <1>5, <2>1, <2>2
<1>12. ASSUME NEW g \in Goroutines, Announce(g) PROVE ReaderEnds'
  <2> DEFINE e == [kind |-> KindClosed, id |-> id[g], conn |-> ConnOf(g), n |-> 0, by |-> g]
  <2>1. g \in Conns /\ g # Guest /\ ConnOf(g) = g
    BY <1>10, <1>12 DEF Disconnect
  <2>2. /\ e \in Event /\ e.conn = g /\ pc[g] = "announce" /\ Push(e) /\ Goto(g, "done")
    BY <1>12, <2>1, EventTypes DEF Announce, Return
  <2> HIDE DEF e
  <2>3. pc'[g] = "done" /\ \A c \in Conns : c # g => pc'[c] = pc[c]
    BY <2>1, <2>2, ReaderMoves
  <2>4. \A c \in Conns : c # g => (HasNext(c) => Has(c, KindClosed))
    BY <2>2, HasAfterPush
  <2>5. BegunNext(g)
    BY <1>1, <2>1, <2>2, ReaderBegun
  <2>6. \A c \in Conns : ~BegunNext(c) => trail'[c] = trail[c]
    BY <2>2, <2>5, PushAppends
  <2> QED  BY <1>1, <1>2, <2>3, <2>4, <2>6 DEF ReaderEnds
<1>13. CASE \/ (\E i \in Ids : WriteLookup(i)) \/ WriteOK \/ WriteFails
            \/ TableClose \/ ListenerClose
  <2>1. UNCHANGED trail /\ \E l : Goto(Guest, l)
    BY <1>13
    DEF WriteLookup, WriteOK, WriteFails, TableClose, ListenerClose, Return, mailVars
  <2> QED  BY <1>3, <2>1, GuestMoves
<1>14. CASE \/ Accept \/ AcceptFails \/ (\E c \in Conns : HangUp(c)) \/ GuestRecv
            \/ UNCHANGED vars
  <2>1. UNCHANGED <<pc, trail>>
    BY <1>14 DEF Accept, AcceptFails, HangUp, GuestRecv, vars, mailVars
  <2> QED  BY <1>3, <2>1
<1> QED
  BY <1>6, <1>7, <1>8, <1>9, <1>11, <1>12, <1>13, <1>14 DEF Next, Disconnect

LEMMA EndsInOrderHolds == ASSUME OneEnder PROVE Spec => []EndsInOrder
<1>1. CASE NoReuse
  <2>1. TypeOK /\ Places /\ Fresh /\ EndsOnce => EndsInOrder
    <3> SUFFICES ASSUME TypeOK, Places, Fresh, EndsOnce PROVE EndsInOrder
      OBVIOUS
    <3>1. \A g \in Goroutines : pc[g] \in {"read", "push", "lock"} \cup Ending =>
              ConnOf(g) \in Conns /\ Begun(ConnOf(g))
      BY BegunWhenRunning
    <3> QED  BY <3>1 DEF EndsOnce, EndsInOrder
  <2> QED
    BY <1>1, <2>1, TypeCorrect, PlacesHold, FreshHolds, EndsOnceHolds, PTL
<1>2. CASE ~GuestWrites
  <2>1. Init => ReaderEnds
    BY DEF Init, ReaderEnds, Has
  <2>2. TypeOK /\ Places /\ ReaderEnds /\ [Next]_vars => ReaderEnds'
    BY <1>2, ReaderEndsKept
  <2>3. TypeOK /\ Places /\ ReaderEnds => EndsInOrder
    <3> SUFFICES ASSUME TypeOK, Places, ReaderEnds PROVE EndsInOrder
      OBVIOUS
    <3>1. pc[Guest] \in {"run", "closing", "exited"}
      BY <1>2 DEF Places
    <3>2. \A c \in Conns : ConnOf(c) = c
      BY ReadersAreNotTheGuest
    <3>3. ASSUME NEW g \in Goroutines, pc[g] \in {"read", "push", "lock"} \cup Ending
          PROVE  /\ g \in Conns /\ ConnOf(g) = g /\ Begun(g)
                 /\ ~Has(g, KindClosed)
      <4>1. g \in Conns
        BY <3>1, <3>3, GuestOrReader DEF Ending
      <4>2. Begun(g) /\ pc[g] # "done"
        BY <3>3, <4>1, ReaderBegun DEF Ending
      <4> QED  BY <3>2, <4>1, <4>2 DEF ReaderEnds
    <3>4. \A c \in Conns : pc[c] = "read" => ~Has(c, KindClosed)
      BY DEF ReaderEnds
    <3>5. \A g \in Goroutines : pc[g] \in {"read", "push", "lock"} \cup Ending =>
              ConnOf(g) \in Conns /\ Begun(ConnOf(g)) /\ ~Has(ConnOf(g), KindClosed)
      BY <3>3
    <3> QED  BY <3>4, <3>5 DEF EndsInOrder, ReaderEnds
  <2> QED  BY <2>1, <2>2, <2>3, TypeCorrect, PlacesHold, PTL DEF Spec
<1> QED  BY <1>1, <1>2 DEF OneEnder

-----------------------------------------------------------------------------
(* The events of a connection, as ConnSpec has them *)

StageNext(c) ==
    IF ~BegunNext(c) THEN "new"
    ELSE IF ~HasNext(c) THEN "open"
    ELSE IF pc'[c] = "push" THEN "late" ELSE "ended"

\* The refinement mapping: the values that Abstract gives to stage and told.
stageOf == [c \in Conns |-> Stage(c)]
toldOf == [c \in Conns |-> Told(c)]

LEMMA Stages ==
    ASSUME TypeOK, TypeOK'
    PROVE  /\ stageOf' = [c \in Conns |-> StageNext(c)]
           /\ \A c \in Conns : Stage(c) =
                  IF ~Begun(c) THEN "new"
                  ELSE IF ~Has(c, KindClosed) THEN "open"
                  ELSE IF pc[c] = "push" THEN "late" ELSE "ended"
<1>1. \A c \in Conns : c > accepted \/ (c = accepted /\ spc = "push") <=> ~Begun(c)
  BY Typed DEF Begun, Conns
<1>2. \A c \in Conns :
          c > accepted' \/ (c = accepted' /\ spc' = "push") <=> ~BegunNext(c)
  <2>1. accepted' \in Nat
    BY DEF TypeOK
  <2> QED  BY <2>1 DEF BegunNext, Conns
<1>3. \A c \in Conns : Stage(c)' = StageNext(c)
  BY <1>2 DEF Stage, StageNext, Has, HasNext
<1> QED  BY <1>1, <1>3 DEF Stage, stageOf

LEMMA ToldTells ==
    ASSUME TypeOK, NEW e \in Event, Push(e)
    PROVE  /\ Full(box, e) => toldOf' = toldOf
           /\ ~Full(box, e) => toldOf' =
                  [toldOf EXCEPT ![e.conn] = Append(@, [kind |-> e.kind, n |-> e.n])]
<1> DEFINE About(q) == [i \in DOMAIN q |-> [kind |-> q[i].kind, n |-> q[i].n]]
           m == [kind |-> e.kind, n |-> e.n]
<1>1. e.conn \in Conns /\ trail[e.conn] \in Seq(Event)
  BY DEF Event, TypeOK
<1>2. /\ toldOf = [c \in Conns |-> About(trail[c])]
      /\ toldOf' = [c \in Conns |-> About(trail'[c])]
  BY DEF toldOf, Told
<1>3. ASSUME NEW q \in Seq(Event) PROVE About(Append(q, e)) = Append(About(q), m)
  <2> DEFINE X == [kind : {KindEstablished, KindData, KindClosed}, n : 0..MaxChunk]
  <2>1. /\ DOMAIN q = 1..Len(q) /\ Len(q) \in Nat
        /\ \A i \in 1..Len(q) : q[i] \in Event
    BY LenProperties, ElementOfSeq
  <2>2. ASSUME NEW r \in Seq(Event) PROVE About(r) \in Seq(X) /\ Len(About(r)) = Len(r)
    <3>1. /\ DOMAIN r = 1..Len(r) /\ Len(r) \in Nat
          /\ \A i \in 1..Len(r) : r[i] \in Event
      BY LenProperties, ElementOfSeq
    <3>2. \A i \in 1..Len(r) : [kind |-> r[i].kind, n |-> r[i].n] \in X
      BY <3>1 DEF Event
    <3>3. About(r) \in [1..Len(r) -> X]
      BY <3>1, <3>2
    <3> HIDE DEF About, X
    <3>4. About(r) \in Seq(X)
      BY <3>1, <3>3, SeqDef
    <3> QED  BY <3>1, <3>3, <3>4, LenProperties
  <2>3. /\ Append(q, e) \in Seq(Event) /\ Len(Append(q, e)) = Len(q) + 1
        /\ \A i \in 1..Len(q) : Append(q, e)[i] = q[i]
        /\ Append(q, e)[Len(q) + 1] = e
        /\ DOMAIN Append(q, e) = 1..(Len(q) + 1)
    BY AppendProperties, LenProperties
  <2>4. m \in X
    BY DEF Event
  <2>5. /\ About(q) \in Seq(X) /\ Len(About(q)) = Len(q)
        /\ About(Append(q, e)) \in Seq(X) /\ Len(About(Append(q, e))) = Len(q) + 1
    BY <2>2, <2>3
  <2>6. /\ Append(About(q), m) \in Seq(X) /\ Len(Append(About(q), m)) = Len(q) + 1
        /\ \A i \in 1..Len(q) : Append(About(q), m)[i] = About(q)[i]
        /\ Append(About(q), m)[Len(q) + 1] = m
    <3> HIDE DEF About, m, X
    <3> QED  BY <2>4, <2>5, AppendProperties
  <2>7. \A i \in 1..(Len(q) + 1) : About(Append(q, e))[i] = Append(About(q), m)[i]
    <3>1. \A i \in 1..Len(q) : About(q)[i] = [kind |-> q[i].kind, n |-> q[i].n]
      BY <2>1
    <3>2. \A i \in 1..(Len(q) + 1) :
              About(Append(q, e))[i] = [kind |-> Append(q, e)[i].kind, n |-> Append(q, e)[i].n]
      BY <2>3
    <3>3. \A i \in 1..(Len(q) + 1) : i = Len(q) + 1 \/ i \in 1..Len(q)
      BY <2>1
    <3> HIDE DEF About
    <3> QED  BY <2>3, <2>6, <3>1, <3>2, <3>3
  <2> HIDE DEF About, m, X
  <2> QED  BY <2>5, <2>6, <2>7, SeqEqual
<1> HIDE DEF About
<1>4. CASE Full(box, e)
  BY <1>2, <1>4, PushAppends
<1>5. CASE ~Full(box, e)
  <2>1. trail'[e.conn] = Append(trail[e.conn], e)
    BY <1>5, PushAppends
  <2>2. \A c \in Conns : c # e.conn => trail'[c] = trail[c]
    BY PushAppends
  <2> QED  BY <1>1, <1>2, <1>3, <1>5, <2>1, <2>2
<1> QED  BY <1>4, <1>5

\* A push about c, which has stage s before and t after, is a step of ConnSpec
\* when these are.
LEMMA StepIsAbstract ==
    ASSUME TypeOK, TypeOK', NEW c \in Conns, NEW t,
           stageOf' = [stageOf EXCEPT ![c] = t]
    PROVE  /\ /\ Stage(c) = "new" /\ t = "open"
              /\ \/ toldOf' = toldOf
                 \/ toldOf' = [toldOf EXCEPT ![c] =
                                  Append(@, [kind |-> KindEstablished, n |-> 0])]
              => Abstract!Begin(c)
           /\ /\ (Stage(c) = "open" /\ t = "open") \/ (Stage(c) = "late" /\ t = "ended")
              /\ \/ toldOf' = toldOf
                 \/ \E n \in 1..MaxChunk :
                        /\ \A i \in DOMAIN trail[c] : trail[c][i].n < n
                        /\ toldOf' = [toldOf EXCEPT ![c] =
                                         Append(@, [kind |-> KindData, n |-> n])]
              => Abstract!Data(c)
           /\ /\ Stage(c) = "open" /\ t \in {"late", "ended"}
              /\ toldOf' = [toldOf EXCEPT ![c] =
                               Append(@, [kind |-> KindClosed, n |-> 0])]
              => Abstract!End(c)
<1>1. /\ stageOf = [d \in Conns |-> Stage(d)] /\ stageOf' = [d \in Conns |-> Stage(d)]'
      /\ toldOf = [d \in Conns |-> Told(d)] /\ toldOf' = [d \in Conns |-> Told(d)]'
      /\ stageOf[c] = Stage(c)
  BY DEF stageOf, toldOf
<1>2. ASSUME Stage(c) = "new", t = "open",
             \/ toldOf' = toldOf
             \/ toldOf' = [toldOf EXCEPT ![c] =
                              Append(@, [kind |-> KindEstablished, n |-> 0])]
      PROVE  Abstract!Begin(c)
  BY <1>1, <1>2
  DEF Abstract!Begin, Abstract!Step, Abstract!Tell, Abstract!Drop, Abstract!Start,
      Abstract!KindEstablished, KindEstablished
<1>3. ASSUME (Stage(c) = "open" /\ t = "open") \/ (Stage(c) = "late" /\ t = "ended"),
             \/ toldOf' = toldOf
             \/ \E n \in 1..MaxChunk :
                    /\ \A i \in DOMAIN trail[c] : trail[c][i].n < n
                    /\ toldOf' = [toldOf EXCEPT ![c] =
                                     Append(@, [kind |-> KindData, n |-> n])]
      PROVE  Abstract!Data(c)
  <2>1. Abstract!Step(c, {"open", "late"}, IF stageOf[c] = "late" THEN "ended" ELSE "open")
    BY <1>1, <1>3 DEF Abstract!Step
  <2>2. CASE toldOf' = toldOf
    BY <1>1, <2>1, <2>2 DEF Abstract!Data, Abstract!Drop
  <2>3. ASSUME NEW n \in 1..MaxChunk, \A i \in DOMAIN trail[c] : trail[c][i].n < n,
               toldOf' = [toldOf EXCEPT ![c] =
                             Append(@, [kind |-> KindData, n |-> n])]
        PROVE  Abstract!Data(c)
    <3>1. Abstract!Later(c, n)
      BY <2>3 DEF Abstract!Later, Told
    <3>2. Abstract!Tell(c, Abstract!Chunk(n))
      BY <1>1, <2>3 DEF Abstract!Tell, Abstract!Chunk, Abstract!KindData, KindData
    <3> QED  BY <1>1, <2>1, <3>1, <3>2 DEF Abstract!Data
  <2> QED  BY <1>3, <2>2, <2>3
<1>4. ASSUME Stage(c) = "open", t \in {"late", "ended"},
             toldOf' = [toldOf EXCEPT ![c] =
                           Append(@, [kind |-> KindClosed, n |-> 0])]
      PROVE  Abstract!End(c)
  BY <1>1, <1>4
  DEF Abstract!End, Abstract!Step, Abstract!Tell, Abstract!Closure,
      Abstract!KindClosed, KindClosed
<1> QED  BY <1>2, <1>3, <1>4

\* A step that leaves the trails alone, nobody's chunk late and nobody new,
\* is not seen there at all.
LEMMA QuietIsAbstract ==
    ASSUME TypeOK, TypeOK', UNCHANGED trail,
           \A c \in Conns : BegunNext(c) <=> Begun(c),
           \A c \in Conns : Has(c, KindClosed) => (pc'[c] = "push" <=> pc[c] = "push")
    PROVE  stageOf' = stageOf /\ toldOf' = toldOf
<1>1. \A c \in Conns : HasNext(c) <=> Has(c, KindClosed)
  BY DEF Has, HasNext
<1>2. \A c \in Conns : StageNext(c) = Stage(c)
  BY <1>1, Stages, Zenon DEF StageNext
<1> QED  BY <1>2, Stages DEF stageOf, toldOf, Told

LEMMA StepRefines ==
    ASSUME TypeOK, TypeOK', Places, Numbered, EndsInOrder, [Next]_vars
    PROVE  \/ stageOf' = stageOf /\ toldOf' = toldOf
           \/ Abstract!Next
<1>1. ASSUME UNCHANGED <<trail, accepted, spc>>,
             \A c \in Conns : Has(c, KindClosed) => (pc'[c] = "push" <=> pc[c] = "push")
      PROVE  stageOf' = stageOf /\ toldOf' = toldOf
  BY <1>1, QuietIsAbstract DEF Begun, BegunNext
<1>2. ASSUME NEW g \in Goroutines, pc[g] # "push", NEW l, l # "push", Goto(g, l)
      PROVE  \A c \in Conns : pc'[c] = "push" <=> pc[c] = "push"
  BY <1>2 DEF Goto, TypeOK, Goroutines
<1>3. CASE Accept
  <2>1. UNCHANGED <<trail, pc>> /\ accepted' = accepted + 1 /\ spc = "accept" /\ spc' = "push"
    BY <1>3 DEF Accept, mailVars
  <2>2. \A c \in Conns : BegunNext(c) <=> Begun(c)
    BY <2>1, Typed DEF Begun, BegunNext
  <2> QED  BY <2>1, <2>2, QuietIsAbstract
<1>4. CASE AcceptFails
  <2>1. UNCHANGED <<trail, pc, accepted>> /\ spc = "accept" /\ spc' = "stopped"
    BY <1>4 DEF AcceptFails, mailVars
  <2> QED  BY <2>1, QuietIsAbstract DEF Begun, BegunNext
<1>5. CASE Spawn
  <2>1. UNCHANGED <<trail, accepted>> /\ spc = "spawn" /\ spc' = "accept" /\ Goto(accepted, "read")
    BY <1>5 DEF Spawn, mailVars
  <2>2. accepted \in Goroutines /\ pc[accepted] = "none"
    BY <2>1, Typed, ReadersAreNotTheGuest DEF Places
  <2> QED  BY <1>2, <2>1, <2>2, QuietIsAbstract DEF Begun, BegunNext
<1>6. CASE PushEstablished
  <2> DEFINE c == accepted
             e == [kind |-> KindEstablished, id |-> id[accepted],
                   conn |-> accepted, n |-> 0, by |-> accepted]
  <2>1. /\ c \in Conns /\ e \in Event /\ Push(e) /\ e.kind = KindEstablished
        /\ e.n = 0 /\ e.conn = c /\ UNCHANGED <<accepted, pc>>
        /\ spc = "push" /\ spc' = "spawn"
    BY <1>6, Typed, EventTypes DEF PushEstablished
  <2> HIDE DEF e
  <2>2. /\ ~Begun(c) /\ BegunNext(c)
        /\ \A d \in Conns : d # c => (BegunNext(d) <=> Begun(d))
    BY <2>1, Typed DEF Begun, BegunNext, Conns
  <2>3. \A d \in Conns : HasNext(d) <=> Has(d, KindClosed)
    BY <2>1, HasAfterPush DEF KindEstablished, KindClosed
  <2>4. ~HasNext(c)
    BY <2>1, <2>2, <2>3 DEF EndsInOrder, Has
  <2>5. Stage(c) = "new" /\ StageNext(c) = "open"
    BY <2>1, <2>2, <2>4, Stages DEF StageNext
  <2>6. \A d \in Conns : d # c => StageNext(d) = Stage(d)
    BY <2>1, <2>2, <2>3, Stages, Zenon DEF StageNext
  <2>7. stageOf' = [stageOf EXCEPT ![c] = "open"]
    BY <2>1, <2>5, <2>6, Stages DEF stageOf
  <2>8. \/ toldOf' = toldOf
        \/ toldOf' = [toldOf EXCEPT ![c] =
                         Append(@, [kind |-> KindEstablished, n |-> 0])]
    BY <2>1, ToldTells
  <2>9. Abstract!Begin(c)
    BY <2>1, <2>5, <2>7, <2>8, StepIsAbstract
  <2> QED  BY <2>1, <2>9 DEF Abstract!Next
<1>7. ASSUME NEW c \in Conns, PushData(c) PROVE Abstract!Data(c)
  <2> DEFINE e == DataEvent(c)
             t == StageNext(c)
  <2>1. /\ e \in Event /\ Push(e) /\ e.kind = KindData /\ e.n = chunks[c] /\ e.conn = c
        /\ UNCHANGED <<accepted, spc>> /\ pc[c] = "push" /\ Goto(c, "read")
    BY <1>7, EventTypes DEF PushData, DataEvent, acceptVars
  <2> HIDE DEF e
  <2>2. pc'[c] = "read" /\ \A d \in Conns : d # c => pc'[d] = pc[d]
    BY <2>1, ReaderMoves
  <2>3. Begun(c) /\ \A d \in Conns : BegunNext(d) <=> Begun(d)
    BY <2>1, ReadersAreNotTheGuest DEF EndsInOrder, Begun, BegunNext
  <2>4. \A d \in Conns : HasNext(d) <=> Has(d, KindClosed)
    BY <2>1, HasAfterPush DEF KindData, KindClosed
  <2>5. (Stage(c) = "open" /\ t = "open") \/ (Stage(c) = "late" /\ t = "ended")
    <3>1. Begun(c) /\ BegunNext(c) /\ pc[c] = "push" /\ pc'[c] # "push"
      BY <2>1, <2>2, <2>3
    <3>2. /\ ~Has(c, KindClosed) => Stage(c) = "open"
          /\ Has(c, KindClosed) => Stage(c) = "late"
      BY <3>1, Stages, Zenon
    <3>3. /\ ~Has(c, KindClosed) => t = "open"
          /\ Has(c, KindClosed) => t = "ended"
      BY <2>4, <3>1, Zenon DEF StageNext
    <3> HIDE DEF t
    <3> QED  BY <3>2, <3>3, Zenon
  <2>6. \A d \in Conns : d # c => StageNext(d) = Stage(d)
    BY <2>2, <2>3, <2>4, Stages, Zenon DEF StageNext
  <2>7. stageOf' = [stageOf EXCEPT ![c] = t]
    BY <2>6, Stages DEF stageOf
  <2>8. /\ chunks[c] \in 1..MaxChunk
        /\ \A i \in DOMAIN trail[c] : trail[c][i].n < chunks[c]
    <3>1. chunks[c] \in 0..MaxChunk /\ MaxChunk \in Nat
      BY ConnTableAssumption DEF TypeOK
    <3>2. chunks[c] > 0 /\ \A i \in DOMAIN trail[c] : trail[c][i].n < chunks[c]
      BY <2>1 DEF Numbered
    <3> QED  BY <3>1, <3>2
  <2>9. \/ toldOf' = toldOf
        \/ toldOf' = [toldOf EXCEPT ![c] =
                         Append(@, [kind |-> KindData, n |-> chunks[c]])]
    BY <2>1, ToldTells
  <2> HIDE DEF t
  <2> QED  BY <2>5, <2>7, <2>8, <2>9, StepIsAbstract
<1>8. ASSUME NEW g \in Goroutines, Announce(g) PROVE Abstract!Next
  <2> DEFINE c == ConnOf(g)
             e == [kind |-> KindClosed, id |-> id[g], conn |-> c, n |-> 0, by |-> g]
             t == StageNext(c)
  <2>1. /\ e \in Event /\ Push(e) /\ e.kind = KindClosed /\ e.n = 0 /\ e.conn = c
        /\ UNCHANGED <<accepted, spc>> /\ pc[g] = "announce" /\ Return(g)
    BY <1>8, EventTypes DEF Announce, acceptVars
  <2> HIDE DEF e
  <2>2. /\ c \in Conns /\ Begun(c) /\ pc[g] \in Ending /\ ~Has(c, KindClosed)
    BY <2>1 DEF Ending, EndsInOrder
  <2> HIDE DEF c
  <2>3. \A d \in Conns : pc'[d] = "push" <=> pc[d] = "push"
    <3>1. Goto(g, "run") \/ Goto(g, "done")
      BY <2>1 DEF Return
    <3> QED  BY <1>2, <2>1, <3>1
  <2>4. \A d \in Conns : BegunNext(d) <=> Begun(d)
    BY <2>1 DEF Begun, BegunNext
  <2>5. HasNext(c) /\ \A d \in Conns : d # c => (HasNext(d) <=> Has(d, KindClosed))
    BY <2>1, HasAfterPush
  <2>6. Stage(c) = "open" /\ t \in {"late", "ended"}
    BY <2>2, <2>4, <2>5, Stages DEF StageNext
  <2>7. \A d \in Conns : d # c => StageNext(d) = Stage(d)
    BY <2>3, <2>4, <2>5, Stages, Zenon DEF StageNext
  <2>8. stageOf' = [stageOf EXCEPT ![c] = t]
    BY <2>7, Stages DEF stageOf
  <2>9. toldOf' = [toldOf EXCEPT ![c] = Append(@, [kind |-> KindClosed, n |-> 0])]
    <3>1. ~Full(box, e)
      BY <2>1 DEF Full
    <3> QED  BY <2>1, <3>1, ToldTells
  <2> HIDE DEF t
  <2>10. Abstract!End(c)
    BY <2>2, <2>6, <2>8, <2>9, StepIsAbstract
  <2> QED  BY <2>2, <2>10 DEF Abstract!Next
<1>9. ASSUME NEW c \in Conns, ReadData(c) PROVE stageOf' = stageOf /\ toldOf' = toldOf
  <2>1. /\ UNCHANGED <<trail, accepted, spc>> /\ ~closed[c] /\ Goto(c, "push")
    BY <1>9 DEF ReadData, mailVars, acceptVars
  <2>2. ~Has(c, KindClosed) /\ \A d \in Conns : d # c => pc'[d] = pc[d]
    BY <1>9, <2>1, ReaderMoves DEF EndsInOrder, ReadData
  <2> QED  BY <1>1, <2>1, <2>2
<1>10. ASSUME NEW c \in Conns, ReadErr(c) PROVE stageOf' = stageOf /\ toldOf' = toldOf
  <2>1. UNCHANGED <<trail, accepted, spc>> /\ pc[c] = "read" /\ Goto(c, "lock")
    BY <1>10 DEF ReadErr, mailVars, acceptVars
  <2> QED  BY <1>1, <1>2, <2>1, ReadersAreNotTheGuest
<1>11. ASSUME NEW g \in Goroutines, Lock(g) \/ Close(g)
       PROVE  stageOf' = stageOf /\ toldOf' = toldOf
  <2>1. UNCHANGED <<trail, accepted, spc>> /\ pc[g] # "push"
    BY <1>11 DEF Lock, Close, mailVars, acceptVars
  <2>2. Goto(g, "run") \/ Goto(g, "done") \/ Goto(g, "close") \/ Goto(g, "announce")
    BY <1>11 DEF Lock, Close, Return
  <2> QED  BY <1>1, <1>2, <2>1, <2>2
<1>12. CASE \/ (\E i \in Ids : WriteLookup(i)) \/ WriteOK \/ WriteFails
            \/ TableClose \/ ListenerClose
  <2>1. UNCHANGED <<trail, accepted, spc>>
    BY <1>12
    DEF WriteLookup, WriteOK, WriteFails, TableClose, ListenerClose, mailVars, acceptVars
  <2>2. \E l : Goto(Guest, l)
    BY <1>12 DEF WriteLookup, WriteOK, WriteFails, TableClose, ListenerClose, Return
  <2> QED  BY <1>1, <2>1, <2>2, GuestMoves
<1>13. CASE (\E c \in Conns : HangUp(c)) \/ GuestRecv \/ UNCHANGED vars
  BY <1>1, <1>13 DEF HangUp, GuestRecv, vars, mailVars, acceptVars
<1> QED
  BY <1>3, <1>4, <1>5, <1>6, <1>7, <1>8, <1>9, <1>10, <1>11, <1>12, <1>13
  DEF Next, Disconnect, Abstract!Next

\* The events of every connection are what ConnSpec allows: the established
\* one first or dropped, chunks in the order of reading with each its own
\* bytes, one closed event although a reader and a failed write may both run
\* disconnect, and at most one chunk after it (conn.go, serveConn and
\* disconnect).
THEOREM EventsInOrder == ASSUME OneEnder PROVE Spec => ImplementsConnSpec
<1>1. Init => Abstract!Init
  <2> SUFFICES ASSUME Init PROVE Abstract!Init
    OBVIOUS
  <2>1. \A c \in Conns : c > accepted /\ trail[c] = <<>>
    BY ConnTableAssumption DEF Init, Conns
  <2>2. \A c \in Conns : Stage(c) = "new" /\ Told(c) = <<>>
    BY <2>1 DEF Stage, Told
  <2> QED  BY <2>2 DEF Abstract!Init
<1>2. TypeOK /\ TypeOK' /\ Places /\ Numbered /\ EndsInOrder /\ [Next]_vars
      => [Abstract!Next]_<<[c \in Conns |-> Stage(c)], [c \in Conns |-> Told(c)]>>
  BY StepRefines DEF stageOf, toldOf
<1> QED
  BY <1>1, <1>2, TypeCorrect, PlacesHold, NumberedHolds, EndsInOrderHolds,
     PTL DEF Spec, ImplementsConnSpec, Abstract!Spec
=============================================================================
