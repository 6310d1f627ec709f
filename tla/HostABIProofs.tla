----------------------------- MODULE HostABIProofs -----------------------------
(***************************************************************************)
(* The boundary between guest and host for words of any width, a memory of  *)
(* any number of pages, and all pointers and lengths.                       *)
(***************************************************************************)
EXTENDS HostABI, TLAPS

\* The first value that is negative as an i32.
Half == Word \div 2

\* Where the arguments of a call come from, and that a call has no effect
\* before it returns.
Called ==
    /\ maxFrame \in MaxFrames
    /\ mem \in {p * PageSize : p \in 1..(Word \div PageSize)}
    /\ metaPtr \in U32 /\ bufPtr \in U32 /\ bufCap \in U32
    /\ msgLen \in PayloadLengths \cup {-1}
    /\ pc \in {"call", "returned"}
    /\ pc = "call" => written = {} /\ sent = {}

-----------------------------------------------------------------------------
(* The integers of the boundary *)

\* A number of at most one word either side of 0, modulo the word.
LEMMA OneWord ==
    ASSUME NEW w \in Nat \ {0}, NEW x \in Int, -w <= x, x < w
    PROVE  x % w = IF x >= 0 THEN x ELSE x + w
<1>1. CASE x >= 0
  BY <1>1
<1>2. CASE x < 0 /\ x # -w
  <2>1. x + w \in 0..(w - 1)
    BY <1>2
  <2>2. (x + w) % w = x + w /\ (x + w) % w = x % w
    BY <2>1
  <2> QED  BY <1>2, <2>2
<1>3. CASE x = -w
  BY <1>3
<1> QED  BY <1>1, <1>2, <1>3

LEMMA WholeDivision ==
    ASSUME NEW x \in Nat, NEW w \in Nat \ {0}, x % w = 0
    PROVE  x \div w \in Nat /\ x = w * (x \div w)
OBVIOUS

\* What is known of the constants.
LEMMA Widths ==
    /\ Word \in Nat \ {0} /\ Half \in Nat /\ Word = 2 * Half
    /\ PageSize \in Nat \ {0} /\ MetaLen \in Nat /\ MetaLen < Word
    /\ Word = PageSize * (Word \div PageSize) /\ Word \div PageSize \in Nat
    /\ MaxReadChunk \in Nat /\ MaxReadChunk > 0 /\ MaxReadChunk < Half
    /\ \A m \in MaxFrames : m \in Nat /\ m > 0 /\ m < Half
<1>1. /\ MetaLen \in Nat /\ PageSize \in Nat /\ PageSize > 0 /\ Word \in Nat
      /\ Word % PageSize = 0 /\ Word % 2 = 0 /\ MetaLen < Word
  BY HostABIAssumption
<1>2. Word = 2 * (Word \div 2) /\ Word \div 2 \in Nat
  <2>1. 2 \in Nat \ {0}
    OBVIOUS
  <2> QED  BY <1>1, <2>1, WholeDivision
<1>3. Word = PageSize * (Word \div PageSize) /\ Word \div PageSize \in Nat
  BY <1>1, WholeDivision
<1>4. /\ MaxReadChunk \in 1..(Half - 1)
      /\ \A m \in MaxFrames : m \in 1..(Half - 1)
  BY HostABIAssumption DEF Half
<1> QED  BY <1>1, <1>2, <1>3, <1>4 DEF Half

\* An i32 that is not negative, and the negative of one.
LEMMA I32 ==
    /\ \A x \in 0..(Half - 1) : AsI32(x) = x
    /\ \A x \in 1..Half : AsI32(-x) = -x
    /\ AsI32(Half) = -Half
<1> DEFINE H == Half
<1>1. Word \in Nat \ {0} /\ H \in Nat /\ Word = 2 * H /\ Word \div 2 = H
  BY Widths DEF Half
<1> HIDE DEF H
<1>2. ASSUME NEW x \in Int, -Word <= x, x < Word
      PROVE  x % Word = IF x >= 0 THEN x ELSE x + Word
  BY <1>1, <1>2, OneWord
<1>3. ASSUME NEW x \in 0..(H - 1) PROVE AsI32(x) = x
  <2>1. x % Word = x
    BY <1>1, <1>2
  <2> QED  BY <1>1, <2>1 DEF AsI32
<1>4. ASSUME NEW x \in 1..H PROVE AsI32(-x) = -x
  <2>1. -x \in Int /\ -Word <= -x /\ -x < Word /\ ~(-x >= 0)
    BY <1>1
  <2>2. (-x) % Word = -x + Word
    BY <1>2, <2>1
  <2> QED  BY <1>1, <2>2 DEF AsI32
<1>5. AsI32(H) = -H
  <2>1. H % Word = H
    BY <1>1, <1>2
  <2> QED  BY <1>1, <2>1 DEF AsI32
<1> QED  BY <1>3, <1>4, <1>5 DEF H

\* The code for a buffer that is too small names the size that is required,
\* also for the longest frame, where the sum becomes negative on its way.
LEMMA TooSmallCodeIs ==
    ASSUME NEW len \in 0..(Half - 1) PROVE TooSmallCode(len) = -(len + 1)
<1>1. Half \in Nat /\ AsI32(len) = len
  BY Widths, I32
<1>2. CASE len + 1 < Half
  <2>1. AsI32(len + 1) = len + 1 /\ AsI32(-(len + 1)) = -(len + 1)
    BY <1>1, <1>2, I32
  <2> QED  BY <1>1, <2>1 DEF TooSmallCode
<1>3. CASE len + 1 = Half
  <2>1. AsI32(len + 1) = -Half
    BY <1>3, I32
  <2>2. -AsI32(len + 1) = Half
    BY <1>1, <2>1
  <2>3. AsI32(-AsI32(len + 1)) = -Half
    BY <2>2, I32
  <2> QED  BY <1>1, <1>3, <2>3 DEF TooSmallCode
<1> QED  BY <1>1, <1>2, <1>3

-----------------------------------------------------------------------------
(* The calls *)

LEMMA Numbers ==
    ASSUME Called
    PROVE  /\ maxFrame \in Nat /\ maxFrame > 0 /\ maxFrame < Half
           /\ mem \in Nat /\ mem > 0 /\ mem <= Word
           /\ Size = IF mem = Word THEN 0 ELSE mem
           /\ metaPtr \in Nat /\ bufPtr \in Nat /\ bufCap \in Nat
           /\ msgLen \in Int /\ msgLen >= -1 /\ msgLen <= maxFrame
           /\ MaxFrame = maxFrame
<1>1. maxFrame \in Nat /\ maxFrame > 0 /\ maxFrame < Half
  BY Widths DEF Called
<1>2. mem \in Nat /\ mem > 0 /\ mem <= Word
  <2>1. PICK p \in 1..(Word \div PageSize) : mem = p * PageSize
    BY DEF Called
  <2> DEFINE q == Word \div PageSize
  <2>2. PageSize \in Nat /\ PageSize > 0 /\ q \in Nat /\ Word = PageSize * q /\ p \in 1..q
    BY Widths, <2>1
  <2> HIDE DEF q
  <2>3. p * PageSize > 0 /\ p * PageSize <= PageSize * q /\ p * PageSize \in Nat
    BY <2>2
  <2> QED  BY <2>1, <2>2, <2>3
<1>3. Size = IF mem = Word THEN 0 ELSE mem
  <2>1. CASE mem = Word
    BY <2>1, Widths DEF Size
  <2>2. CASE mem # Word
    BY <1>2, <2>2, Widths DEF Size
  <2> QED  BY <2>1, <2>2
<1>4. metaPtr \in Nat /\ bufPtr \in Nat /\ bufCap \in Nat
  BY Widths DEF Called, U32
<1>5. msgLen \in Int /\ msgLen >= -1 /\ msgLen <= maxFrame
  BY <1>1, Widths DEF Called, PayloadLengths, ChunkSize
<1>6. MaxFrame = maxFrame
  <2>1. maxFrame \in 0..(Half - 1)
    BY <1>1, Widths
  <2> QED  BY <2>1, I32 DEF MaxFrame
<1> QED  BY <1>1, <1>2, <1>3, <1>4, <1>5, <1>6

LEMMA CalledAlways == Spec => []Called
<1>1. Init => Called
  <2>1. 0 \in U32 /\ -1 \in {-1}
    BY Widths DEF U32
  <2> QED  BY <2>1 DEF Init, Called
<1>2. Called /\ [Next]_vars => Called'
  <2>1. ASSUME Called, UNCHANGED args, pc' = "returned" PROVE Called'
    BY <2>1 DEF Called, args, PayloadLengths, ChunkSize
  <2>2. ASSUME Called, UNCHANGED vars PROVE Called'
    BY <2>2 DEF Called, vars, args, PayloadLengths, ChunkSize
  <2>3. Next => UNCHANGED args /\ pc' = "returned"
    BY DEF Next, RecvBadPointers, RecvTimedOut, RecvTooSmall, RecvDelivered, SendDropped,
       SendPasses, MaxFrameReturns, ConnWriteRefused, ConnWriteOK, ConnWriteFails, Return
  <2> QED  BY <2>1, <2>2, <2>3
<1> QED  BY <1>1, <1>2, PTL DEF Spec

Ops == op \in {"recv", "send", "conn_write", "max_frame"}

\* What a call of recv answers and does, in plain numbers.
RecvOutcome ==
    Returned("recv") =>
        \/ /\ ret = -1 /\ written = {}
           /\ ~PointersOK \/ msgLen = -1
        \/ /\ PointersOK /\ msgLen > bufCap
           /\ ret = -(msgLen + 1) /\ written = {}
        \/ /\ PointersOK /\ msgLen >= 0 /\ msgLen <= bufCap
           /\ ret = msgLen
           /\ written = Bytes(metaPtr, MetaLen) \cup Bytes(bufPtr, msgLen)

\* And the calls that only read.
ReadOutcome ==
    /\ pc = "returned" /\ op # "recv" => written = {}
    /\ Returned("recv") \/ Returned("max_frame") => sent = {}
    /\ Returned("send") =>
           sent = IF ~Oversized /\ Readable THEN Bytes(bufPtr, bufCap) ELSE {}
    /\ Returned("conn_write") =>
           \/ ret = -1 /\ sent = {}
           \/ ret = 0 /\ Readable /\ sent = Bytes(bufPtr, bufCap)
           \/ /\ ret = -1 /\ Readable
              /\ \E k \in 0..bufCap : k < bufCap /\ sent = Bytes(bufPtr, k)

LEMMA Outcomes == Spec => [](RecvOutcome /\ ReadOutcome /\ Ops)
<1>1. Init => RecvOutcome /\ ReadOutcome /\ Ops
  BY DEF Init, RecvOutcome, ReadOutcome, Returned, Ops
<1>2. Called /\ RecvOutcome /\ ReadOutcome /\ Ops /\ [Next]_vars
      => RecvOutcome' /\ ReadOutcome' /\ Ops'
  <2> SUFFICES ASSUME Called, RecvOutcome, ReadOutcome, Ops, [Next]_vars
               PROVE  RecvOutcome' /\ ReadOutcome' /\ Ops'
    OBVIOUS
  <2>1. CASE RecvBadPointers
    BY <2>1 DEF Ops, RecvBadPointers, Return, args, RecvOutcome, ReadOutcome, Returned, PointersOK, InBounds, Size
  <2>2. CASE RecvTimedOut
    BY <2>2 DEF Ops, RecvTimedOut, Return, args, RecvOutcome, ReadOutcome, Returned, PointersOK, InBounds, Size
  <2>3. CASE RecvTooSmall
    <3>1. msgLen \in 0..(Half - 1)
      BY <2>3, Numbers, Widths DEF RecvTooSmall
    <3>2. TooSmallCode(msgLen) = -(msgLen + 1)
      BY <3>1, TooSmallCodeIs
    <3>3. ret' = -(msgLen' + 1) /\ msgLen' > bufCap' /\ PointersOK' /\ written' = {} /\ sent' = {}
          /\ op' = "recv" /\ pc' = "returned"
      BY <2>3, <3>2 DEF RecvTooSmall, Return, args, PointersOK, InBounds, Size
    <3> QED  BY <3>3 DEF Ops, RecvOutcome, ReadOutcome, Returned
  <2>4. CASE RecvDelivered
    <3>1. msgLen \in 0..(Half - 1) /\ msgLen >= 0 /\ msgLen <= bufCap
      BY <2>4, Numbers, Widths DEF RecvDelivered
    <3>2. AsI32(msgLen) = msgLen
      BY <3>1, I32
    <3>3. /\ ret' = msgLen' /\ msgLen' <= bufCap' /\ msgLen' >= 0 /\ PointersOK' /\ sent' = {}
          /\ written' = Bytes(metaPtr', MetaLen) \cup Bytes(bufPtr', msgLen')
          /\ op' = "recv" /\ pc' = "returned"
      BY <2>4, <3>1, <3>2 DEF RecvDelivered, Return, args, PointersOK, InBounds, Size
    <3> QED  BY <3>3 DEF Ops, RecvOutcome, ReadOutcome, Returned
  <2>5. CASE SendDropped
    BY <2>5 DEF Ops, SendDropped, Return, args, RecvOutcome, ReadOutcome, Returned, Oversized, Readable
  <2>6. CASE SendPasses
    BY <2>6 DEF Ops, SendPasses, Return, args, RecvOutcome, ReadOutcome, Returned, Oversized, Readable
  <2>7. CASE MaxFrameReturns
    BY <2>7 DEF Ops, MaxFrameReturns, Return, args, RecvOutcome, ReadOutcome, Returned
  <2>8. CASE ConnWriteRefused
    BY <2>8 DEF Ops, ConnWriteRefused, Return, args, RecvOutcome, ReadOutcome, Returned
  <2>9. CASE ConnWriteOK
    BY <2>9 DEF Ops, ConnWriteOK, Return, args, RecvOutcome, ReadOutcome, Returned, Readable
  <2>10. CASE ConnWriteFails
    BY <2>10 DEF Ops, ConnWriteFails, Return, args, RecvOutcome, ReadOutcome, Returned, Readable
  <2>11. CASE UNCHANGED vars
    BY <2>11 DEF Ops, vars, args, RecvOutcome, ReadOutcome, Returned, PointersOK, InBounds, Size,
       Oversized, Readable
  <2> QED
    BY <2>1, <2>2, <2>3, <2>4, <2>5, <2>6, <2>7, <2>8, <2>9, <2>10, <2>11 DEF Next
<1> QED  BY <1>1, <1>2, CalledAlways, PTL DEF Spec

-----------------------------------------------------------------------------
(* The theorems *)

\* No byte outside of the guest's memory, nor outside of the two buffers it
\* named, is written (recv in host.go), whatever pointers a guest passes.
THEOREM OnlyNamedBytesWritten == Spec => []WritesConfined
<1> DEFINE IInv == Called /\ RecvOutcome /\ ReadOutcome /\ Ops
<1>1. Spec => []IInv
  BY CalledAlways, Outcomes, PTL
<1>2. IInv => WritesConfined
  <2> SUFFICES ASSUME IInv, NEW a \in written
               PROVE  a < mem /\ a \in Bytes(metaPtr, MetaLen) \cup Bytes(bufPtr, bufCap)
    BY DEF WritesConfined
  <2>1. Returned("recv")
    BY DEF Called, ReadOutcome, Returned
  <2>2. /\ PointersOK /\ msgLen >= 0 /\ msgLen <= bufCap
        /\ a \in Bytes(metaPtr, MetaLen) \cup Bytes(bufPtr, msgLen)
    BY <2>1 DEF RecvOutcome
  <2>3. metaPtr + MetaLen <= Size /\ bufPtr + bufCap <= Size
    BY <2>2 DEF PointersOK, InBounds
  <2>4. Size \in Nat /\ Size <= mem
    BY Numbers
  <2> QED  BY <2>2, <2>3, <2>4, Numbers, Widths DEF Bytes
<1> QED  BY <1>1, <1>2, PTL

\* A guest can decode every answer of recv: the length that was delivered, -1
\* and nothing was taken, or the exact size that is required, up to the
\* longest frame, where the sum in recv's return expression overflows.
THEOREM AnswersDecode == Spec => []GuestDecodes
<1> DEFINE IInv == Called /\ RecvOutcome
<1>1. Spec => []IInv
  BY CalledAlways, Outcomes, PTL
<1>2. IInv => GuestDecodes
  <2> SUFFICES ASSUME IInv, Returned("recv")
               PROVE  /\ ret >= 0 => ret = msgLen /\ msgLen <= bufCap
                      /\ ret < 0  => written = {}
                      /\ ret <= -2 => AsI32(-ret - 1) = msgLen /\ msgLen > bufCap
    BY DEF GuestDecodes
  <2>1. /\ msgLen \in Int /\ msgLen >= -1 /\ msgLen < Half /\ bufCap \in Nat
        /\ Half \in Nat
    BY Numbers, Widths
  <2>2. CASE ret = -1 /\ written = {}
    BY <2>2
  <2>3. CASE msgLen > bufCap /\ ret = -(msgLen + 1) /\ written = {}
    <3>1. msgLen \in 0..(Half - 1) /\ -ret - 1 = msgLen
      BY <2>1, <2>3
    <3>2. AsI32(-ret - 1) = msgLen
      BY <3>1, I32
    <3> QED  BY <2>1, <2>3, <3>2
  <2>4. CASE msgLen >= 0 /\ msgLen <= bufCap /\ ret = msgLen
    BY <2>1, <2>4
  <2> QED  BY <2>2, <2>3, <2>4 DEF RecvOutcome
<1> QED  BY <1>1, <1>2, PTL

\* A buffer of max_frame() bytes is never too small for recv (the bound on
\* what reaches the mailbox: ReadFrame's max_frame and conn.go's chunk size).
THEOREM MaxFrameSuffices == Spec => []MaxFrameBufferSuffices
<1> DEFINE IInv == Called /\ RecvOutcome
<1>1. Spec => []IInv
  BY CalledAlways, Outcomes, PTL
<1>2. IInv => MaxFrameBufferSuffices
  <2> SUFFICES ASSUME IInv, Returned("recv"), bufCap >= MaxFrame PROVE ret >= -1
    BY DEF MaxFrameBufferSuffices
  <2>1. ~(msgLen > bufCap)
    BY Numbers
  <2> QED  BY <2>1, Numbers DEF RecvOutcome
<1> QED  BY <1>1, <1>2, PTL

\* The bounds check of recv turns no guest away that named two buffers in its
\* memory, except where the memory has 2^32 bytes and its Size() is 0.
THEOREM ValidCallsServed == Spec => []ValidCallServed
<1> DEFINE IInv == Called /\ RecvOutcome
<1>1. Spec => []IInv
  BY CalledAlways, Outcomes, PTL
<1>2. IInv => ValidCallServed
  <2> SUFFICES ASSUME IInv, Returned("recv"), ValidCall, mem # Word, msgLen \in 0..bufCap
               PROVE  ret = msgLen
    BY DEF ValidCallServed
  <2>1. PointersOK
    BY Numbers DEF ValidCall, PointersOK, InBounds
  <2>2. bufCap \in Nat /\ ~(msgLen > bufCap) /\ msgLen # -1
    BY Numbers
  <2> QED  BY <2>1, <2>2 DEF RecvOutcome
<1> QED  BY <1>1, <1>2, PTL

\* Only bytes of the guest's memory leave, a frame leaves as a whole exactly if
\* it is no longer than max_frame(), and a conn_write that returns 0 wrote all
\* (send and conn_write in host.go).
THEOREM WholeFramesLeave == Spec => []BytesLeaveWhole
<1> DEFINE IInv == Called /\ ReadOutcome /\ Ops
<1>1. Spec => []IInv
  BY CalledAlways, Outcomes, PTL
<1>2. IInv => BytesLeaveWhole
  <2> SUFFICES ASSUME IInv PROVE BytesLeaveWhole
    OBVIOUS
  <2>1. ASSUME NEW a \in sent PROVE a < mem
    <3>1. Returned("send") \/ Returned("conn_write")
      BY <2>1 DEF Called, ReadOutcome, Returned, Ops
    <3>2. bufPtr \in Nat /\ bufCap \in Nat /\ mem \in Nat
      BY Numbers
    <3>3. Readable /\ \E k \in 0..bufCap : sent = Bytes(bufPtr, k)
      <4>1. CASE Returned("send")
        <5>1. ~Oversized /\ Readable /\ sent = Bytes(bufPtr, bufCap)
          BY <2>1, <4>1 DEF ReadOutcome
        <5> QED  BY <3>2, <5>1
      <4>2. CASE Returned("conn_write")
        <5>1. Readable
          BY <2>1, <4>2 DEF ReadOutcome
        <5>2. CASE sent = Bytes(bufPtr, bufCap)
          BY <3>2, <5>1, <5>2
        <5> QED  BY <2>1, <4>2, <5>1, <5>2 DEF ReadOutcome
      <4> QED  BY <3>1, <4>1, <4>2
    <3>4. PICK k \in 0..bufCap : sent = Bytes(bufPtr, k)
      BY <3>3
    <3> QED  BY <2>1, <3>2, <3>3, <3>4 DEF Bytes, Readable
  <2>2. Returned("send") =>
            sent = IF bufCap <= MaxFrame /\ bufPtr + bufCap <= mem
                   THEN Bytes(bufPtr, bufCap) ELSE {}
    <3>1. ~Oversized <=> bufCap <= MaxFrame
      BY Numbers DEF Oversized
    <3> QED  BY <3>1 DEF ReadOutcome, Readable
  <2>3. Returned("conn_write") /\ ret = 0 => sent = Bytes(bufPtr, bufCap)
    BY DEF ReadOutcome
  <2> QED  BY <2>1, <2>2, <2>3 DEF BytesLeaveWhole
<1> QED  BY <1>1, <1>2, PTL
=============================================================================
