------------------------------- MODULE HostABI -------------------------------
(***************************************************************************)
(* One call of a host function across the WASM boundary (sandbox/host.go):  *)
(* the checks on the guest's pointers and lengths, what is written to its   *)
(* memory, which bytes of it leave the process, and the i32 the guest gets  *)
(* back and decodes.  Integers keep their width, with Word = 2^32 for the   *)
(* code.  The memory is external: its Size() is a u32, its Read is not      *)
(* bound by that.                                                           *)
(***************************************************************************)
EXTENDS Integers

CONSTANTS Word,       \* 2^32: the number of u32 values
          MetaLen,    \* 8: bytes of metadata
          PageSize,   \* 65536: the memory is a whole number of pages
          MaxFrames,  \* the values of -f
          MaxReadChunk  \* 64 KiB

ASSUME HostABIAssumption ==
    /\ MetaLen \in Nat /\ PageSize \in Nat \ {0}
    /\ Word \in Nat /\ Word % PageSize = 0 /\ Word % 2 = 0 /\ MetaLen < Word
    /\ MaxFrames \subseteq 1..(Word \div 2 - 1)
    /\ MaxReadChunk \in 1..(Word \div 2 - 1)

U32 == 0..(Word - 1)

\* int32(x): the value in the two's complement range that is x modulo Word.
AsI32(x) == LET u == x % Word IN IF u >= Word \div 2 THEN u - Word ELSE u

VARIABLES
    maxFrame,  \* the -f of this process
    mem,       \* bytes of the guest's memory
    op,        \* the host function called
    metaPtr, bufPtr, bufCap,   \* the arguments of recv; send and conn_write
               \* have bufPtr and bufCap as their ptr and length
    msgLen,    \* length of the payload at the head of the mailbox; -1: none
    pc,        \* "call" or "returned"
    ret,       \* the i32 returned
    written,   \* the addresses of the guest's memory that were written
    sent       \* the addresses whose bytes went to a socket

args == <<maxFrame, mem, op, metaPtr, bufPtr, bufCap, msgLen>>
vars == <<args, pc, ret, written, sent>>

\* Faulty variant: the chunk does not look at -f.
ChunkSize64K == MaxReadChunk

\* The longest read of an external connection.
ChunkSize == IF maxFrame < MaxReadChunk THEN maxFrame ELSE MaxReadChunk

\* What can be at the head of the mailbox: a frame, which ReadFrame keeps
\* within max_frame, a chunk, or (length 0) an event without payload.
PayloadLengths == 0..maxFrame \cup 0..ChunkSize

Init ==
    /\ maxFrame \in MaxFrames
    /\ mem \in {p * PageSize : p \in 1..(Word \div PageSize)}
    /\ op \in {"recv", "send", "conn_write", "max_frame"}
    /\ metaPtr \in IF op = "recv" THEN U32 ELSE {0}
    /\ bufPtr \in U32 /\ bufCap \in U32
    /\ msgLen \in IF op = "recv" THEN PayloadLengths \cup {-1} ELSE {-1}
    /\ pc = "call" /\ ret = 0 /\ written = {} /\ sent = {}

Size == mem % Word    \* api.Memory.Size()

\* Faulty variant: the sums wrap as the guest's u32 values do.
InBoundsU32(ptr, len) == (ptr + len) % Word <= Size

\* Faulty variant: a buffer that ends where the memory ends is turned away.
InBoundsStrict(ptr, len) == ptr + len < Size

\* uint64 sums, which do not wrap.
InBounds(ptr, len) == ptr + len <= Size

PointersOK == InBounds(metaPtr, MetaLen) /\ InBounds(bufPtr, bufCap)

Return(f, code, in, out) ==
    /\ pc = "call" /\ op = f
    /\ pc' = "returned"
    /\ ret' = code
    /\ written' = in
    /\ sent' = out
    /\ UNCHANGED args

Bytes(ptr, len) == ptr..(ptr + len - 1)

-----------------------------------------------------------------------------
(* recv *)

\* Pointers out of range: -1, and the mailbox is not touched.
RecvBadPointers == ~PointersOK /\ Return("recv", -1, {}, {})

\* RecvTimedOut.
RecvTimedOut == PointersOK /\ msgLen = -1 /\ Return("recv", -1, {}, {})

\* Faulty variant: the required size without the offset by one.
TooSmallCodePlain(len) == AsI32(-len)

\* -(int32(requiredLen) + 1)
TooSmallCode(len) == AsI32(-AsI32(AsI32(len) + 1))

\* RecvBufferTooSmall.
RecvTooSmall ==
    /\ PointersOK
    /\ msgLen > bufCap
    /\ Return("recv", TooSmallCode(msgLen), {}, {})

\* RecvDelivered: metadata and payload are written, the length is returned.
RecvDelivered ==
    /\ PointersOK
    /\ msgLen \in 0..bufCap
    /\ Return("recv", AsI32(msgLen),
              Bytes(metaPtr, MetaLen) \cup Bytes(bufPtr, msgLen), {})

-----------------------------------------------------------------------------
(* send, max_frame and conn_write *)

\* mod.Memory().Read(ptr, length): a view, or not ok.
Readable == bufPtr + bufCap <= mem

\* Faulty variant: the length is taken for the i32 of the guest's signature.
OversizedI32 == AsI32(bufCap) > maxFrame

\* int(length) > cfg.MaxFrame
Oversized == bufCap > maxFrame

\* An oversized frame is counted and dropped before memory is looked at, and
\* pointers out of range are silently ignored.
SendDropped == (Oversized \/ ~Readable) /\ Return("send", 0, {}, {})

\* The frame goes to DestTable.Send (module Messaging).
SendPasses == ~Oversized /\ Readable /\ Return("send", 0, {}, Bytes(bufPtr, bufCap))

MaxFrame == AsI32(maxFrame)

MaxFrameReturns == Return("max_frame", MaxFrame, {}, {})

\* There is no -l, the pointers are out of range, or ConnTable.Write does not
\* know the id.
ConnWriteRefused == Return("conn_write", -1, {}, {})

\* ConnTable.Write (module ConnTable) writes it all, or fails on the way.
ConnWriteOK == Readable /\ Return("conn_write", 0, {}, Bytes(bufPtr, bufCap))
ConnWriteFails ==
    /\ Readable
    /\ \E k \in 0..bufCap :
           k < bufCap /\ Return("conn_write", -1, {}, Bytes(bufPtr, k))

Next ==
    \/ RecvBadPointers \/ RecvTimedOut \/ RecvTooSmall \/ RecvDelivered
    \/ SendDropped \/ SendPasses \/ MaxFrameReturns
    \/ ConnWriteRefused \/ ConnWriteOK \/ ConnWriteFails

Spec == Init /\ [][Next]_vars

-----------------------------------------------------------------------------
(* Properties *)

Returned(f) == pc = "returned" /\ op = f

\* What the guest was told to expect: its two buffers, both in its memory.
ValidCall == metaPtr + MetaLen <= mem /\ bufPtr + bufCap <= mem

\* No byte outside of the guest's memory, nor outside of the two buffers it
\* named, is written, whatever the pointers are.
WritesConfined ==
    \A a \in written :
        /\ a < mem
        /\ a \in Bytes(metaPtr, MetaLen) \cup Bytes(bufPtr, bufCap)

\* The three readings of the returned value (docs/spec §5.3) exclude each
\* other and give back what happened: a length that was delivered, -1 and
\* nothing was taken, or the exact size that is required, up to the longest
\* frame an i32 can name.
GuestDecodes ==
    Returned("recv") =>
        /\ ret >= 0 => ret = msgLen /\ msgLen <= bufCap
        /\ ret < 0  => written = {}
        /\ ret <= -2 => AsI32(-ret - 1) = msgLen /\ msgLen > bufCap

\* A guest whose buffer takes max_frame() bytes is never told to retry with a
\* larger one (docs/spec §5.3, conn.go:14-21).
MaxFrameBufferSuffices ==
    Returned("recv") /\ bufCap >= MaxFrame => ret >= -1

\* The bounds check turns no guest away that named two buffers in its memory:
\* if the message that waits fits, it is delivered.  The exception is a memory
\* of 2^32 bytes, whose Size() is 0: there recv always answers -1.
ValidCallServed ==
    Returned("recv") /\ ValidCall /\ mem # Word /\ msgLen \in 0..bufCap => ret = msgLen

\* Only bytes of the guest's own memory leave.  A frame leaves as a whole, and
\* if it is no longer than max_frame() it gets to DestTable.Send; one that no
\* receiver with the same -f could take never does, also with lengths that
\* are negative as an i32.  A conn_write that returns 0 wrote everything.
BytesLeaveWhole ==
    /\ \A a \in sent : a < mem
    /\ Returned("send") =>
           sent = IF bufCap <= MaxFrame /\ bufPtr + bufCap <= mem
                  THEN Bytes(bufPtr, bufCap) ELSE {}
    /\ Returned("conn_write") /\ ret = 0 => sent = Bytes(bufPtr, bufCap)
=============================================================================
