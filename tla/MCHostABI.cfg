\* Every call of a host function with 4-bit words: all pointers, all lengths,
\* every payload up to the largest i32.
SPECIFICATION Spec
CONSTANTS
    Word = 16
    MetaLen = 2
    PageSize = 8
    MaxFrames = {5, 7}
    MaxReadChunk = 6
INVARIANTS
    WritesConfined
    GuestDecodes
    MaxFrameBufferSuffices
    ValidCallServed
    BytesLeaveWhole
\* One call per behaviour.
CHECK_DEADLOCK FALSE
