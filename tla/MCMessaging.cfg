\* Two destinations with an ID each, four messages, a crash, sockets that
\* hold half a frame, and mailboxes that overflow.
SPECIFICATION Spec
CONSTANTS
    Receivers <- MCReceivers
    Dests <- MCDests
    Assign <- MCAssign
    MaxSend = 4
    MaxCrash = 1
    Buffer = 1
    Limit = 1
INVARIANTS
    FrameIntegrity
    SenderOrder
    TableMatchesSockets
PROPERTIES
    SendReturns
\* The sender's guest may stop sending, or all bounds be used up.
CHECK_DEADLOCK FALSE
