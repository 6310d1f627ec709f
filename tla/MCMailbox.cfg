\* Two producers, two pushes each, a mailbox of one event: tail-drops,
\* disconnects over the cap, stale tokens and too small buffers all occur.
SPECIFICATION Spec
CONSTANTS
    p1 = p1
    p2 = p2
    Producers <- MCProducers
    Sizes <- MCSizes
    Caps <- MCCaps
    MaxPush = 2
    Limit = 1
INVARIANTS
    TypeOK
    NoLostWakeup
    EventsWithinLimit
    EveryPushAccountedFor
    SenderOrder
PROPERTIES
    ImplementsMailboxSpec
\* A guest that waits without a deadline while nobody sends waits for ever.
CHECK_DEADLOCK FALSE
