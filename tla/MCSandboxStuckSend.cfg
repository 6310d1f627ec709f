\* A peer that has stopped reading.
SPECIFICATION Spec
CONSTANTS
    supportedTargets <- MCTargets
    ThisTarget <- MCThisTarget
    Base <- MCBase
    Modules <- MCModules
    BuildLines <- MCBuildLines
    CommandLines <- Lives
    Multiplier <- MCMultiplier
    Rooted = {"/h", "/g", "/s", "/no"}
    Existing <- MCHostPaths
    MaxPort = 10
    defaultMemLimit = 8
    defaultMailboxLimit = 2
    defaultMaxFrame = 2
    MaxInt64 = 63
    Word32 = 8
    wasmPageSize = 4
    maxMemoryLimitPages = 4
    GuestCodes <- MCGuestCodes
    DeadlineCode <- MCDeadlineCode
    Answered = {"fd_read", "fd_write"}
PROPERTIES
    TimeoutEndsProcess
\* The process exits, or its guest waits for ever.
CHECK_DEADLOCK FALSE
