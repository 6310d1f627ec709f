\* A file built, or built in part, over an older one; all pairs of arguments,
\* and -n, -t, what a guest may be blocked in (-d, -l, -s, -a) together with
\* small, odd, too large and overflowing -m; every failing step, and a deadline
\* in every state of the guest.
SPECIFICATION Spec
CONSTANTS
    supportedTargets <- MCTargets
    ThisTarget <- MCThisTarget
    Base <- MCBase
    Modules <- MCModules
    BuildLines <- MCBuildLines
    CommandLines <- MCCommandLines
    Multiplier <- MCMultiplier
    Rooted = {"/h", "/g", "/s", "/no"}
    Existing <- MCHostPaths
    MaxPort = 10
    defaultMemLimit = 8
    defaultMailboxLimit = 2
    defaultMaxFrame = 2
    MaxInt64 = 63
    Word32 = 8
    wasmPageSize = 4
    maxMemoryLimitPages = 4
    GuestCodes <- MCGuestCodes
    DeadlineCode <- MCDeadlineCode
    Answered = {"send", "fd_read", "fd_write"}
INVARIANTS
    IntactOrRefused
    BuiltAsAsked
    LimitHonoured
    CleanExit
    LeastPrivilege
    NothingOverwritten
    TimeoutCodeHonest
PROPERTIES
    TimeoutEndsProcess
\* The process exits, or its guest waits for ever.
CHECK_DEADLOCK FALSE
