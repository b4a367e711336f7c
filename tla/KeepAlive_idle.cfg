CONSTANTS
    Config <- UsualOnly
    MaxStall = 2
    MaxPending = 2
    OpTimeout = 2
SPECIFICATION FairSpec
CHECK_DEADLOCK FALSE
INVARIANT HealthyStaysOpen
