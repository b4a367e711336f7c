CONSTANTS
    Config <- MCConfig
    MaxStall = 2
    MaxPending = 2
    OpTimeout = 2
SPECIFICATION FairSpec
CHECK_DEADLOCK FALSE
INVARIANTS
    KeepAliveTypeOK
    DeadIsNoticed
    CutOnlyIfQuiet
PROPERTY LifetimeEnds
