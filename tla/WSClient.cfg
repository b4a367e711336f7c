CONSTANTS
    Channel = {"news", "chat"}
    Socket = {"s1", "s2"}
    initialBackoff = 1
    maxBackoff = 30
    MaxFailures = 6
SPECIFICATION FairSpec
INVARIANTS
    TypeOK
    OneConnection
    GatewayKnowsChannels
    BackoffFollowsFailures
    RevokedIsFinal
PROPERTY KeepsTrying
