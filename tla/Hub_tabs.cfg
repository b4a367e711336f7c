CONSTANTS
    c1 = c1
    c2 = c2
    alice = alice
    news = news
    sessionA = sessionA
    sessionB = sessionB
    revokeA = revokeA
    Client = {c1, c2}
    User = {alice}
    Channel = {news, sessionA, sessionB, revokeA}
    Control = {sessionA, sessionB, revokeA}
    WellFormed = {news, sessionA, sessionB, revokeA}
    Requested = {news, sessionA, sessionB}
    Payload = {"revoke"}
    RevokePayload = {"revoke"}
    UserOf <- MCUserOf
    SessionChannel <- MCSessionChannel
    UserChannel <- MCUserChannel
    Allowed <- MCAllowed
    MaxConnectionsTotal = 0
    MaxConnectionsPerUser = 0
    SendCap = 1
    Unreliable = {news}
    MaxEvictions = 1
SYMMETRY Tabs
SPECIFICATION HistorySpec
INVARIANTS
    TypeOK
    AllowListHolds
    IndexesAgree
    NoSendOnClosed
    RedisFollowsChannels
    EvictedIsSignalled
PROPERTY HubImplementsPubSub
