CONSTANTS
    c1 = c1
    c2 = c2
    alice = alice
    news = news
    secret = secret
    sessionA = sessionA
    revokeA = revokeA
    Client = {c1}
    User = {alice}
    Channel = {news, secret, sessionA, revokeA}
    Control = {sessionA, revokeA}
    WellFormed = {news, secret, sessionA, revokeA}
    Requested = {news, secret}
    Payload = {"hello", "revoke"}
    RevokePayload = {"revoke"}
    UserOf <- MCUserOf
    SessionChannel <- MCSessionChannel
    UserChannel <- MCUserChannel
    Allowed <- MCAllowed
    MaxConnectionsTotal = 0
    MaxConnectionsPerUser = 0
    SendCap = 1
    Unreliable = {}
    MaxEvictions = 9
    RegisterCap = 2
    UnregisterCap = 2
    SubscribeCap = 2
    UnsubscribeCap = 2
    IncomingCap = 2
    MaxFrames = 2
    MaxPublish = 3
    PingMayFail = FALSE
SPECIFICATION MCFairSpec
INVARIANTS
    NoAbandonedConnection
    CloseCodesJustified
PROPERTIES
    RevocationCloses
    LostFrameEnds
    BrokenConnectionEnds
