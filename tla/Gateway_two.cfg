CONSTANTS
    c1 = c1
    c2 = c2
    alice = alice
    news = news
    secret = secret
    sessionA = sessionA
    revokeA = revokeA
    Client = {c1, c2}
    User = {alice}
    Channel = {news, secret, sessionA, revokeA}
    Control = {sessionA, revokeA}
    WellFormed = {news, secret, sessionA, revokeA}
    Requested = {news}
    Payload = {"revoke"}
    RevokePayload = {"revoke"}
    UserOf <- MCUserOf
    SessionChannel <- MCSessionChannel
    UserChannel <- MCUserChannel
    Allowed <- MCAllowed
    MaxConnectionsTotal = 1
    MaxConnectionsPerUser = 1
    SendCap = 1
    Unreliable = {}
    MaxEvictions = 9
    RegisterCap = 1
    UnregisterCap = 1
    SubscribeCap = 1
    UnsubscribeCap = 1
    IncomingCap = 1
    MaxFrames = 1
    MaxPublish = 1
    PingMayFail = TRUE
SPECIFICATION MCSpec
INVARIANTS
    CapsHold
    DetachedIsSignalled
PROPERTY ImplementsHub
