CONSTANTS
    c1 = c1
    c2 = c2
    alice = alice
    news = news
    secret = secret
    sessionA = sessionA
    revokeA = revokeA
    Client = {c1}
    User = {alice}
    Channel = {news, secret, sessionA, revokeA}
    Control = {sessionA, revokeA}
    WellFormed = {news, secret, sessionA, revokeA}
    Requested = {}
    Payload = {"revoke"}
    RevokePayload = {"revoke"}
    UserOf <- MCUserOf
    SessionChannel <- MCSessionChannel
    UserChannel <- MCUserChannel
    Allowed <- MCAllowed
    MaxConnectionsTotal = 0
    MaxConnectionsPerUser = 0
    SendCap = 1
    Unreliable = {}
    MaxEvictions = 9
    RegisterCap = 1
    UnregisterCap = 1
    SubscribeCap = 1
    UnsubscribeCap = 1
    IncomingCap = 1
    MaxFrames = 0
    MaxPublish = 0
    PingMayFail = FALSE
SPECIFICATION MCSpec
INVARIANT DepartedIsForgotten
