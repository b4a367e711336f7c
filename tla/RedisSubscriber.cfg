CONSTANTS
    Channel = {"news", "chat"}
    IncomingCap = 2
    BufferCap = 1
    WireCap = 2
    MaxPublish = 3
    MaxLosses = 1
SPECIFICATION FairSpec
INVARIANTS
    TypeOK
    RestoresWhatIsListened
    ServerFollows
PROPERTIES
    InOrder
    HubReturns
    EventuallySubscribed
