CONSTANTS
    tab1 = tab1
    tab2 = tab2
    r1 = r1
    laptop = laptop
    alice = alice
    Replica = {r1}
    Session = {laptop}
    User = {alice}
    Conn = {tab1, tab2}
    UserOf <- MCUserOf
    SessionOf <- MCSessionOf
    ReplicaOf <- OneReplica
    MaxPublish = 2
    MaxLosses = 1
    MayLeave = {tab1, tab2}
    MayMissPing = {tab1}
    MayBan = TRUE
SPECIFICATION FairSpec
INVARIANTS
    HandshakeTypeOK
    SubscribedWhileWanted
    CoveredIsClosing
    FlushedWasPublished
PROPERTY CoveredCloses
