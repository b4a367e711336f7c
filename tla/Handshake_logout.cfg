CONSTANTS
    tab1 = tab1
    tab2 = tab2
    r1 = r1
    laptop = laptop
    alice = alice
    Replica = {r1}
    Session = {laptop}
    User = {alice}
    Conn = {tab1}
    UserOf <- MCUserOf
    SessionOf <- MCSessionOf
    ReplicaOf <- OneReplica
    MaxPublish = 1
    MaxLosses = 0
    MayLeave = {}
    MayMissPing = {}
    MayBan = FALSE
SPECIFICATION FairSpec
PROPERTY LogoutCloses
