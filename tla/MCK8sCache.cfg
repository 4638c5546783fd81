CONSTANTS
    Pod <- Pods3
    Service <- Services3
    Node <- Nodes2
    NoSelector = NoSelector
    FirstCluster <- Cluster1
    Addresses <- SeenAddresses
    AgentIP = "192.168.0.1"
    Changing <- Objects
    MaxChanges = 2
SPECIFICATION FairSpec
INVARIANTS
    TypeOK
    ExactUnlessInMotion
    AttrsAreAboutOneObject
PROPERTY StalenessEnds
CHECK_DEADLOCK FALSE
