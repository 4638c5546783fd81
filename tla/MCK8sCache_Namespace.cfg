CONSTANTS
    Pod <- Pods3
    Service <- Services3
    Node <- Nodes2
    NoSelector = NoSelector
    FirstCluster <- Cluster1
    Addresses <- SeenAddresses
    AgentIP = "192.168.0.1"
    Changing <- Objects
    MaxChanges = 1
SPECIFICATION Spec
INVARIANT ServiceIsOfPodsNamespace
CHECK_DEADLOCK FALSE
