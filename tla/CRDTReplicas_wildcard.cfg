SPECIFICATION Spec
CONSTANTS
    a = a
    b = b
    Servers <- MCServers
    FirstPeers <- MCFirstPeers
    Todos = {x}
    PeerIDs = {0, 1, 2}
    MaxOps = 3
    MaxRestarts = 1
INVARIANTS
    ReplicasConverge
CHECK_DEADLOCK FALSE
