SPECIFICATION Spec
CONSTANTS
    a = a
    b = b
    Servers <- MCServers
    FirstPeers <- MCFirstPeers
    Todos = {x, y}
    PeerIDs = {0, 1, 2}
    MaxOps = 3
    MaxRestarts = 1
INVARIANTS
    DropsHeal
CHECK_DEADLOCK FALSE
