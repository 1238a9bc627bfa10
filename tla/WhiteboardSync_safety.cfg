\* Two servers, two shapes, two ops posted anywhere at any time, one crash.
SPECIFICATION Spec
CONSTANTS
    Servers = {a, b}
    Shapes = {x, y}
    Requests = {r1, r2}
    PeerIDs = {1, 2, 3}
    None = None
    MaxCrashes = 1
SYMMETRY Symmetry
INVARIANTS
    TypeOK
    Convergence
    CalmAddsSurvive
PROPERTIES
    NoWriteUndone
CHECK_DEADLOCK FALSE
