SPECIFICATION CrudSpec
CONSTANTS
    Sites = {edge, server}
    Todos = {x, y}
    MaxOps = 3
    MaxRejoins = 2
INVARIANTS
    SitesFollowStream
SYMMETRY Symmetry
CHECK_DEADLOCK FALSE
