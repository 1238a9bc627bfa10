\* Two pages on one board and three connections: one page reconnects.
SPECIFICATION Spec
CONSTANTS
    Clients = {c1, c2}
    Streams = {s1, s2, s3}
    None = None
    Docs = {d1}
    DocOf <- OneBoard
    QueueCap = 3
SYMMETRY Symmetry
INVARIANTS
    TypeOK
    NoGhosts
    CalmPagesAgree
CHECK_DEADLOCK FALSE
