\* No tab is obliged to read: full channels, rings of one, two producers.
SPECIFICATION Spec
CONSTANTS
    Clients = {c1, c2}
    Streams = {s1, s2}
    Users = {}
    NoUser = NoUser
    None = None
    Producers = {p1, p2}
    QueueCap = 1
    MaxBuffer = 1
    MaxEvents = 2
PROPERTIES
    ProducersNeverBlock
    CleanupCompletes
CHECK_DEADLOCK FALSE
