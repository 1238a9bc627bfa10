\* Two tabs, two streams (either tab can reconnect), a user and the empty user
\* ID, two producers, three events: rings and channels of two can overflow.
SPECIFICATION Spec
CONSTANTS
    Clients = {c1, c2}
    Streams = {s1, s2}
    Users = {u1}
    NoUser = NoUser
    None = None
    Producers = {p1, p2}
    QueueCap = 2
    MaxBuffer = 2
    MaxEvents = 3
SYMMETRY Symmetry
INVARIANTS
    TypeOK
    RightAudience
    AtMostOnce
    ProducerOrder
PROPERTIES
    LiveClientStaysRegistered
    RegistrySpec
CHECK_DEADLOCK FALSE
