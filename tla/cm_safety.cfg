SPECIFICATION Spec
CONSTANTS
    Conns = {c1, c2}
    Users = {u1, u2}
    NoRoom = none
    Rooms = {none, r1, r2}
    MaxConnections = 2
    HeartbeatTimeout = 0
    HasLogger = TRUE
SYMMETRY Symmetry
INVARIANTS
    TypeOK
    DoneIsForgotten
    RoomIndexComplete
    RoomIndexSound
    UserIndexSound
    UserReachableUnlessShared
PROPERTIES
    ImplementsDirectory
