SPECIFICATION FairPSpec
CONSTANTS
    Conns = {c1, c2}
    Users = {u1}
    NoRoom = none
    Rooms = {none}
    MaxConnections = 1
    HeartbeatTimeout = 0
    HasLogger = TRUE
    ReadTimeout = 1
    HeartbeatInterval = 0
INVARIANTS
    CapacityRespected
    StopClosesSessions
PROPERTIES
    IdleReadersEnd
    StopEnds
CHECK_DEADLOCK FALSE
