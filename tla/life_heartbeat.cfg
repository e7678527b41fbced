SPECIFICATION PSpec
CONSTANTS
    Conns = {c1}
    Users = {u1}
    NoRoom = none
    Rooms = {none}
    MaxConnections = 1
    HeartbeatTimeout = 3
    HasLogger = TRUE
    ReadTimeout = 2
    HeartbeatInterval = 1
PROPERTY ActiveClientKept
CHECK_DEADLOCK FALSE
