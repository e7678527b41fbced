SPECIFICATION FairSpec
CONSTANTS
    Conns = {c1, c2}
    Users = {u1}
    NoRoom = none
    Rooms = {none}
    MaxConnections = 2
    HeartbeatTimeout = 1
    HasLogger = TRUE
PROPERTIES
    SweepIsComplete
    SilentSessionsReclaimed
    CondemnedReaderEnds
