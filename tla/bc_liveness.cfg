SPECIFICATION BFairSpec
\* A panic ends the process.
CHECK_DEADLOCK FALSE
CONSTANTS
    c1 = c1
    c2 = c2
    u1 = u1
    u2 = u2
    r1 = r1
    push = push
    chat = chat
    all = all
    Conns = {c1}
    Users = {u1, u2}
    NoRoom = none
    Rooms = {none}
    Capacity = 2
    NoUser = nobody
    Posts = {all, chat}
    Message <- WorldAndPrivate
    ChannelSize = 1
    QueueSize = 1
    Workers = 1
    Repliers = {c1}
    HasLogger = TRUE
INVARIANTS
    BTypeOK
    PoolDrained
PROPERTIES
    ImplementsMulticast
    AcceptedIsFinished
    StopReturns
