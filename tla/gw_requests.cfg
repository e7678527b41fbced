SPECIFICATION GSpec
\* A panic ends the process, and so does the last request.
CHECK_DEADLOCK FALSE
CONSTANTS
    c1 = c1
    c2 = c2
    u1 = u1
    r1 = r1
    r2 = r2
    Conns = {c1, c2}
    Users = {u1}
    NoRoom = none
    Rooms = {none, r1, r2}
    Capacity = 2
    Requests <- Everything
    LoginUser = u1
    NoUser = nobody
    HasLogger = TRUE
    MaxRequests = 3
SYMMETRY Interchangeable
INVARIANTS
    GTypeOK
    EveryRequestAnswered
    AnswerPrecedesOwnPush
    ClientKnowsItsSession
    PanicNeedsAFault
    PushedAtMostOnce
