------------------------- MODULE ConnectionManager -------------------------
(***************************************************************************)
(* The connection manager of the WebSocket gateway                         *)
(* (src/server/gateway_ws/internal/manager/connection.go) and the          *)
(* goroutines that use it: one reader per accepted connection              *)
(* (server.go, handleConnection) and the heartbeat checker.                *)
(*                                                                         *)
(* Three tables describe who is connected: the sessions by connection, the *)
(* connection of each user and the members of each room.  Every method     *)
(* that writes them holds cm.mutex from its first to its last line and is  *)
(* one atomic action here, except the checker's sweep: it holds the mutex  *)
(* while it reads the sessions' heartbeats, which are NOT protected by it. *)
(*                                                                         *)
(* The lifetime of a connection is the control point of its reader:        *)
(*                                                                         *)
(*   "none" -> "reading" <-> "heartbeat"    (between the two lines of      *)
(*                |                          handleHeartbeat)              *)
(*                +--> "failed" --> "done"                                 *)
(*                                                                         *)
(* Time is the number of time units since a session's last heartbeat       *)
(* ("age"), cut off one unit after the timeout.                            *)
(***************************************************************************)
EXTENDS Naturals, FiniteSets, Functions

CONSTANTS
    Conns,             \* *websocket.Conn values: a connection is never reused
    Users,             \* user ids; handleLogin passes the single id 1
    Rooms,             \* room ids a client may name, the empty one included
    NoRoom,            \* the empty room id ""
    MaxConnections,    \* cm.maxConnections
    HeartbeatTimeout,  \* the timeout StartHeartbeatChecker is given
    HasLogger          \* is cm.Logger set?  FALSE in NewConnectionManager

ASSUME RoomsAssumption == NoRoom \in Rooms
ASSUME LimitsAssumption == MaxConnections \in Nat /\ HeartbeatTimeout \in Nat
ASSUME LoggerAssumption == HasLogger \in BOOLEAN

VARIABLES
    connections,      \* cm.connections: partial function, connection -> session
    userConnections,  \* cm.userConnections: partial function, user -> connection
    roomConnections,  \* cm.roomConnections: partial function, room -> members
    reader,           \* where each connection's reader goroutine is
    closed,           \* connections whose Close has been called
    sweeping,         \* does the checker hold cm.mutex in CleanupDeadConnections?
    unscanned,        \* sessions its first loop has still to look at
    dead,             \* deadConnections
    crashed,          \* has a call on the nil Logger killed the process?
    relogged,         \* history: connections registered again while registered
    shared            \* history: users that logged in on a second connection

tables    == <<connections, userConnections, roomConnections>>
sweepVars == <<sweeping, unscanned, dead>>
history   == <<relogged, shared>>
vars      == <<tables, reader, closed, sweepVars, crashed, history>>

Ages == 0 .. HeartbeatTimeout + 1

Session == [UserID : Users, RoomID : Rooms, age : Ages]

(* Mutant: LastHeartbeat is left at its zero value. *)
NewSessionUnset(u) == [UserID |-> u, RoomID |-> NoRoom, age |-> HeartbeatTimeout + 2]

(* A session as AddConnection creates it: no room, heartbeat just now. *)
NewSession(u) == [UserID |-> u, RoomID |-> NoRoom, age |-> 0]

Registered == DOMAIN connections

-----------------------------------------------------------------------------
(* Tables as partial functions: Go's m[k] = v and delete(m, k).            *)

EmptyTable == [x \in {} |-> x]

Put(f, k, v) == [x \in DOMAIN f \cup {k} |-> IF x = k THEN v ELSE f[x]]

Delete(f, k) == Restrict(f, DOMAIN f \ {k})

(* Mutant: the emptied room is kept. *)
LeaveKeepsRoom(rooms, c, r) ==
    IF r \notin DOMAIN rooms THEN rooms ELSE [rooms EXCEPT ![r] = @ \ {c}]

(* leaveRoomInternal: a room that loses its last member is deleted. *)
Leave(rooms, c, r) ==
    IF r \notin DOMAIN rooms THEN rooms
    ELSE IF rooms[r] \ {c} = {} THEN Delete(rooms, r)
    ELSE [rooms EXCEPT ![r] = @ \ {c}]

(* JoinRoom, "cm.roomConnections[roomID][conn] = true", with the room made. *)
Enter(rooms, c, r) ==
    Put(rooms, r, {c} \cup (IF r \in DOMAIN rooms THEN rooms[r] ELSE {}))

-----------------------------------------------------------------------------
(* The operations.  A writer waits for cm.mutex, which only the sweep      *)
(* holds for more than one action; a crashed process does nothing.         *)

Free == ~sweeping /\ ~crashed

(* cm.Infof and cm.Errorf: a method of a nil interface panics, and no      *)
(* reader goroutine recovers.                                              *)
Log == crashed' = ~HasLogger

(* Is another connection registered for user u? *)
BoundElsewhere(c, u) == \E d \in Registered \ {c} : connections[d].UserID = u

(* Mutant: the limit is tested after the session is counted in. *)
FullTooLate == Cardinality(Registered) > MaxConnections

Full == Cardinality(Registered) >= MaxConnections

(* Mutant: the user's entry is made before the limit is tested. *)
AddConnectionIndexFirst(c, u) ==
    /\ Log
    /\ userConnections' = Put(userConnections, u, c)
    /\ IF Full
       THEN UNCHANGED <<connections, roomConnections, history>>
       ELSE /\ connections' = Put(connections, c, NewSession(u))
            /\ relogged' = IF c \in Registered THEN relogged \cup {c} ELSE relogged
            /\ shared' = IF BoundElsewhere(c, u) THEN shared \cup {u} ELSE shared
            /\ UNCHANGED roomConnections

AddConnection(c, u) ==
    /\ Log
    /\ IF Full
       THEN UNCHANGED <<tables, history>>
       ELSE /\ connections' = Put(connections, c, NewSession(u))
            /\ userConnections' = Put(userConnections, u, c)
            /\ relogged' = IF c \in Registered THEN relogged \cup {c} ELSE relogged
            /\ shared' = IF BoundElsewhere(c, u) THEN shared \cup {u} ELSE shared
            /\ UNCHANGED roomConnections

(* Mutant: the user's entry is left behind. *)
UnregisterKeepsUser(c) ==
    LET s == connections[c]
    IN  /\ connections' = Delete(connections, c)
        /\ UNCHANGED userConnections
        /\ roomConnections' = IF s.RoomID = NoRoom THEN roomConnections
                              ELSE Leave(roomConnections, c, s.RoomID)

(* Mutant: every session of the user goes with the connection's. *)
UnregisterUser(c) ==
    LET s == connections[c]
    IN  /\ connections' =
             Restrict(connections, {d \in Registered : connections[d].UserID # s.UserID})
        /\ userConnections' = Delete(userConnections, s.UserID)
        /\ roomConnections' = IF s.RoomID = NoRoom THEN roomConnections
                              ELSE Leave(roomConnections, c, s.RoomID)

(* What RemoveConnection and removeConnectionInternal do to the tables. *)
Unregister(c) ==
    LET s == connections[c]
    IN  /\ connections' = Delete(connections, c)
        /\ userConnections' = Delete(userConnections, s.UserID)
        /\ roomConnections' = IF s.RoomID = NoRoom THEN roomConnections
                              ELSE Leave(roomConnections, c, s.RoomID)

RemoveConnection(c) ==
    /\ IF c \in Registered
       THEN Unregister(c) /\ Log
       ELSE UNCHANGED <<tables, crashed>>
    /\ UNCHANGED history

(* Mutant: the member is entered before the old room is left, whatever it is. *)
JoinRoomThenLeave(c, r) ==
    /\ IF c \in Registered
       THEN /\ connections' = [connections EXCEPT ![c].RoomID = r]
            /\ roomConnections' =
                 Leave(Enter(roomConnections, c, r), c, connections[c].RoomID)
            /\ Log
            /\ UNCHANGED userConnections
       ELSE UNCHANGED <<tables, crashed>>
    /\ UNCHANGED history

JoinRoom(c, r) ==
    /\ IF c \in Registered
       THEN LET old  == connections[c].RoomID
                left == IF old \notin {NoRoom, r} THEN Leave(roomConnections, c, old)
                        ELSE roomConnections
            IN  /\ connections' = [connections EXCEPT ![c].RoomID = r]
                /\ roomConnections' = Enter(left, c, r)
                /\ Log
                /\ UNCHANGED userConnections
       ELSE UNCHANGED <<tables, crashed>>
    /\ UNCHANGED history

LeaveRoom(c) ==
    /\ IF c \in Registered /\ connections[c].RoomID # NoRoom
       THEN /\ connections' = [connections EXCEPT ![c].RoomID = NoRoom]
            /\ roomConnections' = Leave(roomConnections, c, connections[c].RoomID)
            /\ UNCHANGED userConnections
       ELSE UNCHANGED tables
    /\ UNCHANGED <<crashed, history>>

(* ClientConnection.UpdateHeartbeat; it takes the session's own mutex only, *)
(* and reaches a session that has meanwhile been unregistered to no effect. *)
UpdateHeartbeat(c) ==
    connections' = IF c \in Registered THEN [connections EXCEPT ![c].age = 0]
                   ELSE connections

GetConnection(u) == IF u \in DOMAIN userConnections THEN {userConnections[u]} ELSE {}
GetRoomConnections(r) == IF r \in DOMAIN roomConnections THEN roomConnections[r] ELSE {}

(* Mutant: only sessions silent for longer than the clock can tell are dead. *)
IsDeadNever(c) == connections[c].age > HeartbeatTimeout + 1

(* The test of CleanupDeadConnections: "now.Sub(LastHeartbeat) > timeout". *)
IsDead(c) == connections[c].age > HeartbeatTimeout

-----------------------------------------------------------------------------
(* The readers: handleWebSocket, handleConnection and the handlers that     *)
(* call the manager.  A reader runs one call at a time, so the operations   *)
(* on one connection never overlap each other; those of two connections,    *)
(* and the checker's, do.                                                   *)

At(c, label) == reader[c] = label /\ ~crashed

GoTo(c, label) == reader' = [reader EXCEPT ![c] = label]

(* handleWebSocket: the upgrade succeeded and the reader is started. *)
Accept(c) ==
    /\ At(c, "none")
    /\ GoTo(c, "reading")
    /\ UNCHANGED <<tables, closed, sweepVars, crashed, history>>

(* A handler that calls one locked method of the manager and returns. *)
Handler(c) ==
    /\ At(c, "reading")
    /\ Free
    /\ UNCHANGED <<reader, closed, sweepVars>>

HandleLogin(c, u)    == Handler(c) /\ AddConnection(c, u)
HandleLogout(c)      == Handler(c) /\ RemoveConnection(c)
HandleJoinRoom(c, r) == Handler(c) /\ JoinRoom(c, r)
HandleLeaveRoom(c)   == Handler(c) /\ LeaveRoom(c)

(* handleHeartbeat, first line: GetClientConnection found the session. *)
FindSession(c) ==
    /\ At(c, "reading")
    /\ Free
    /\ c \in Registered
    /\ GoTo(c, "heartbeat")
    /\ UNCHANGED <<tables, closed, sweepVars, crashed, history>>

(* handleHeartbeat, second line, without cm.mutex: a sweep may be under way. *)
RefreshSession(c) ==
    /\ At(c, "heartbeat")
    /\ UpdateHeartbeat(c)
    /\ GoTo(c, "reading")
    /\ UNCHANGED <<userConnections, roomConnections, closed, sweepVars, crashed, history>>

(* ReadMessage returns an error (the network, the read deadline, or the     *)
(* checker closed the connection): break and the deferred conn.Close().     *)
ReadFails(c) ==
    /\ At(c, "reading")
    /\ GoTo(c, "failed")
    /\ closed' = closed \cup {c}
    /\ UNCHANGED <<tables, sweepVars, crashed, history>>

(* A close frame: the close handler unregisters the connection before       *)
(* ReadMessage returns the error that ends the loop.                        *)
CloseFrame(c) ==
    /\ At(c, "reading")
    /\ Free
    /\ RemoveConnection(c)
    /\ GoTo(c, "failed")
    /\ closed' = closed \cup {c}
    /\ UNCHANGED sweepVars

(* Mutant: the reader ends without the deferred RemoveConnection. *)
ReaderExitKeepsSession(c) ==
    /\ At(c, "failed")
    /\ Free
    /\ GoTo(c, "done")
    /\ UNCHANGED <<tables, crashed, closed, sweepVars, history>>

(* The deferred RemoveConnection of handleConnection. *)
ReaderExit(c) ==
    /\ At(c, "failed")
    /\ Free
    /\ RemoveConnection(c)
    /\ GoTo(c, "done")
    /\ UNCHANGED <<closed, sweepVars>>

-----------------------------------------------------------------------------
(* The heartbeat checker: CleanupDeadConnections on every tick of its       *)
(* ticker.  Go iterates over a map in any order.                            *)

(* Mutant: the rooms' members are looked at instead of the sessions. *)
SweepBeginInRooms ==
    /\ Free
    /\ sweeping' = TRUE
    /\ unscanned' = {c \in Registered : connections[c].RoomID # NoRoom}
    /\ UNCHANGED <<tables, reader, closed, dead, crashed, history>>

SweepBegin ==
    /\ Free
    /\ sweeping' = TRUE
    /\ unscanned' = Registered
    /\ UNCHANGED <<tables, reader, closed, dead, crashed, history>>

(* One round of the first loop; LastHeartbeat is read without its mutex. *)
SweepScan(c) ==
    /\ sweeping /\ ~crashed
    /\ c \in unscanned
    /\ unscanned' = unscanned \ {c}
    /\ dead' = IF IsDead(c) THEN dead \cup {c} ELSE dead
    /\ UNCHANGED <<tables, reader, closed, sweeping, crashed, history>>

(* Mutant: the connection is unregistered but not closed. *)
SweepRemoveLeavesOpen(c) ==
    /\ sweeping /\ unscanned = {} /\ ~crashed
    /\ c \in dead \cap Registered
    /\ Unregister(c)
    /\ UNCHANGED <<reader, closed, sweepVars, crashed, history>>

(* One round of the second loop: removeConnectionInternal. *)
SweepRemove(c) ==
    /\ sweeping /\ unscanned = {} /\ ~crashed
    /\ c \in dead \cap Registered
    /\ Unregister(c)
    /\ closed' = closed \cup {c}
    /\ UNCHANGED <<reader, sweepVars, crashed, history>>

(* The final Infof, when anything was removed, and the deferred Unlock. *)
SweepEnd ==
    /\ sweeping /\ unscanned = {} /\ ~crashed
    /\ dead \cap Registered = {}
    /\ IF dead # {} THEN Log ELSE UNCHANGED crashed
    /\ sweeping' = FALSE
    /\ dead' = {}
    /\ UNCHANGED <<tables, reader, closed, unscanned, history>>

(* Time passes, but not within a sweep, which lasts microseconds. *)
Tick ==
    /\ Free
    /\ connections' = [c \in Registered |->
          [connections[c] EXCEPT !.age = IF @ > HeartbeatTimeout THEN @ ELSE @ + 1]]
    /\ UNCHANGED <<userConnections, roomConnections, reader, closed, sweepVars, crashed, history>>

-----------------------------------------------------------------------------
Init ==
    /\ connections = EmptyTable
    /\ userConnections = EmptyTable
    /\ roomConnections = EmptyTable
    /\ reader = [c \in Conns |-> "none"]
    /\ closed = {}
    /\ sweeping = FALSE
    /\ unscanned = {}
    /\ dead = {}
    /\ crashed = FALSE
    /\ relogged = {}
    /\ shared = {}

Reader(c) ==
    \/ Accept(c)
    \/ \E u \in Users : HandleLogin(c, u)
    \/ HandleLogout(c)
    \/ \E r \in Rooms : HandleJoinRoom(c, r)
    \/ HandleLeaveRoom(c)
    \/ FindSession(c)
    \/ RefreshSession(c)
    \/ ReadFails(c)
    \/ CloseFrame(c)
    \/ ReaderExit(c)

Checker ==
    \/ SweepBegin
    \/ \E c \in Conns : SweepScan(c) \/ SweepRemove(c)
    \/ SweepEnd

Next == (\E c \in Conns : Reader(c)) \/ Checker \/ Tick

Spec == Init /\ [][Next]_vars

(* The checker's goroutine runs; time passes, however often the checker     *)
(* sweeps in between (strong fairness); a reader that waits for             *)
(* cm.mutex gets it in the end (Go's mutex hands itself to a starving       *)
(* waiter, hence strong fairness); and on a closed connection the reader    *)
(* runs out of buffered frames and gets an error.  Nothing is assumed of    *)
(* the clients: they need not send, nor close.                              *)
Fairness ==
    /\ WF_vars(Checker)
    /\ SF_vars(Tick)
    /\ \A c \in Conns :
        /\ WF_vars(RefreshSession(c))
        /\ SF_vars(c \in closed /\ ReadFails(c))
        /\ SF_vars(ReaderExit(c))

FairSpec == Spec /\ Fairness

-----------------------------------------------------------------------------
(* Properties *)

(* The tables are partial functions. *)
TablesOK ==
    /\ Registered \subseteq Conns
    /\ connections \in [Registered -> Session]
    /\ DOMAIN userConnections \subseteq Users
    /\ userConnections \in [DOMAIN userConnections -> Conns]
    /\ DOMAIN roomConnections \subseteq Rooms
    /\ roomConnections \in [DOMAIN roomConnections -> SUBSET Conns]

(* Every variable has its type. *)
TypeOK ==
    /\ TablesOK
    /\ reader \in [Conns -> {"none", "reading", "heartbeat", "failed", "done"}]
    /\ closed \subseteq Conns
    /\ sweeping \in BOOLEAN
    /\ unscanned \subseteq Conns
    /\ dead \subseteq Conns
    /\ crashed \in BOOLEAN
    /\ relogged \subseteq Conns
    /\ shared \subseteq Users

(* The manager never holds more sessions than maxConnections, whatever the  *)
(* order in which clients connect, log in again, leave and are swept.       *)
CapacityRespected == Cardinality(Registered) <= MaxConnections

(* Every session that is in a room is found by a broadcast to that room     *)
(* (GetRoomConnections), after any joins, leaves, re-logins and sweeps.     *)
RoomIndexComplete ==
    \A c \in Registered :
        connections[c].RoomID # NoRoom => c \in GetRoomConnections(connections[c].RoomID)

(* A room exists only while it has members, so GetRoomCount does not grow   *)
(* without bound, and a member is a live session that is in that room.  The *)
(* only ways to leave a member behind are a second AddConnection, which     *)
(* forgets the session's room, and a join of the room with the empty name.  *)
RoomIndexSound ==
    \A r \in DOMAIN roomConnections :
        /\ roomConnections[r] # {}
        /\ r # NoRoom => \A c \in roomConnections[r] \ relogged :
              c \in Registered /\ connections[c].RoomID = r

(* A user's entry leads to a live session of that user, never to another    *)
(* user's connection: a private message cannot reach someone else, unless   *)
(* the connection it leads to was registered twice.                         *)
UserIndexSound ==
    \A u \in DOMAIN userConnections :
        LET c == userConnections[u]
        IN  c \notin relogged => c \in Registered /\ connections[c].UserID = u

(* A logged-in user can be reached by id (GetConnection), as long as no     *)
(* second connection ever registered for the same user while it was there.  *)
UserReachableUnlessShared ==
    \A c \in Registered :
        LET u == connections[c].UserID
        IN  u \notin shared => GetConnection(u) = {c}

(* The manager is a directory of sessions: every step of it, through all    *)
(* its tables, starts, moves or ends one session or changes none, and its   *)
(* lookups return what those of the directory do, in the same step.         *)
Directory == INSTANCE SessionDirectory WITH
    Capacity <- MaxConnections,
    sessions <- [c \in Registered |->
                   [user |-> connections[c].UserID, room |-> connections[c].RoomID]],
    contact  <- [u \in Users |-> GetConnection(u)],
    roster   <- [r \in Rooms |-> GetRoomConnections(r)]

ImplementsDirectory == Directory!DirectorySpec

(* A connection whose reader has ended is forgotten by all three tables, so *)
(* that nothing is ever sent to it and its memory is released, with the     *)
(* exceptions of RoomIndexSound and UserIndexSound.                         *)
DoneIsForgotten ==
    \A c \in Conns : reader[c] = "done" =>
        /\ c \notin Registered
        /\ c \notin relogged =>
              /\ \A u \in Users : c \notin GetConnection(u)
              /\ \A r \in Rooms \ {NoRoom} : c \notin GetRoomConnections(r)

(* When a sweep gives up the mutex, no session silent past the timeout is   *)
(* left: a heartbeat may save one, nothing else.                            *)
SweepIsComplete ==
    [][sweeping /\ ~sweeping' => \A c \in Registered : ~IsDead(c)]_vars

(* A client that falls silent does not keep its place: over and over again, *)
(* its connection is unregistered or has just sent a heartbeat.             *)
SilentSessionsReclaimed ==
    \A c \in Conns : []<>(c \notin Registered \/ connections[c].age = 0)

(* A connection the checker condemns is not only unregistered: its reader   *)
(* goroutine ends, even if the client never closes its side.                *)
CondemnedReaderEnds == \A c \in Conns : c \in dead ~> reader[c] = "done"

=============================================================================
