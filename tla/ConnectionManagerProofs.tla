---------------------- MODULE ConnectionManagerProofs ----------------------
(***************************************************************************)
(* Machine-checked proofs about ConnectionManager, for every number of     *)
(* connections, users and rooms, every limit and timeout, and a logger     *)
(* that is set or not.                                                     *)
(***************************************************************************)
EXTENDS ConnectionManager, FiniteSetTheorems, TLAPS

-----------------------------------------------------------------------------
(* Tables *)

(* Delete drops one key and keeps the value of every other. *)
LEMMA DeleteTable ==
    ASSUME NEW T, NEW f, f \in [DOMAIN f -> T], NEW k
    PROVE  /\ Delete(f, k) \in [DOMAIN f \ {k} -> T]
           /\ DOMAIN Delete(f, k) = DOMAIN f \ {k}
           /\ \A x \in DOMAIN f \ {k} : Delete(f, k)[x] = f[x]
BY DEF Delete, Restrict

(* Leave takes c out of room r and out of no other, invents no room and, if *)
(* no room was empty before, leaves none empty.                             *)
LEMMA LeaveTable ==
    ASSUME NEW f, f \in [DOMAIN f -> SUBSET Conns], NEW c, NEW r
    PROVE  LET g == Leave(f, c, r)
           IN  /\ g \in [DOMAIN g -> SUBSET Conns]
               /\ DOMAIN g \subseteq DOMAIN f
               /\ r \in DOMAIN g => g[r] = f[r] \ {c}
               /\ \A x \in DOMAIN f : (x # r \/ f[x] \ {c} # {}) => x \in DOMAIN g
               /\ \A x \in DOMAIN g : x # r => g[x] = f[x]
               /\ (\A x \in DOMAIN f : f[x] # {}) => \A x \in DOMAIN g : g[x] # {}
<1>1. CASE r \notin DOMAIN f
  BY <1>1 DEF Leave
<1>2. CASE r \in DOMAIN f /\ f[r] \ {c} = {}
  <2>1. Leave(f, c, r) = Delete(f, r)
    BY <1>2 DEF Leave
  <2>2. /\ Delete(f, r) \in [DOMAIN f \ {r} -> SUBSET Conns]
        /\ DOMAIN Delete(f, r) = DOMAIN f \ {r}
        /\ \A x \in DOMAIN f \ {r} : Delete(f, r)[x] = f[x]
    BY DeleteTable
  <2>3. QED
    BY <1>2, <2>1, <2>2
<1>3. CASE r \in DOMAIN f /\ f[r] \ {c} # {}
  BY <1>3 DEF Leave
<1>4. QED
  BY <1>1, <1>2, <1>3

-----------------------------------------------------------------------------
(* Types: each operation keeps the tables well-formed *)

(* A session AddConnection creates is a session. *)
LEMMA NewSessionType == ASSUME NEW u \in Users PROVE NewSession(u) \in Session
BY RoomsAssumption, LimitsAssumption DEF NewSession, Session, Ages

(* Logging leaves crashed a Boolean, whichever logger is there. *)
LEMMA LogType == Log => crashed' \in BOOLEAN
BY LoggerAssumption DEF Log

(* Registering a connection keeps the tables partial functions. *)
LEMMA AddConnectionType ==
    ASSUME TablesOK, NEW c \in Conns, NEW u \in Users, AddConnection(c, u)
    PROVE  TablesOK'
<1>1. CASE Full
  BY <1>1 DEF AddConnection, TablesOK, Registered, tables
<1>2. CASE ~Full
  <2>1. connections' = Put(connections, c, NewSession(u))
    BY <1>2 DEF AddConnection
  <2>2. /\ connections' \in [Registered \cup {c} -> Session]
        /\ DOMAIN connections' = Registered \cup {c}
    BY <2>1, NewSessionType DEF TablesOK, Registered, Put
  <2>3. userConnections' = Put(userConnections, u, c)
    BY <1>2 DEF AddConnection
  <2>4. /\ userConnections' \in [DOMAIN userConnections \cup {u} -> Conns]
        /\ DOMAIN userConnections' = DOMAIN userConnections \cup {u}
    BY <2>3 DEF TablesOK, Put
  <2>5. UNCHANGED roomConnections
    BY <1>2 DEF AddConnection
  <2>6. QED
    BY <2>2, <2>4, <2>5 DEF TablesOK, Registered
<1>3. QED
  BY <1>1, <1>2

(* Unregistering a connection keeps the tables partial functions. *)
LEMMA UnregisterType ==
    ASSUME TablesOK, NEW c \in Registered, Unregister(c)
    PROVE  TablesOK'
<1>1. /\ connections' \in [Registered \ {c} -> Session]
      /\ DOMAIN connections' = Registered \ {c}
  BY DeleteTable DEF Unregister, TablesOK, Registered
<1>2. /\ userConnections' \in [DOMAIN userConnections' -> Conns]
      /\ DOMAIN userConnections' \subseteq DOMAIN userConnections
  BY DEF Unregister, TablesOK, Delete, Restrict
<1>3. /\ roomConnections' \in [DOMAIN roomConnections' -> SUBSET Conns]
      /\ DOMAIN roomConnections' \subseteq DOMAIN roomConnections
  <2>1. CASE roomConnections' = roomConnections
    BY <2>1 DEF TablesOK
  <2>2. CASE roomConnections' = Leave(roomConnections, c, connections[c].RoomID)
    BY <2>2, LeaveTable DEF TablesOK
  <2>3. QED
    BY <2>1, <2>2 DEF Unregister
<1>4. QED
  BY <1>1, <1>2, <1>3 DEF TablesOK, Registered

(* Removing a connection, registered or not, keeps the types. *)
LEMMA RemoveConnectionType ==
    ASSUME TablesOK, crashed \in BOOLEAN, NEW c \in Conns, RemoveConnection(c)
    PROVE  TablesOK' /\ crashed' \in BOOLEAN
<1>1. CASE c \in Registered
  BY <1>1, UnregisterType, LogType DEF RemoveConnection
<1>2. CASE c \notin Registered
  BY <1>2 DEF RemoveConnection, TablesOK, Registered, tables
<1>3. QED
  BY <1>1, <1>2

(* Joining a room keeps the types. *)
LEMMA JoinRoomType ==
    ASSUME TablesOK, crashed \in BOOLEAN, NEW c \in Conns, NEW r \in Rooms, JoinRoom(c, r)
    PROVE  TablesOK' /\ crashed' \in BOOLEAN
<1>1. CASE c \notin Registered
  BY <1>1 DEF JoinRoom, TablesOK, Registered, tables
<1>2. CASE c \in Registered
  <2> DEFINE old  == connections[c].RoomID
             left == IF old \notin {NoRoom, r} THEN Leave(roomConnections, c, old)
                     ELSE roomConnections
  <2>1. /\ connections' = [connections EXCEPT ![c].RoomID = r]
        /\ roomConnections' = Enter(left, c, r)
        /\ Log
        /\ UNCHANGED userConnections
    BY <1>2 DEF JoinRoom
  <2>2. connections' \in [Registered -> Session] /\ DOMAIN connections' = Registered
    BY <1>2, <2>1 DEF TablesOK, Registered, Session
  <2>3. left \in [DOMAIN left -> SUBSET Conns] /\ DOMAIN left \subseteq Rooms
    BY LeaveTable DEF TablesOK
  <2> HIDE DEF left
  <2>4. /\ roomConnections' \in [DOMAIN roomConnections' -> SUBSET Conns]
        /\ DOMAIN roomConnections' \subseteq Rooms
    BY <2>1, <2>3 DEF Enter, Put
  <2>5. QED
    BY <2>1, <2>2, <2>4, LogType DEF TablesOK, Registered
<1>3. QED
  BY <1>1, <1>2

(* Leaving a room keeps the tables partial functions. *)
LEMMA LeaveRoomType ==
    ASSUME TablesOK, NEW c \in Conns, LeaveRoom(c)
    PROVE  TablesOK'
<1>1. CASE UNCHANGED tables
  BY <1>1 DEF TablesOK, Registered, tables
<1>2. CASE c \in Registered /\ connections[c].RoomID # NoRoom
  <2>1. /\ connections' = [connections EXCEPT ![c].RoomID = NoRoom]
        /\ roomConnections' = Leave(roomConnections, c, connections[c].RoomID)
        /\ UNCHANGED userConnections
    BY <1>2 DEF LeaveRoom
  <2>2. connections' \in [Registered -> Session] /\ DOMAIN connections' = Registered
    BY <1>2, <2>1, RoomsAssumption DEF TablesOK, Registered, Session
  <2>3. /\ roomConnections' \in [DOMAIN roomConnections' -> SUBSET Conns]
        /\ DOMAIN roomConnections' \subseteq Rooms
    BY <2>1, LeaveTable DEF TablesOK
  <2>4. QED
    BY <2>1, <2>2, <2>3 DEF TablesOK, Registered
<1>3. QED
  BY <1>1, <1>2 DEF LeaveRoom

(* What an operation does to the history keeps its type. *)
LEMMA AddConnectionHistory ==
    ASSUME relogged \subseteq Conns, shared \subseteq Users, NEW c \in Conns,
           NEW u \in Users, AddConnection(c, u)
    PROVE  (relogged \subseteq Conns)' /\ (shared \subseteq Users)'
BY DEF AddConnection, history

(* Moving one reader keeps the type of the control points. *)
LEMMA GoToType ==
    ASSUME NEW L, reader \in [Conns -> L], NEW c, NEW l \in L, GoTo(c, l)
    PROVE  reader' \in [Conns -> L]
BY DEF GoTo

LEMMA TypeInit == Init => TypeOK
BY DEF Init, TypeOK, TablesOK, Registered, EmptyTable, Session

(* Every step keeps the types. *)
LEMMA TypeStep == TypeOK /\ [Next]_vars => TypeOK'
<1> SUFFICES ASSUME TypeOK, [Next]_vars
             PROVE  TypeOK'
  OBVIOUS
<1> DEFINE Labels == {"none", "reading", "heartbeat", "failed", "done"}
<1>0. reader \in [Conns -> Labels] /\ TablesOK /\ crashed \in BOOLEAN
  BY DEF TypeOK
<1>1. ASSUME NEW c \in Conns, Accept(c) PROVE TypeOK'
  <2>1. reader' \in [Conns -> Labels]
    BY <1>0, <1>1, GoToType DEF Accept
  <2>2. QED
    BY <1>1, <2>1 DEF Accept, TypeOK, TablesOK, Registered, tables, sweepVars, history
<1>2. ASSUME NEW c \in Conns, NEW u \in Users, HandleLogin(c, u) PROVE TypeOK'
  <2>1. AddConnection(c, u) /\ UNCHANGED <<reader, closed, sweepVars>>
    BY <1>2 DEF HandleLogin, Handler
  <2>2. TablesOK' /\ crashed' \in BOOLEAN
    BY <1>0, <2>1, AddConnectionType, LogType DEF AddConnection
  <2>3. (relogged \subseteq Conns)' /\ (shared \subseteq Users)'
    BY <2>1, AddConnectionHistory DEF TypeOK
  <2>4. QED
    BY <2>1, <2>2, <2>3 DEF TypeOK, sweepVars
<1>3. ASSUME NEW c \in Conns, HandleLogout(c) PROVE TypeOK'
  <2>1. RemoveConnection(c) /\ UNCHANGED <<reader, closed, sweepVars>>
    BY <1>3 DEF HandleLogout, Handler
  <2>2. QED
    BY <1>0, <2>1, RemoveConnectionType DEF TypeOK, sweepVars, history, RemoveConnection
<1>4. ASSUME NEW c \in Conns, NEW r \in Rooms, HandleJoinRoom(c, r) PROVE TypeOK'
  <2>1. JoinRoom(c, r) /\ UNCHANGED <<reader, closed, sweepVars>>
    BY <1>4 DEF HandleJoinRoom, Handler
  <2>2. QED
    BY <1>0, <2>1, JoinRoomType DEF TypeOK, sweepVars, history, JoinRoom
<1>5. ASSUME NEW c \in Conns, HandleLeaveRoom(c) PROVE TypeOK'
  <2>1. LeaveRoom(c) /\ UNCHANGED <<reader, closed, sweepVars>>
    BY <1>5 DEF HandleLeaveRoom, Handler
  <2>2. QED
    BY <1>0, <2>1, LeaveRoomType DEF TypeOK, sweepVars, history, LeaveRoom
<1>6. ASSUME NEW c \in Conns, FindSession(c) PROVE TypeOK'
  <2>1. reader' \in [Conns -> Labels]
    BY <1>0, <1>6, GoToType DEF FindSession
  <2>2. QED
    BY <1>6, <2>1 DEF FindSession, TypeOK, TablesOK, Registered, tables, sweepVars, history
<1>7. ASSUME NEW c \in Conns, RefreshSession(c) PROVE TypeOK'
  <2>1. reader' \in [Conns -> Labels]
    BY <1>0, <1>7, GoToType DEF RefreshSession
  <2>2. connections' \in [Registered -> Session]
    BY <1>0, <1>7, LimitsAssumption
    DEF RefreshSession, UpdateHeartbeat, TablesOK, Registered, Session, Ages
  <2>3. QED
    BY <1>7, <2>1, <2>2 DEF RefreshSession, TypeOK, TablesOK, Registered, sweepVars, history
<1>8. ASSUME NEW c \in Conns, ReadFails(c) PROVE TypeOK'
  <2>1. reader' \in [Conns -> Labels]
    BY <1>0, <1>8, GoToType DEF ReadFails
  <2>2. QED
    BY <1>8, <2>1 DEF ReadFails, TypeOK, TablesOK, Registered, tables, sweepVars, history
<1>9. ASSUME NEW c \in Conns, CloseFrame(c) PROVE TypeOK'
  <2>1. reader' \in [Conns -> Labels]
    BY <1>0, <1>9, GoToType DEF CloseFrame
  <2>2. TablesOK' /\ crashed' \in BOOLEAN /\ UNCHANGED history
    BY <1>0, <1>9, RemoveConnectionType DEF CloseFrame, RemoveConnection
  <2>3. QED
    BY <1>9, <2>1, <2>2 DEF CloseFrame, TypeOK, sweepVars, history
<1>10. ASSUME NEW c \in Conns, ReaderExit(c) PROVE TypeOK'
  <2>1. reader' \in [Conns -> Labels]
    BY <1>0, <1>10, GoToType DEF ReaderExit
  <2>2. TablesOK' /\ crashed' \in BOOLEAN /\ UNCHANGED history
    BY <1>0, <1>10, RemoveConnectionType DEF ReaderExit, RemoveConnection
  <2>3. QED
    BY <1>10, <2>1, <2>2 DEF ReaderExit, TypeOK, sweepVars, history
<1>11. CASE SweepBegin
  BY <1>11 DEF SweepBegin, TypeOK, TablesOK, Registered, tables, history
<1>12. ASSUME NEW c \in Conns, SweepScan(c) PROVE TypeOK'
  BY <1>12 DEF SweepScan, TypeOK, TablesOK, Registered, tables, history
<1>13. ASSUME NEW c \in Conns, SweepRemove(c) PROVE TypeOK'
  <2>1. TablesOK'
    BY <1>0, <1>13, UnregisterType DEF SweepRemove
  <2>2. QED
    BY <1>13, <2>1 DEF SweepRemove, TypeOK, sweepVars, history
<1>14. CASE SweepEnd
  <2>1. crashed' \in BOOLEAN
    BY <1>0, <1>14, LogType DEF SweepEnd
  <2>2. QED
    BY <1>14, <2>1 DEF SweepEnd, TypeOK, TablesOK, Registered, tables, history
<1>15. CASE Tick
  <2>1. connections' \in [Registered -> Session]
    BY <1>0, <1>15, LimitsAssumption DEF Tick, TablesOK, Registered, Session, Ages
  <2>2. QED
    BY <1>15, <2>1 DEF Tick, TypeOK, TablesOK, Registered, sweepVars, history
<1>16. CASE UNCHANGED vars
  BY <1>16 DEF vars, tables, sweepVars, history, TypeOK, TablesOK, Registered
<1>17. QED
  BY <1>1, <1>2, <1>3, <1>4, <1>5, <1>6, <1>7, <1>8, <1>9, <1>10, <1>11, <1>12,
     <1>13, <1>14, <1>15, <1>16 DEF Next, Reader, Checker

(* Every variable has its type in every reachable state. *)
THEOREM TypeCorrect == Spec => []TypeOK
BY TypeInit, TypeStep, PTL DEF Spec

-----------------------------------------------------------------------------
(* The indexes agree with the sessions.  The four conjuncts are inductive   *)
(* together: a user's entry is deleted by the user's id alone, so that      *)
(* UserReachableUnlessShared needs itself for the other sessions of the     *)
(* user, and RoomIndexSound says which rooms a leaving member is in.        *)
IndexOK ==
    /\ RoomIndexComplete
    /\ RoomIndexSound
    /\ UserIndexSound
    /\ UserReachableUnlessShared

(* A step that only moves heartbeats keeps the indexes right. *)
LEMMA HeartbeatIndex ==
    ASSUME IndexOK, Registered' = Registered,
           \A c \in Registered : /\ connections'[c].UserID = connections[c].UserID
                                 /\ connections'[c].RoomID = connections[c].RoomID,
           UNCHANGED <<userConnections, roomConnections, history>>
    PROVE  IndexOK'
BY DEF IndexOK, RoomIndexComplete, RoomIndexSound, UserIndexSound,
       UserReachableUnlessShared, GetConnection, GetRoomConnections, history

(* Registering a connection keeps the indexes right: it may leave a room    *)
(* membership behind only for a connection that becomes "relogged", and     *)
(* take over a user's entry only for a user that becomes "shared".          *)
LEMMA AddConnectionIndex ==
    ASSUME TablesOK, IndexOK, NEW c \in Conns, NEW u \in Users, AddConnection(c, u)
    PROVE  IndexOK'
<1>1. CASE Full
  BY <1>1, HeartbeatIndex DEF AddConnection, Registered, tables, history
<1>2. CASE ~Full
  <2>1. /\ connections' = Put(connections, c, NewSession(u))
        /\ userConnections' = Put(userConnections, u, c)
        /\ relogged' = IF c \in Registered THEN relogged \cup {c} ELSE relogged
        /\ shared' = IF BoundElsewhere(c, u) THEN shared \cup {u} ELSE shared
        /\ UNCHANGED roomConnections
    BY <1>2 DEF AddConnection
  <2>2. /\ Registered' = Registered \cup {c}
        /\ connections'[c] = NewSession(u)
        /\ \A d \in Registered \ {c} : connections'[d] = connections[d]
    BY <2>1 DEF Put, Registered
  <2>3. /\ DOMAIN userConnections' = DOMAIN userConnections \cup {u}
        /\ userConnections'[u] = c
        /\ \A v \in DOMAIN userConnections \ {u} : userConnections'[v] = userConnections[v]
    BY <2>1 DEF Put
  <2>4. NewSession(u).UserID = u /\ NewSession(u).RoomID = NoRoom
    BY DEF NewSession
  <2>5. RoomIndexComplete'
    BY <2>1, <2>2, <2>4 DEF IndexOK, RoomIndexComplete, GetRoomConnections
  <2>6. RoomIndexSound'
    BY <2>1, <2>2, <2>4 DEF IndexOK, RoomIndexSound, TablesOK
  <2>7. UserIndexSound'
    BY <2>1, <2>2, <2>3, <2>4 DEF IndexOK, UserIndexSound, TablesOK
  <2>8. UserReachableUnlessShared'
    <3> SUFFICES ASSUME NEW d \in Registered', connections'[d].UserID \notin shared'
                 PROVE  LET v == connections'[d].UserID
                        IN  v \in DOMAIN userConnections' /\ userConnections'[v] = d
      BY DEF UserReachableUnlessShared, GetConnection
    <3>1. CASE d = c
      BY <3>1, <2>2, <2>3, <2>4
    <3>2. CASE d # c
      <4>1. d \in Registered /\ connections'[d] = connections[d]
        BY <3>2, <2>2
      <4>2. connections[d].UserID # u
        BY <3>2, <4>1, <2>1 DEF BoundElsewhere
      <4>3. GetConnection(connections[d].UserID) = {d}
        BY <4>1, <2>1 DEF IndexOK, UserReachableUnlessShared
      <4>4. /\ connections[d].UserID \in DOMAIN userConnections
            /\ userConnections[connections[d].UserID] = d
        BY <4>3 DEF GetConnection
      <4>5. QED
        BY <4>1, <4>2, <4>4, <2>3
    <3>3. QED
      BY <3>1, <3>2
  <2>9. QED
    BY <2>5, <2>6, <2>7, <2>8 DEF IndexOK
<1>3. QED
  BY <1>1, <1>2

(* Unregistering a connection keeps the indexes right for all others. *)
LEMMA UnregisterIndex ==
    ASSUME TablesOK, IndexOK, NEW c \in Registered, Unregister(c), UNCHANGED history
    PROVE  IndexOK'
<1> DEFINE s == connections[c]
<1>1. /\ Registered' = Registered \ {c}
      /\ \A d \in Registered \ {c} : connections'[d] = connections[d]
  BY DEF Unregister, Delete, Restrict, Registered
<1>2. /\ DOMAIN userConnections' = DOMAIN userConnections \ {s.UserID}
      /\ \A v \in DOMAIN userConnections' : userConnections'[v] = userConnections[v]
  BY DEF Unregister, Delete, Restrict
<1>3. relogged' = relogged /\ shared' = shared
  BY DEF history
<1>4. /\ \A r \in DOMAIN roomConnections :
            roomConnections[r] \ {c} # {} => r \in DOMAIN roomConnections'
      /\ \A r \in DOMAIN roomConnections' :
            /\ r \in DOMAIN roomConnections
            /\ roomConnections'[r] # {}
            /\ roomConnections'[r] \subseteq roomConnections[r]
            /\ roomConnections[r] \ {c} \subseteq roomConnections'[r]
            /\ r = s.RoomID /\ r # NoRoom => c \notin roomConnections'[r]
  <2>1. \A r \in DOMAIN roomConnections : roomConnections[r] # {}
    BY DEF IndexOK, RoomIndexSound
  <2>2. roomConnections \in [DOMAIN roomConnections -> SUBSET Conns]
    BY DEF TablesOK
  <2>3. CASE s.RoomID = NoRoom
    BY <2>1, <2>3 DEF Unregister
  <2>4. CASE s.RoomID # NoRoom
    <3>1. roomConnections' = Leave(roomConnections, c, s.RoomID)
      BY <2>4 DEF Unregister
    <3>2. /\ DOMAIN roomConnections' \subseteq DOMAIN roomConnections
          /\ s.RoomID \in DOMAIN roomConnections' =>
                roomConnections'[s.RoomID] = roomConnections[s.RoomID] \ {c}
          /\ \A x \in DOMAIN roomConnections :
                (x # s.RoomID \/ roomConnections[x] \ {c} # {}) => x \in DOMAIN roomConnections'
          /\ \A x \in DOMAIN roomConnections' :
                x # s.RoomID => roomConnections'[x] = roomConnections[x]
          /\ \A x \in DOMAIN roomConnections' : roomConnections'[x] # {}
      BY <2>1, <3>1, <2>2 DEF Leave, Delete, Restrict
    <3>3. QED
      BY <3>2
  <2>5. QED
    BY <2>3, <2>4
<1> HIDE DEF s
<1>5. RoomIndexComplete'
  BY <1>1, <1>4 DEF IndexOK, RoomIndexComplete, GetRoomConnections
<1>6. RoomIndexSound'
  BY <1>1, <1>3, <1>4 DEF IndexOK, RoomIndexSound, s
<1>7. UserIndexSound'
  BY <1>1, <1>2, <1>3 DEF IndexOK, UserIndexSound, s
<1>8. UserReachableUnlessShared'
  <2> SUFFICES ASSUME NEW d \in Registered \ {c}, connections[d].UserID \notin shared
               PROVE  LET v == connections[d].UserID
                      IN  v \in DOMAIN userConnections' /\ userConnections'[v] = d
    BY <1>1, <1>3 DEF UserReachableUnlessShared, GetConnection
  <2>1. GetConnection(connections[d].UserID) = {d}
    BY DEF IndexOK, UserReachableUnlessShared
  <2>2. /\ connections[d].UserID \in DOMAIN userConnections
        /\ userConnections[connections[d].UserID] = d
    BY <2>1 DEF GetConnection
  <2>3. connections[d].UserID # s.UserID
    <3> SUFFICES ASSUME connections[d].UserID = s.UserID PROVE FALSE
      OBVIOUS
    <3>1. GetConnection(s.UserID) = {c}
      BY DEF IndexOK, UserReachableUnlessShared, s
    <3>2. QED
      BY <2>1, <3>1
  <2>4. QED
    BY <1>2, <2>2, <2>3
<1>9. QED
  BY <1>5, <1>6, <1>7, <1>8 DEF IndexOK

(* Joining a room, from another or from none, keeps the indexes right. *)
LEMMA JoinRoomIndex ==
    ASSUME TablesOK, IndexOK, NEW c \in Conns, NEW r \in Rooms, JoinRoom(c, r)
    PROVE  IndexOK'
<1>1. CASE c \notin Registered
  BY <1>1, HeartbeatIndex DEF JoinRoom, Registered, tables
<1>2. CASE c \in Registered
  <2> DEFINE old  == connections[c].RoomID
             left == IF old \notin {NoRoom, r} THEN Leave(roomConnections, c, old)
                     ELSE roomConnections
  <2>1. /\ connections' = [connections EXCEPT ![c].RoomID = r]
        /\ roomConnections' = Enter(left, c, r)
        /\ UNCHANGED <<userConnections, relogged, shared>>
    BY <1>2 DEF JoinRoom, history
  <2>2. /\ Registered' = Registered
        /\ connections'[c].RoomID = r
        /\ \A d \in Registered : connections'[d].UserID = connections[d].UserID
        /\ \A d \in Registered \ {c} : connections'[d] = connections[d]
    BY <1>2, <2>1 DEF TablesOK, Registered, Session
  <2>3. \A x \in DOMAIN roomConnections : roomConnections[x] # {}
    BY DEF IndexOK, RoomIndexSound
  <2>4. /\ DOMAIN left \subseteq DOMAIN roomConnections
        /\ \A x \in DOMAIN left : /\ left[x] # {}
                                  /\ left[x] \subseteq roomConnections[x]
                                  /\ roomConnections[x] \ {c} \subseteq left[x]
        /\ \A x \in DOMAIN roomConnections :
              roomConnections[x] \ {c} # {} => x \in DOMAIN left
        /\ old \notin {NoRoom, r} /\ old \in DOMAIN left => c \notin left[old]
    <3>1. CASE old \in {NoRoom, r}
      BY <2>3, <3>1
    <3>2. CASE old \notin {NoRoom, r}
      <4>1. left = Leave(roomConnections, c, old)
        BY <3>2
      <4>2. roomConnections \in [DOMAIN roomConnections -> SUBSET Conns]
        BY DEF TablesOK
      <4> HIDE DEF left, old
      <4>3. QED
        BY <2>3, <4>1, <4>2 DEF Leave, Delete, Restrict
    <3>3. QED
      BY <3>1, <3>2
  <2> HIDE DEF left
  <2>5. /\ DOMAIN roomConnections' = DOMAIN left \cup {r}
        /\ roomConnections'[r] = {c} \cup (IF r \in DOMAIN left THEN left[r] ELSE {})
        /\ \A x \in DOMAIN left \ {r} : roomConnections'[x] = left[x]
    BY <2>1 DEF Enter, Put
  <2>6. RoomIndexComplete'
    <3> SUFFICES ASSUME NEW d \in Registered, connections'[d].RoomID # NoRoom
                 PROVE  LET q == connections'[d].RoomID
                        IN  q \in DOMAIN roomConnections' /\ d \in roomConnections'[q]
      BY <2>2 DEF RoomIndexComplete, GetRoomConnections
    <3>1. CASE d = c
      BY <2>2, <2>5, <3>1
    <3>2. CASE d # c
      <4>1. connections'[d] = connections[d]
        BY <2>2, <3>2
      <4> DEFINE q == connections[d].RoomID
      <4>2. q \in DOMAIN roomConnections /\ d \in roomConnections[q]
        BY <4>1 DEF IndexOK, RoomIndexComplete, GetRoomConnections
      <4>3. q \in DOMAIN left /\ d \in left[q]
        BY <2>4, <3>2, <4>2
      <4>4. QED
        BY <2>5, <4>1, <4>3
    <3>3. QED
      BY <3>1, <3>2
  <2>7. RoomIndexSound'
    <3> SUFFICES ASSUME NEW x \in DOMAIN roomConnections'
                 PROVE  /\ roomConnections'[x] # {}
                        /\ x # NoRoom => \A d \in roomConnections'[x] \ relogged :
                              d \in Registered /\ connections'[d].RoomID = x
      BY <2>1, <2>2 DEF RoomIndexSound
    <3>1. roomConnections'[x] # {}
      BY <2>4, <2>5
    <3>2. ASSUME x # NoRoom, NEW d \in roomConnections'[x] \ relogged
          PROVE  d \in Registered /\ connections'[d].RoomID = x
      <4>1. CASE d = c /\ x = r
        BY <1>2, <2>2, <4>1
      <4>2. CASE ~(d = c /\ x = r)
        <5>1. x \in DOMAIN left /\ d \in left[x]
          BY <2>5, <4>2
        <5>2. d \in Registered /\ connections[d].RoomID = x
          BY <2>4, <3>2, <5>1 DEF IndexOK, RoomIndexSound
        <5>3. d # c
          BY <2>4, <3>2, <4>2, <5>1, <5>2
        <5>4. QED
          BY <2>2, <5>2, <5>3
      <4>3. QED
        BY <4>1, <4>2
    <3>3. QED
      BY <3>1, <3>2
  <2>8. UserIndexSound' /\ UserReachableUnlessShared'
    BY <2>1, <2>2 DEF IndexOK, UserIndexSound, UserReachableUnlessShared, GetConnection
  <2>9. QED
    BY <2>6, <2>7, <2>8 DEF IndexOK
<1>3. QED
  BY <1>1, <1>2

(* Leaving a room keeps the indexes right. *)
LEMMA LeaveRoomIndex ==
    ASSUME TablesOK, IndexOK, NEW c \in Conns, LeaveRoom(c)
    PROVE  IndexOK'
<1>1. CASE UNCHANGED tables
  BY <1>1, HeartbeatIndex DEF LeaveRoom, Registered, tables, history
<1>2. CASE c \in Registered /\ connections[c].RoomID # NoRoom
  <2> DEFINE old == connections[c].RoomID
  <2>1. /\ connections' = [connections EXCEPT ![c].RoomID = NoRoom]
        /\ roomConnections' = Leave(roomConnections, c, old)
        /\ UNCHANGED <<userConnections, relogged, shared>>
    BY <1>2 DEF LeaveRoom, history
  <2>2. /\ Registered' = Registered
        /\ connections'[c].RoomID = NoRoom
        /\ \A d \in Registered : connections'[d].UserID = connections[d].UserID
        /\ \A d \in Registered \ {c} : connections'[d] = connections[d]
    BY <1>2, <2>1 DEF TablesOK, Registered, Session
  <2>3. /\ \A x \in DOMAIN roomConnections : roomConnections[x] # {}
        /\ roomConnections \in [DOMAIN roomConnections -> SUBSET Conns]
    BY DEF IndexOK, RoomIndexSound, TablesOK
  <2> HIDE DEF old
  <2>4. /\ DOMAIN roomConnections' \subseteq DOMAIN roomConnections
        /\ \A x \in DOMAIN roomConnections' :
              /\ roomConnections'[x] # {}
              /\ roomConnections'[x] \subseteq roomConnections[x]
              /\ roomConnections[x] \ {c} \subseteq roomConnections'[x]
        /\ \A x \in DOMAIN roomConnections :
              roomConnections[x] \ {c} # {} => x \in DOMAIN roomConnections'
        /\ old \in DOMAIN roomConnections' => c \notin roomConnections'[old]
    BY <2>1, <2>3 DEF Leave, Delete, Restrict
  <2>5. RoomIndexComplete'
    BY <2>2, <2>4 DEF IndexOK, RoomIndexComplete, GetRoomConnections
  <2>6. RoomIndexSound'
    BY <2>1, <2>2, <2>4 DEF IndexOK, RoomIndexSound, old
  <2>7. UserIndexSound' /\ UserReachableUnlessShared'
    BY <2>1, <2>2 DEF IndexOK, UserIndexSound, UserReachableUnlessShared, GetConnection
  <2>8. QED
    BY <2>5, <2>6, <2>7 DEF IndexOK
<1>3. QED
  BY <1>1, <1>2 DEF LeaveRoom

(* In every reachable state the indexes agree with the sessions. *)
THEOREM IndexesCorrect == Spec => []IndexOK
<1>1. Init => IndexOK
  BY DEF Init, IndexOK, RoomIndexComplete, RoomIndexSound, UserIndexSound,
         UserReachableUnlessShared, Registered, EmptyTable
<1>2. TypeOK /\ IndexOK /\ [Next]_vars => IndexOK'
  <2> SUFFICES ASSUME TypeOK, IndexOK, [Next]_vars
               PROVE  IndexOK'
    OBVIOUS
  <2>0. TablesOK
    BY DEF TypeOK
  <2>1. UNCHANGED <<tables, history>> => IndexOK'
    BY HeartbeatIndex DEF tables, history, Registered
  <2>2. ASSUME NEW c \in Conns, RemoveConnection(c) PROVE IndexOK'
    <3>1. CASE c \in Registered
      BY <2>0, <2>2, <3>1, UnregisterIndex DEF RemoveConnection
    <3>2. CASE c \notin Registered
      BY <2>1, <2>2, <3>2 DEF RemoveConnection
    <3>3. QED
      BY <3>1, <3>2
  <2>3. ASSUME NEW c \in Conns, Reader(c) PROVE IndexOK'
    <3>1. CASE Accept(c) \/ FindSession(c) \/ ReadFails(c)
      BY <2>1, <3>1 DEF Accept, FindSession, ReadFails
    <3>2. ASSUME NEW u \in Users, HandleLogin(c, u) PROVE IndexOK'
      BY <2>0, <3>2, AddConnectionIndex DEF HandleLogin
    <3>3. CASE HandleLogout(c) \/ CloseFrame(c) \/ ReaderExit(c)
      BY <2>2, <3>3 DEF HandleLogout, CloseFrame, ReaderExit
    <3>4. ASSUME NEW r \in Rooms, HandleJoinRoom(c, r) PROVE IndexOK'
      BY <2>0, <3>4, JoinRoomIndex DEF HandleJoinRoom
    <3>5. CASE HandleLeaveRoom(c)
      BY <2>0, <3>5, LeaveRoomIndex DEF HandleLeaveRoom
    <3>6. CASE RefreshSession(c)
      <4>1. /\ Registered' = Registered
            /\ \A d \in Registered : /\ connections'[d].UserID = connections[d].UserID
                                     /\ connections'[d].RoomID = connections[d].RoomID
        BY <2>0, <3>6 DEF RefreshSession, UpdateHeartbeat, Registered, TablesOK, Session
      <4>2. QED
        BY <3>6, <4>1, HeartbeatIndex DEF RefreshSession
    <3>7. QED
      BY <2>3, <3>1, <3>2, <3>3, <3>4, <3>5, <3>6 DEF Reader
  <2>4. CASE Checker
    <3>1. CASE SweepBegin \/ SweepEnd \/ \E c \in Conns : SweepScan(c)
      BY <2>1, <3>1 DEF SweepBegin, SweepEnd, SweepScan
    <3>2. ASSUME NEW c \in Conns, SweepRemove(c) PROVE IndexOK'
      BY <2>0, <3>2, UnregisterIndex DEF SweepRemove
    <3>3. QED
      BY <2>4, <3>1, <3>2 DEF Checker
  <2>5. CASE Tick
    <3>1. /\ Registered' = Registered
          /\ \A d \in Registered : /\ connections'[d].UserID = connections[d].UserID
                                   /\ connections'[d].RoomID = connections[d].RoomID
      BY <2>0, <2>5 DEF Tick, Registered, TablesOK, Session
    <3>2. QED
      BY <2>5, <3>1, HeartbeatIndex DEF Tick
  <2>6. CASE UNCHANGED vars
    BY <2>1, <2>6 DEF vars
  <2>7. QED
    BY <2>3, <2>4, <2>5, <2>6 DEF Next
<1>3. QED
  BY <1>1, <1>2, TypeCorrect, PTL DEF Spec

(* A room broadcast reaches every session in the room. *)
COROLLARY RoomMembersFound == Spec => []RoomIndexComplete
<1>1. IndexOK => RoomIndexComplete
  BY DEF IndexOK
<1>2. QED
  BY <1>1, IndexesCorrect, PTL

(* It reaches nobody else, leftovers of second registrations aside, and no  *)
(* room is kept without members.                                            *)
COROLLARY RoomIndexCorrect == Spec => []RoomIndexSound
<1>1. IndexOK => RoomIndexSound
  BY DEF IndexOK
<1>2. QED
  BY <1>1, IndexesCorrect, PTL

(* A private message reaches nobody else's connection, leftovers of second  *)
(* registrations aside.                                                     *)
COROLLARY PrivateStaysPrivate == Spec => []UserIndexSound
<1>1. IndexOK => UserIndexSound
  BY DEF IndexOK
<1>2. QED
  BY <1>1, IndexesCorrect, PTL

(* A private message reaches its user, who has not shared the user id.      *)
COROLLARY UserIndexCorrect == Spec => []UserReachableUnlessShared
<1>1. IndexOK => UserReachableUnlessShared
  BY DEF IndexOK
<1>2. QED
  BY <1>1, IndexesCorrect, PTL

-----------------------------------------------------------------------------
(* Which sessions there are: AddConnection adds one below the limit, and    *)
(* nothing else adds any.                                                   *)
OtherStep ==
    \/ \E c \in Conns :
          \/ Accept(c) \/ HandleLogout(c) \/ HandleLeaveRoom(c) \/ FindSession(c)
          \/ RefreshSession(c) \/ ReadFails(c) \/ CloseFrame(c) \/ ReaderExit(c)
          \/ \E r \in Rooms : HandleJoinRoom(c, r)
    \/ Checker \/ Tick \/ UNCHANGED vars

LEMMA OthersAddNone ==
    ASSUME TypeOK, OtherStep
    PROVE  Registered' \subseteq Registered
<1> DEFINE Shrinks == Registered' \subseteq Registered
<1>0. TablesOK
  BY DEF TypeOK
<1>1. UNCHANGED tables => Shrinks
  BY DEF tables, Registered
<1>2. ASSUME NEW c \in Conns, RemoveConnection(c) PROVE Shrinks
  BY <1>1, <1>2 DEF RemoveConnection, Unregister, Delete, Restrict, Registered
<1>3. ASSUME NEW c \in Conns, HandleLogout(c) \/ CloseFrame(c) \/ ReaderExit(c) PROVE Shrinks
  BY <1>2, <1>3 DEF HandleLogout, CloseFrame, ReaderExit
<1>4. ASSUME NEW c \in Conns, NEW r \in Rooms, HandleJoinRoom(c, r) PROVE Shrinks
  BY <1>0, <1>1, <1>4 DEF HandleJoinRoom, JoinRoom, Registered, TablesOK
<1>5. ASSUME NEW c \in Conns, HandleLeaveRoom(c) PROVE Shrinks
  BY <1>0, <1>1, <1>5 DEF HandleLeaveRoom, LeaveRoom, Registered, TablesOK
<1>6. ASSUME NEW c \in Conns, RefreshSession(c) PROVE Shrinks
  BY <1>0, <1>6 DEF RefreshSession, UpdateHeartbeat, Registered, TablesOK
<1>7. ASSUME NEW c \in Conns, Accept(c) \/ FindSession(c) \/ ReadFails(c) PROVE Shrinks
  BY <1>1, <1>7 DEF Accept, FindSession, ReadFails
<1>8. CASE Checker
  BY <1>1, <1>8 DEF Checker, SweepBegin, SweepScan, SweepRemove, SweepEnd, Unregister,
                     Delete, Restrict, Registered
<1>9. CASE Tick
  BY <1>9 DEF Tick, Registered
<1>10. CASE UNCHANGED vars
  BY <1>1, <1>10 DEF vars
<1>11. QED
  BY <1>3, <1>4, <1>5, <1>6, <1>7, <1>8, <1>9, <1>10 DEF OtherStep

LEMMA SessionsStep ==
    ASSUME TypeOK, [Next]_vars
    PROVE  \/ Registered' \subseteq Registered
           \/ \E c \in Conns : /\ reader[c] = "reading"
                              /\ reader' = reader
                              /\ ~Full
                              /\ Registered' = Registered \cup {c}
<1>1. ASSUME NEW c \in Conns, NEW u \in Users, HandleLogin(c, u), ~Full
      PROVE  reader[c] = "reading" /\ reader' = reader /\ Registered' = Registered \cup {c}
  BY <1>1 DEF HandleLogin, Handler, At, AddConnection, Put, Registered
<1>2. ASSUME NEW c \in Conns, NEW u \in Users, HandleLogin(c, u), Full
      PROVE  Registered' \subseteq Registered
  BY <1>2 DEF HandleLogin, AddConnection, tables, Registered
<1>3. QED
  BY <1>1, <1>2, OthersAddNone DEF Next, Reader, OtherStep

(* Cardinality says something of finite sets only. *)
Bounded == IsFiniteSet(Registered) /\ CapacityRespected

(* Every step keeps to the limit. *)
LEMMA BoundedStep == TypeOK /\ Bounded /\ [Next]_vars => Bounded'
<1> SUFFICES ASSUME TypeOK, Bounded, [Next]_vars
             PROVE  Bounded'
  OBVIOUS
<1> USE DEF Bounded
<1>1. Cardinality(Registered) \in Nat /\ MaxConnections \in Nat
  BY FS_CardinalityType, LimitsAssumption
<1>2. CASE Registered' \subseteq Registered
  <2>1. IsFiniteSet(Registered') /\ Cardinality(Registered') <= Cardinality(Registered)
    BY <1>2, FS_Subset
  <2>2. Cardinality(Registered') \in Nat
    BY <2>1, FS_CardinalityType
  <2>3. QED
    BY <1>1, <2>1, <2>2 DEF CapacityRespected
<1>3. ASSUME NEW c \in Conns, ~Full, Registered' = Registered \cup {c}
      PROVE  Bounded'
  <2>1. /\ IsFiniteSet(Registered \cup {c})
        /\ \/ Cardinality(Registered \cup {c}) = Cardinality(Registered)
           \/ Cardinality(Registered \cup {c}) = Cardinality(Registered) + 1
    BY FS_AddElement
  <2>2. Cardinality(Registered) < MaxConnections
    BY <1>1, <1>3 DEF Full
  <2>3. QED
    BY <1>1, <1>3, <2>1, <2>2 DEF CapacityRespected
<1>4. QED
  BY <1>2, <1>3, SessionsStep

LEMMA BoundedInit == Init => Bounded
BY FS_EmptySet, LimitsAssumption
DEF Init, Bounded, Registered, EmptyTable, CapacityRespected

(* The manager never holds more than maxConnections sessions. *)
THEOREM CapacityBounded == Spec => []CapacityRespected
<1>1. Bounded => CapacityRespected
  BY DEF Bounded
<1>2. QED
  BY <1>1, BoundedInit, BoundedStep, TypeCorrect, PTL DEF Spec

(* A connection whose reader has ended has no session, and stays without.   *)
LEMMA DoneUnregistered ==
    Spec => [](\A c \in Conns : reader[c] = "done" => c \notin Registered)
<1> DEFINE Gone == \A c \in Conns : reader[c] = "done" => c \notin Registered
<1>1. Init => Gone
  BY DEF Init
<1>2. TypeOK /\ Gone /\ [Next]_vars => Gone'
  <2> SUFFICES ASSUME TypeOK, Gone, [Next]_vars, NEW d \in Conns, reader'[d] = "done"
               PROVE  d \notin Registered'
    OBVIOUS
  <2>0. reader \in [Conns -> {"none", "reading", "heartbeat", "failed", "done"}]
    BY DEF TypeOK
  <2>1. CASE reader[d] = "done"
    BY <2>1, SessionsStep
  <2>2. CASE reader[d] # "done"
    <3>1. ReaderExit(d)
      BY <2>0, <2>2 DEF Next, Reader, Checker, Accept, HandleLogin, HandleLogout,
         HandleJoinRoom, HandleLeaveRoom, Handler, FindSession, RefreshSession, ReadFails,
         CloseFrame, ReaderExit, GoTo, SweepBegin, SweepScan, SweepRemove, SweepEnd, Tick,
         vars
    <3>2. QED
      BY <3>1 DEF ReaderExit, RemoveConnection, Unregister, Delete, Restrict, Registered, tables
  <2>3. QED
    BY <2>1, <2>2
<1>3. QED
  BY <1>1, <1>2, TypeCorrect, PTL DEF Spec

(* A connection whose reader has ended is in none of the tables, but for    *)
(* the leftovers of a second registration and of the room without a name.   *)
THEOREM DoneForgotten == Spec => []DoneIsForgotten
<1>1. /\ TypeOK /\ IndexOK
      /\ \A c \in Conns : reader[c] = "done" => c \notin Registered
      => DoneIsForgotten
  BY DEF DoneIsForgotten, IndexOK, RoomIndexSound, UserIndexSound, GetConnection,
         GetRoomConnections
<1>2. QED
  BY <1>1, TypeCorrect, IndexesCorrect, DoneUnregistered, PTL

-----------------------------------------------------------------------------
(* The sweep.  While the checker holds the mutex no session is added and    *)
(* none grows older, so whatever it has looked at is condemned or alive.    *)
ScannedIsJudged ==
    sweeping => \A c \in Registered : c \in unscanned \/ c \in dead \/ ~IsDead(c)

(* Without the mutex sessions only end, or are refreshed. *)
LEMMA SweptSessions ==
    ASSUME TypeOK, sweeping, [Next]_vars
    PROVE  /\ Registered' \subseteq Registered
           /\ \A c \in Registered' : IsDead(c)' => IsDead(c)
<1>1. CASE UNCHANGED connections
  BY <1>1 DEF Registered, IsDead
<1>2. ASSUME NEW c \in Conns, RefreshSession(c)
      PROVE  /\ Registered' \subseteq Registered
             /\ \A d \in Registered' : IsDead(d)' => IsDead(d)
  BY <1>2, LimitsAssumption
  DEF RefreshSession, UpdateHeartbeat, Registered, IsDead, TypeOK, TablesOK, Session
<1>3. ASSUME NEW c \in Conns, SweepRemove(c)
      PROVE  /\ Registered' \subseteq Registered
             /\ \A d \in Registered' : IsDead(d)' => IsDead(d)
  BY <1>3 DEF SweepRemove, Unregister, Delete, Restrict, Registered, IsDead
<1>4. \/ UNCHANGED connections
      \/ \E c \in Conns : RefreshSession(c) \/ SweepRemove(c)
  BY DEF Next, Reader, Checker, Free, Accept, HandleLogin, HandleLogout, HandleJoinRoom,
         HandleLeaveRoom, Handler, FindSession, ReadFails, CloseFrame, ReaderExit,
         SweepBegin, SweepScan, SweepEnd, Tick, vars, tables
<1>5. QED
  BY <1>1, <1>2, <1>3, <1>4

LEMMA JudgedStep == TypeOK /\ ScannedIsJudged /\ [Next]_vars => ScannedIsJudged'
<1> SUFFICES ASSUME TypeOK, ScannedIsJudged, [Next]_vars, sweeping'
             PROVE  \A c \in Registered' : c \in unscanned' \/ c \in dead' \/ ~IsDead(c)'
  BY DEF ScannedIsJudged
<1>1. CASE ~sweeping
  <2>1. SweepBegin
    BY <1>1 DEF Next, Reader, Checker, Accept, HandleLogin, HandleLogout, HandleJoinRoom,
         HandleLeaveRoom, Handler, FindSession, RefreshSession, ReadFails, CloseFrame,
         ReaderExit, SweepScan, SweepRemove, SweepEnd, Tick, vars, sweepVars
  <2>2. QED
    BY <2>1 DEF SweepBegin, tables, Registered
<1>2. CASE sweeping
  <2>1. \/ \E c \in Conns : SweepScan(c)
        \/ unscanned' = unscanned /\ dead' = dead
    BY <1>2 DEF Next, Reader, Checker, Free, Accept, HandleLogin, HandleLogout,
         HandleJoinRoom, HandleLeaveRoom, Handler, FindSession, RefreshSession, ReadFails,
         CloseFrame, ReaderExit, SweepBegin, SweepRemove, SweepEnd, Tick, vars, sweepVars
  <2>2. CASE unscanned' = unscanned /\ dead' = dead
    BY <1>2, <2>2, SweptSessions DEF ScannedIsJudged
  <2>3. ASSUME NEW c \in Conns, SweepScan(c)
        PROVE  \A d \in Registered' : d \in unscanned' \/ d \in dead' \/ ~IsDead(d)'
    BY <1>2, <2>3 DEF SweepScan, tables, Registered, IsDead, ScannedIsJudged
  <2>4. QED
    BY <2>1, <2>2, <2>3
<1>3. QED
  BY <1>1, <1>2 DEF TypeOK

(* A sweep that gives up the mutex has left no session silent past the      *)
(* timeout.                                                                 *)
THEOREM SweepsAreComplete == Spec => SweepIsComplete
<1>1. Init => ScannedIsJudged
  BY DEF Init, ScannedIsJudged
<1>2. /\ TypeOK /\ ScannedIsJudged /\ [Next]_vars
      => [sweeping /\ ~sweeping' => \A c \in Registered : ~IsDead(c)]_vars
  <2> SUFFICES ASSUME TypeOK, ScannedIsJudged, [Next]_vars, sweeping, ~sweeping'
               PROVE  \A c \in Registered : ~IsDead(c)
    OBVIOUS
  <2>1. SweepEnd
    BY DEF Next, Reader, Checker, Accept, HandleLogin, HandleLogout, HandleJoinRoom,
         HandleLeaveRoom, Handler, FindSession, RefreshSession, ReadFails, CloseFrame,
         ReaderExit, SweepBegin, SweepScan, SweepRemove, Tick, vars, sweepVars
  <2>2. QED
    BY <2>1 DEF SweepEnd, ScannedIsJudged
<1>3. QED
  BY <1>1, <1>2, JudgedStep, TypeCorrect, PTL DEF Spec, SweepIsComplete

-----------------------------------------------------------------------------
(* The manager implements SessionDirectory.                                 *)

(* The directory's view of the tables. *)
Sessions == [c \in Registered |->
               [user |-> connections[c].UserID, room |-> connections[c].RoomID]]

Contact == [u \in Users |-> GetConnection(u)]

Roster == [r \in Rooms |-> GetRoomConnections(r)]

View == <<Sessions, Contact, Roster, relogged>>

(* A step that only moves heartbeats changes nothing. *)
LEMMA ViewKept ==
    ASSUME Registered' = Registered,
           \A c \in Registered : /\ connections'[c].UserID = connections[c].UserID
                                 /\ connections'[c].RoomID = connections[c].RoomID,
           UNCHANGED <<userConnections, roomConnections, relogged>>
    PROVE  View' = View
BY DEF View, Sessions, Contact, Roster, GetConnection, GetRoomConnections

(* What a room lookup finds when c has left room r. *)
LEMMA RosterLeaves ==
    ASSUME TypeOK, NEW c \in Conns, NEW r \in Rooms,
           roomConnections' = Leave(roomConnections, c, r)
    PROVE  Roster' = [q \in Rooms |-> IF q = r THEN Roster[q] \ {c} ELSE Roster[q]]
<1>1. /\ DOMAIN roomConnections \subseteq Rooms
      /\ roomConnections \in [DOMAIN roomConnections -> SUBSET Conns]
  BY DEF TypeOK, TablesOK
<1>2. CASE r \notin DOMAIN roomConnections
  BY <1>1, <1>2 DEF Leave, Roster, GetRoomConnections
<1>3. CASE r \in DOMAIN roomConnections /\ roomConnections[r] \ {c} = {}
  BY <1>1, <1>3 DEF Leave, Delete, Restrict, Roster, GetRoomConnections
<1>4. CASE r \in DOMAIN roomConnections /\ roomConnections[r] \ {c} # {}
  BY <1>1, <1>4 DEF Leave, Roster, GetRoomConnections
<1>5. QED
  BY <1>2, <1>3, <1>4

(* A login that is not refused enrolls. *)
LEMMA AddConnectionEnrolls ==
    ASSUME TypeOK, Bounded, NEW c \in Conns, NEW u \in Users, AddConnection(c, u), ~Full
    PROVE  Directory!Enroll(c, u)
<1>1. /\ connections' = Put(connections, c, NewSession(u))
      /\ userConnections' = Put(userConnections, u, c)
      /\ relogged' = IF c \in Registered THEN relogged \cup {c} ELSE relogged
      /\ UNCHANGED roomConnections
  BY DEF AddConnection
<1>2. /\ Registered' = Registered \cup {c}
      /\ \A d \in Registered' :
            connections'[d] = IF d = c THEN NewSession(u) ELSE connections[d]
  BY <1>1 DEF Put, Registered
<1>3. Cardinality(Registered) < MaxConnections
  BY FS_CardinalityType, LimitsAssumption DEF Bounded, Full
<1>4. Directory!Present = Registered
  BY DEF Directory!Present
<1>5. Sessions' = [d \in Registered \cup {c} |->
                     IF d = c THEN [user |-> u, room |-> NoRoom] ELSE Sessions[d]]
  BY <1>2 DEF Sessions, NewSession
<1>6. Sessions' = [d \in Directory!Present \cup {c} |->
                     IF d = c THEN [user |-> u, room |-> NoRoom] ELSE Sessions[d]]
  BY <1>4, <1>5
<1>7. Contact' = [Contact EXCEPT ![u] = {c}]
  BY <1>1 DEF Contact, GetConnection, Put
<1>8. Roster' = Roster
  BY <1>1 DEF Roster, GetRoomConnections
<1>9. relogged' = IF c \in Directory!Present THEN relogged \cup {c} ELSE relogged
  BY <1>1, <1>4
<1>10. Directory!Cardinality(Directory!Present) < MaxConnections
  <2>1. Directory!Cardinality(Registered) = Cardinality(Registered)
    BY DEF Directory!Cardinality, Cardinality
  <2>2. QED
    BY <1>3, <1>4, <2>1
<1>11. QED
  BY <1>6, <1>7, <1>8, <1>9, <1>10 DEF Directory!Enroll, Sessions, Contact, Roster

(* The tables without the room of c are the roster without c. *)
LEMMA LeavingItsRoom ==
    ASSUME TypeOK, NEW c \in Registered,
           roomConnections' = IF connections[c].RoomID = NoRoom THEN roomConnections
                              ELSE Leave(roomConnections, c, connections[c].RoomID)
    PROVE  Roster' = Directory!RosterWithout(c)
<1>1. c \in Conns /\ connections[c].RoomID \in Rooms
  BY DEF TypeOK, TablesOK, Registered, Session
<1>2. Directory!RosterWithout(c)
        = [r \in Rooms |-> IF r = connections[c].RoomID /\ r # NoRoom
                           THEN Roster[r] \ {c} ELSE Roster[r]]
  BY DEF Directory!RosterWithout, Roster
<1>3. CASE connections[c].RoomID = NoRoom
  BY <1>2, <1>3 DEF Roster, GetRoomConnections
<1>4. CASE connections[c].RoomID # NoRoom
  BY <1>1, <1>2, <1>4, RosterLeaves
<1>5. QED
  BY <1>3, <1>4

(* Unregistering dismisses. *)
LEMMA UnregisterDismisses ==
    ASSUME TypeOK, NEW c \in Registered, Unregister(c), UNCHANGED relogged
    PROVE  Directory!Dismiss(c)
<1>1. /\ connections' = Delete(connections, c)
      /\ userConnections' = Delete(userConnections, connections[c].UserID)
      /\ roomConnections' = IF connections[c].RoomID = NoRoom THEN roomConnections
                            ELSE Leave(roomConnections, c, connections[c].RoomID)
  BY DEF Unregister
<1>2. /\ Registered' = Registered \ {c}
      /\ \A d \in Registered' : connections'[d] = connections[d]
  BY <1>1 DEF Delete, Restrict, Registered
<1>3. Sessions' = [d \in Registered \ {c} |-> Sessions[d]]
  BY <1>2 DEF Sessions
<1>4. Contact' = [Contact EXCEPT ![connections[c].UserID] = {}]
  <2>1. DOMAIN userConnections \subseteq Users
    BY DEF TypeOK, TablesOK
  <2>2. QED
    BY <1>1, <2>1 DEF Contact, GetConnection, Delete, Restrict
<1>5. Roster' = Directory!RosterWithout(c)
  BY <1>1, LeavingItsRoom
<1>6. Sessions[c].user = connections[c].UserID /\ DOMAIN Sessions = Registered
  BY DEF Sessions
<1>7. QED
  BY <1>3, <1>4, <1>5, <1>6
  DEF Directory!Dismiss, Directory!Present, Directory!Restrict, Sessions, Contact, Roster

(* The sessions when one of them gets another room, and keeps its user. *)
LEMMA RoomChanges ==
    ASSUME TypeOK, NEW c \in Registered, NEW r \in Rooms,
           connections' = [connections EXCEPT ![c].RoomID = r]
    PROVE  Sessions' = [Sessions EXCEPT ![c].room = r]
<1>1. /\ Registered' = Registered
      /\ connections'[c].UserID = connections[c].UserID
      /\ connections'[c].RoomID = r
      /\ \A d \in Registered \ {c} : connections'[d] = connections[d]
  BY DEF TypeOK, TablesOK, Registered, Session
<1>2. QED
  BY <1>1 DEF Sessions

(* Joining a room moves. *)
LEMMA JoinRoomMoves ==
    ASSUME TypeOK, NEW c \in Registered, NEW r \in Rooms, JoinRoom(c, r)
    PROVE  Directory!Move(c, r)
<1> DEFINE old == connections[c].RoomID
<1>1. PICK left : /\ left = IF old \notin {NoRoom, r} THEN Leave(roomConnections, c, old)
                            ELSE roomConnections
                  /\ connections' = [connections EXCEPT ![c].RoomID = r]
                  /\ roomConnections' = Enter(left, c, r)
                  /\ UNCHANGED <<userConnections, relogged>>
  BY DEF JoinRoom, history
<1>2. Sessions' = [Sessions EXCEPT ![c].room = r]
  BY <1>1, RoomChanges
<1>3. Contact' = Contact
  BY <1>1 DEF Contact, GetConnection
<1>4. Roster' = [Directory!RosterWithout(c) EXCEPT ![r] = @ \cup {c}]
  <2>1. /\ DOMAIN roomConnections \subseteq Rooms
        /\ roomConnections \in [DOMAIN roomConnections -> SUBSET Conns]
        /\ c \in Conns /\ old \in Rooms
    BY DEF TypeOK, TablesOK, Registered, Session
  <2>2. Directory!RosterWithout(c)
          = [q \in Rooms |-> IF q = old /\ q # NoRoom THEN Roster[q] \ {c} ELSE Roster[q]]
    BY DEF Directory!RosterWithout, Roster
  <2>3. \A q \in Rooms \ {r} :
           GetRoomConnections(q)'
             = IF q = old /\ q # NoRoom THEN GetRoomConnections(q) \ {c}
               ELSE GetRoomConnections(q)
    BY <1>1, <2>1 DEF Enter, Put, Leave, Delete, Restrict, GetRoomConnections
  <2>4. GetRoomConnections(r)' = GetRoomConnections(r) \cup {c}
    BY <1>1, <2>1 DEF Enter, Put, Leave, Delete, Restrict, GetRoomConnections
  <2>5. QED
    BY <2>2, <2>3, <2>4 DEF Roster
<1>5. DOMAIN Sessions = Registered
  BY DEF Sessions
<1>6. QED
  BY <1>1, <1>2, <1>3, <1>4, <1>5
  DEF Directory!Move, Directory!Present, Sessions, Contact, Roster

(* Leaving the room quits. *)
LEMMA LeaveRoomQuits ==
    ASSUME TypeOK, NEW c \in Registered, connections[c].RoomID # NoRoom, LeaveRoom(c)
    PROVE  Directory!Quit(c)
<1>1. /\ connections' = [connections EXCEPT ![c].RoomID = NoRoom]
      /\ roomConnections' = Leave(roomConnections, c, connections[c].RoomID)
      /\ UNCHANGED <<userConnections, relogged>>
  BY DEF LeaveRoom, history
<1>2. Sessions' = [Sessions EXCEPT ![c].room = NoRoom]
  BY <1>1, RoomChanges, RoomsAssumption
<1>3. Contact' = Contact
  BY <1>1 DEF Contact, GetConnection
<1>4. Roster' = Directory!RosterWithout(c)
  BY <1>1, LeavingItsRoom
<1>5. DOMAIN Sessions = Registered /\ Sessions[c].room # NoRoom
  BY DEF Sessions
<1>6. QED
  BY <1>1, <1>2, <1>3, <1>4, <1>5
  DEF Directory!Quit, Directory!Present, Sessions, Contact, Roster

LEMMA DirectoryStep ==
    ASSUME TypeOK, Bounded, [Next]_vars
    PROVE  [Directory!DirectoryNext]_View
<1> DEFINE Follows == Directory!DirectoryNext \/ View' = View
<1>0. TablesOK /\ Registered \subseteq Conns
  BY DEF TypeOK, TablesOK
<1>1. UNCHANGED <<tables, relogged>> => Follows
  BY DEF View, Sessions, Contact, Roster, Registered, GetConnection, GetRoomConnections,
       tables
<1>2. ASSUME NEW c \in Conns, NEW u \in Users, AddConnection(c, u) PROVE Follows
  <2>1. CASE Full
    BY <1>1, <1>2, <2>1 DEF AddConnection, history
  <2>2. CASE ~Full
    BY <1>2, <2>2, AddConnectionEnrolls DEF Directory!DirectoryNext
  <2>3. QED
    BY <2>1, <2>2
<1>3. ASSUME NEW c \in Registered, Unregister(c), UNCHANGED relogged PROVE Follows
  BY <1>0, <1>3, UnregisterDismisses DEF Directory!DirectoryNext
<1>4. ASSUME NEW c \in Conns, RemoveConnection(c) PROVE Follows
  BY <1>1, <1>3, <1>4 DEF RemoveConnection, history
<1>5. ASSUME NEW c \in Conns, NEW r \in Rooms, JoinRoom(c, r) PROVE Follows
  <2>1. CASE c \in Registered
    BY <1>5, <2>1, JoinRoomMoves DEF Directory!DirectoryNext
  <2>2. CASE c \notin Registered
    BY <1>1, <1>5, <2>2 DEF JoinRoom, history
  <2>3. QED
    BY <2>1, <2>2
<1>6. ASSUME NEW c \in Conns, LeaveRoom(c) PROVE Follows
  <2>1. CASE c \in Registered /\ connections[c].RoomID # NoRoom
    BY <1>6, <2>1, LeaveRoomQuits DEF Directory!DirectoryNext
  <2>2. CASE ~(c \in Registered /\ connections[c].RoomID # NoRoom)
    BY <1>1, <1>6, <2>2 DEF LeaveRoom, history
  <2>3. QED
    BY <2>1, <2>2
<1>7. ASSUME NEW c \in Conns, RefreshSession(c) PROVE Follows
  <2>1. /\ Registered' = Registered
        /\ \A d \in Registered : /\ connections'[d].UserID = connections[d].UserID
                                 /\ connections'[d].RoomID = connections[d].RoomID
    BY <1>0, <1>7 DEF RefreshSession, UpdateHeartbeat, Registered, TablesOK, Session
  <2>2. UNCHANGED <<userConnections, roomConnections, relogged>>
    BY <1>7 DEF RefreshSession, history
  <2>3. QED
    BY <2>1, <2>2, ViewKept
<1>8. CASE Tick
  <2>1. /\ Registered' = Registered
        /\ \A d \in Registered : /\ connections'[d].UserID = connections[d].UserID
                                 /\ connections'[d].RoomID = connections[d].RoomID
    BY <1>0, <1>8 DEF Tick, Registered, TablesOK, Session
  <2>2. UNCHANGED <<userConnections, roomConnections, relogged>>
    BY <1>8 DEF Tick, history
  <2>3. QED
    BY <2>1, <2>2, ViewKept
<1>9. ASSUME NEW c \in Conns, Reader(c) PROVE Follows
  <2>1. CASE Accept(c) \/ FindSession(c) \/ ReadFails(c)
    BY <1>1, <2>1 DEF Accept, FindSession, ReadFails, history
  <2>2. QED
    BY <1>2, <1>4, <1>5, <1>6, <1>7, <1>9, <2>1
    DEF Reader, HandleLogin, HandleLogout, HandleJoinRoom, HandleLeaveRoom, CloseFrame,
        ReaderExit
<1>10. CASE Checker
  BY <1>1, <1>3, <1>10
  DEF Checker, SweepBegin, SweepScan, SweepRemove, SweepEnd, history
<1>11. CASE UNCHANGED vars
  BY <1>1, <1>11 DEF vars, history
<1>12. QED
  BY <1>8, <1>9, <1>10, <1>11 DEF Next

(* Through all its tables and however its operations interleave with the    *)
(* sweep, the manager is a directory of sessions.                           *)
THEOREM ManagerIsADirectory == Spec => ImplementsDirectory
<1>1. Init => Directory!DirectoryInit
  BY DEF Init, Directory!DirectoryInit, Registered, EmptyTable, GetConnection,
       GetRoomConnections
<1>2. TypeOK /\ Bounded /\ [Next]_vars => [Directory!DirectoryNext]_View
  BY DirectoryStep
<1>3. Spec => [](TypeOK /\ Bounded)
  BY TypeCorrect, BoundedInit, BoundedStep, PTL DEF Spec
<1>4. QED
  BY <1>1, <1>2, <1>3, PTL
  DEF Spec, ImplementsDirectory, Directory!DirectorySpec, Directory!directory, View,
      Sessions, Contact, Roster

=============================================================================
