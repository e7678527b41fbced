------------------------ MODULE GatewayProcessProofs ------------------------
(***************************************************************************)
(* For any number of connections, users and rooms, and any limits: when    *)
(* Stop has closed its connections, no session is open but of a late login *)
(* (StopClosesSessions), and the sessions are a SessionDirectory all along *)
(* (ImplementsDirectory).  The manager of this process is the one of       *)
(* ConnectionManager but for the connections Stop closes, so its proofs    *)
(* serve here as well.                                                     *)
(***************************************************************************)
EXTENDS GatewayProcess, ConnectionManagerProofs

-----------------------------------------------------------------------------
(* What the process does to the manager *)

(* A step of the process is a step of the manager, or Stop closes a         *)
(* connection behind its back.                                              *)
LEMMA ManagerStep ==
    ASSUME [PNext]_allVars
    PROVE  [Next]_vars \/ \E c \in Conns : CloseOne(c)
<1>1. CASE ServerStart
  BY <1>1 DEF ServerStart
<1>2. CASE Stop
  BY <1>2 DEF Stop, Signal, Snapshot, Shutdown, WaitForStart, Exit
<1>3. ASSUME NEW c \in Conns, Connection(c) PROVE [Next]_vars
  BY <1>3 DEF Connection, AcceptConn, Login, Pong, OtherFrame, DeadlinePasses, Next, Reader
<1>4. CASE CheckerRuns
  BY <1>4 DEF CheckerRuns, Next
<1>5. CASE Time
  BY <1>5 DEF Time, Next
<1>6. CASE UNCHANGED allVars
  BY <1>6 DEF allVars
<1>7. QED
  BY <1>1, <1>2, <1>3, <1>4, <1>5, <1>6 DEF PNext

(* Closing a connection leaves the manager's variables well-typed. *)
LEMMA CloseOneType ==
    ASSUME TypeOK, NEW c \in Conns, CloseOne(c)
    PROVE  TypeOK'
BY DEF CloseOne, TypeOK, TablesOK, Registered, tables, sweepVars, history

(* Connections are never opened again. *)
LEMMA ClosedGrows ==
    ASSUME [Next]_vars
    PROVE  closed \subseteq closed'
BY DEF Next, Reader, Checker, Accept, HandleLogin, HandleLogout, HandleJoinRoom,
       HandleLeaveRoom, Handler, FindSession, RefreshSession, ReadFails, CloseFrame,
       ReaderExit, SweepBegin, SweepScan, SweepRemove, SweepEnd, Tick, vars

-----------------------------------------------------------------------------
(* Types *)

(* The process's own variables. *)
ProcessOK ==
    /\ server \in {"unstarted", "listening", "closed"}
    /\ phase \in Phases
    /\ toClose \subseteq Conns
    /\ deadline \in [Conns -> Deadlines]
    /\ late \subseteq Conns

LEMMA ProcessTypeInit == PInit => PTypeOK
<1>1. PInit => TypeOK
  BY TypeInit DEF PInit
<1>2. PInit => ProcessOK
  BY TimesAssumption DEF PInit, ProcessOK, Phases, Deadlines, NoDeadline
<1>3. QED
  BY <1>1, <1>2 DEF PTypeOK, ProcessOK

(* A step that sets one deadline, or lets one connection log in. *)
LEMMA DeadlineType ==
    /\ ReadTimeout \in Deadlines /\ NoDeadline \in Deadlines
    /\ \A d \in Deadlines : d \in 1 .. ReadTimeout => d - 1 \in Deadlines
BY TimesAssumption DEF Deadlines, NoDeadline

LEMMA ProcessTypeStep == PTypeOK /\ [PNext]_allVars => PTypeOK'
<1> SUFFICES ASSUME PTypeOK, [PNext]_allVars
             PROVE  PTypeOK'
  OBVIOUS
<1>1. TypeOK'
  BY ManagerStep, TypeStep, CloseOneType DEF PTypeOK
<1>2. ProcessOK /\ Registered \subseteq Conns
  BY DEF PTypeOK, ProcessOK, TypeOK, TablesOK
<1> USE DEF ProcessOK
<1>3. ASSUME ServerStart PROVE ProcessOK'
  BY <1>2, <1>3 DEF ServerStart
<1>4. ASSUME Signal PROVE ProcessOK'
  BY <1>2, <1>4 DEF Signal, Phases
<1>5. ASSUME Snapshot PROVE ProcessOK'
  BY <1>2, <1>5 DEF Snapshot, Phases
<1>6. ASSUME NEW c \in Conns, CloseOne(c) PROVE ProcessOK'
  BY <1>2, <1>6 DEF CloseOne
<1>7. ASSUME Shutdown PROVE ProcessOK'
  BY <1>2, <1>7 DEF Shutdown, Phases
<1>8. ASSUME WaitForStart PROVE ProcessOK'
  BY <1>2, <1>8 DEF WaitForStart, Phases
<1>9. ASSUME Exit PROVE ProcessOK'
  BY <1>2, <1>9 DEF Exit, Phases
<1>10. ASSUME NEW c \in Conns, AcceptConn(c) \/ Pong(c) PROVE ProcessOK'
  BY <1>2, <1>10, DeadlineType DEF AcceptConn, Pong, stopVars
<1>11. ASSUME NEW c \in Conns, NEW u \in Users, Login(c, u) PROVE ProcessOK'
  BY <1>2, <1>11 DEF Login
<1>12. ASSUME NEW c \in Conns, OtherFrame(c) \/ DeadlinePasses(c) PROVE ProcessOK'
  <2>1. UNCHANGED pvars
    BY <1>12 DEF OtherFrame, DeadlinePasses
  <2>2. QED
    BY <1>2, <2>1 DEF pvars
<1>13. ASSUME CheckerRuns PROVE ProcessOK'
  BY <1>2, <1>13 DEF CheckerRuns, pvars
<1>14. ASSUME Time PROVE ProcessOK'
  <2>1. deadline' \in [Conns -> Deadlines]
    BY <1>2, <1>14, DeadlineType DEF Time
  <2>2. QED
    BY <1>2, <1>14, <2>1 DEF Time, stopVars
<1>15. ASSUME UNCHANGED allVars PROVE ProcessOK'
  BY <1>2, <1>15 DEF allVars, pvars
<1>16. ProcessOK'
  BY <1>3, <1>4, <1>5, <1>6, <1>7, <1>8, <1>9, <1>10, <1>11, <1>12, <1>13, <1>14, <1>15
  DEF PNext, Stop, Connection
<1>17. QED
  BY <1>1, <1>16 DEF PTypeOK, ProcessOK

(* Every variable has its type in every reachable state. *)
THEOREM ProcessTypeCorrect == PSpec => []PTypeOK
BY ProcessTypeInit, ProcessTypeStep, PTL DEF PSpec

-----------------------------------------------------------------------------
(* The limit holds of the manager in its process, too. *)
THEOREM CapacityInProcess == PSpec => []CapacityRespected
<1>1. PInit => Bounded
  BY BoundedInit DEF PInit
<1>2. PTypeOK /\ Bounded /\ [PNext]_allVars => Bounded'
  <2>1. ASSUME NEW c \in Conns, CloseOne(c) PROVE Registered' = Registered
    BY <2>1 DEF CloseOne, tables, Registered
  <2>2. QED
    BY <2>1, ManagerStep, BoundedStep DEF PTypeOK, Bounded, CapacityRespected
<1>3. Bounded => CapacityRespected
  BY DEF Bounded
<1>4. QED
  BY <1>1, <1>2, <1>3, ProcessTypeCorrect, PTL DEF PSpec

(* ... and it is still a directory of sessions: closing a connection behind *)
(* its back, as Stop does, changes no session.                              *)
THEOREM DirectoryInProcess == PSpec => ImplementsDirectory
<1>1. PInit => Directory!DirectoryInit /\ Bounded
  BY BoundedInit
  DEF PInit, Init, Directory!DirectoryInit, Registered, EmptyTable, GetConnection,
      GetRoomConnections
<1>2. ASSUME NEW c \in Conns, CloseOne(c) PROVE View' = View /\ Registered' = Registered
  BY <1>2
  DEF CloseOne, tables, history, View, Sessions, Contact, Roster, Registered,
      GetConnection, GetRoomConnections
<1>3. PTypeOK /\ Bounded /\ [PNext]_allVars => Bounded'
  BY <1>2, ManagerStep, BoundedStep DEF PTypeOK, Bounded, CapacityRespected
<1>4. PTypeOK /\ Bounded /\ [PNext]_allVars => [Directory!DirectoryNext]_View
  BY <1>2, ManagerStep, DirectoryStep DEF PTypeOK
<1>5. QED
  BY <1>1, <1>3, <1>4, ProcessTypeCorrect, PTL
  DEF PSpec, ImplementsDirectory, Directory!DirectorySpec, Directory!directory, View,
      Sessions, Contact, Roster

-----------------------------------------------------------------------------
(* What Stop has still to close, or has closed, is all that was registered  *)
(* at its snapshot: other sessions can only be those of late logins.        *)
OpenSessions == Registered \ closed

StopKnowsSessions ==
    /\ phase = "closing" => OpenSessions \subseteq late \cup toClose
    /\ StopClosesSessions

(* A step of a connection, the checker or the clock opens no session, but   *)
(* for a login, which is counted late once the snapshot is taken.           *)
LEMMA OpenSessionsStep ==
    ASSUME PTypeOK, [PNext]_allVars, ~Stop
    PROVE  /\ phase' = phase /\ toClose' = toClose
           /\ phase \notin {"running", "cancelled"} =>
                 OpenSessions' \subseteq OpenSessions \cup late' /\ late \subseteq late'
<1>1. ASSUME NEW c \in Conns, NEW u \in Users, Login(c, u)
      PROVE  /\ phase' = phase /\ toClose' = toClose
             /\ phase \notin {"running", "cancelled"} =>
                   OpenSessions' \subseteq OpenSessions \cup late' /\ late \subseteq late'
  <2>1. closed' = closed /\ Registered' \subseteq Registered \cup {c}
    BY <1>1 DEF Login, HandleLogin, Handler, AddConnection, Put, Registered, tables
  <2>2. QED
    BY <1>1, <2>1 DEF Login, OpenSessions
<1>2. CASE ~\E c \in Conns, u \in Users : Login(c, u)
  <2>1. [Next]_vars /\ TypeOK
    BY ManagerStep DEF Stop, PTypeOK
  <2>2. UNCHANGED <<phase, toClose, late>>
    BY <1>2
    DEF PNext, Connection, AcceptConn, Pong, OtherFrame, DeadlinePasses, CheckerRuns, Time,
        stopVars, pvars, allVars, ServerStart
  <2>3. Registered' \subseteq Registered
    <3>1. ASSUME NEW c \in Conns, Connection(c) PROVE OtherStep
      BY <1>2, <3>1
      DEF Connection, AcceptConn, Pong, OtherFrame, DeadlinePasses, OtherStep
    <3>2. ASSUME ServerStart \/ CheckerRuns \/ Time \/ UNCHANGED allVars PROVE OtherStep
      BY <3>2 DEF ServerStart, CheckerRuns, Time, allVars, OtherStep
    <3>3. QED
      BY <2>1, <3>1, <3>2, OthersAddNone DEF PNext
  <2>4. closed \subseteq closed'
    BY <2>1, ClosedGrows
  <2>5. QED
    BY <2>2, <2>3, <2>4 DEF OpenSessions
<1>3. QED
  BY <1>1, <1>2

(* When Stop has closed its connections, no session is left open but of     *)
(* clients that logged in while it was at it.                               *)
THEOREM StopForgetsNobody == PSpec => []StopClosesSessions
<1>1. PInit => StopKnowsSessions
  BY DEF PInit, StopKnowsSessions, StopClosesSessions
<1>2. PTypeOK /\ StopKnowsSessions /\ [PNext]_allVars => StopKnowsSessions'
  <2> SUFFICES ASSUME PTypeOK, StopKnowsSessions, [PNext]_allVars
               PROVE  StopKnowsSessions'
    OBVIOUS
  <2> USE DEF StopKnowsSessions, StopClosesSessions, OpenSessions
  <2>1. CASE ~Stop
    BY <2>1, OpenSessionsStep
  <2>2. CASE Signal
    BY <2>2 DEF Signal
  <2>3. CASE Snapshot
    BY <2>3 DEF Snapshot, vars, tables, Registered
  <2>4. ASSUME NEW c \in Conns, CloseOne(c) PROVE StopKnowsSessions'
    BY <2>4 DEF CloseOne, tables, Registered
  <2>5. CASE Shutdown
    BY <2>5 DEF Shutdown, vars, tables, Registered
  <2>6. CASE WaitForStart \/ Exit
    BY <2>6 DEF WaitForStart, Exit, vars, tables, Registered
  <2>7. QED
    BY <2>1, <2>2, <2>3, <2>4, <2>5, <2>6 DEF Stop
<1>3. StopKnowsSessions => StopClosesSessions
  BY DEF StopKnowsSessions
<1>4. QED
  BY <1>1, <1>2, <1>3, ProcessTypeCorrect, PTL DEF PSpec

=============================================================================
