--------------------------- MODULE GatewayProcess ---------------------------
(***************************************************************************)
(* The process of the WebSocket gateway from its start to its exit         *)
(* (gatewayws.go, svc/servicecontext.go and Start, Stop and                *)
(* handleWebSocket of manager/server.go), around the connection manager    *)
(* with its readers and its checker, which are those of ConnectionManager. *)
(*                                                                         *)
(* Two things end connections here that the manager knows nothing of: the  *)
(* read deadline, set when a connection is accepted and again by a pong,   *)
(* and Stop, which closes the connections registered at one moment while   *)
(* readers go on logging in.                                               *)
(*                                                                         *)
(* Broadcaster.Stop is one step: Broadcaster shows that it returns.        *)
(***************************************************************************)
EXTENDS ConnectionManager

CONSTANTS
    ReadTimeout,        \* config.ReadTimeout, in the time units of HeartbeatTimeout
    HeartbeatInterval   \* how often clients send heartbeats

ASSUME TimesAssumption == ReadTimeout \in Nat \ {0} /\ HeartbeatInterval \in Nat

VARIABLES
    server,     \* the HTTP server: "unstarted", "listening" or "closed"
    phase,      \* how far the shutdown is, see Phases
    toClose,    \* connections of GetAllConnections that Stop has still to close
    deadline,   \* time left until each connection's read deadline
    late        \* history: connections that logged in after GetAllConnections

(* main waits for a signal; ServiceContext.Stop cancels the context, stops  *)
(* the broadcaster, closes connections, shuts the HTTP server down, waits   *)
(* for the goroutine of Start; main returns and the process exits.          *)
Phases == {"running", "cancelled", "closing", "closed", "waiting", "exited"}

pvars    == <<server, phase, toClose, deadline, late>>
allVars  == <<vars, pvars>>
stopVars == <<server, phase, toClose, late>>

Alive == phase # "exited"

-----------------------------------------------------------------------------
(* Start and stop *)

(* WebSocketServer.Start, in a goroutine of its own: the signal may come    *)
(* first.  From now on connections are accepted and the checker runs.       *)
ServerStart ==
    /\ Alive /\ server = "unstarted"
    /\ server' = "listening"
    /\ UNCHANGED <<vars, phase, toClose, deadline, late>>

Signal ==
    /\ phase = "running"
    /\ phase' = "cancelled"
    /\ UNCHANGED <<vars, server, toClose, deadline, late>>

(* Mutant: the connections of the rooms are closed. *)
SnapshotOfRooms ==
    /\ phase = "cancelled" /\ Free
    /\ phase' = "closing"
    /\ toClose' = UNION {GetRoomConnections(r) : r \in Rooms}
    /\ UNCHANGED <<vars, server, deadline, late>>

(* The broadcaster has stopped; GetAllConnections.                          *)
Snapshot ==
    /\ phase = "cancelled" /\ Free
    /\ phase' = "closing"
    /\ toClose' = Registered
    /\ UNCHANGED <<vars, server, deadline, late>>

CloseOne(c) ==
    /\ phase = "closing" /\ c \in toClose
    /\ closed' = closed \cup {c}
    /\ toClose' = toClose \ {c}
    /\ UNCHANGED <<tables, reader, sweepVars, crashed, history,
                   server, phase, deadline, late>>

(* server.Shutdown, skipped before Start has made the server; it waits for  *)
(* handlers of requests, at most five seconds, not for upgraded connections.*)
Shutdown ==
    /\ phase = "closing" /\ toClose = {}
    /\ phase' = "closed"
    /\ server' = IF server = "listening" THEN "closed" ELSE server
    /\ UNCHANGED <<vars, toClose, deadline, late>>

(* Mutant: Start serves in the goroutine that is waited for. *)
WaitForServe ==
    /\ phase = "closed" /\ server = "closed"
    /\ phase' = "waiting"
    /\ UNCHANGED <<vars, server, toClose, deadline, late>>

(* wg.Wait *)
WaitForStart ==
    /\ phase = "closed" /\ server # "unstarted"
    /\ phase' = "waiting"
    /\ UNCHANGED <<vars, server, toClose, deadline, late>>

Exit ==
    /\ phase = "waiting"
    /\ phase' = "exited"
    /\ UNCHANGED <<vars, server, toClose, deadline, late>>

-----------------------------------------------------------------------------
(* Connections *)

(* A new connection has no deadline. *)
NoDeadline == ReadTimeout + 1

Deadlines == 0 .. NoDeadline

(* Mutant: no deadline is set. *)
AcceptNoDeadline(c) ==
    /\ Alive /\ server = "listening"
    /\ Accept(c)
    /\ UNCHANGED <<deadline, stopVars>>

(* handleWebSocket *)
AcceptConn(c) ==
    /\ Alive /\ server = "listening"
    /\ Accept(c)
    /\ deadline' = [deadline EXCEPT ![c] = ReadTimeout]
    /\ UNCHANGED stopVars

(* A frame is read before the deadline.  A login is late once Stop knows    *)
(* whom it will close.                                                      *)
Login(c, u) ==
    /\ Alive
    /\ HandleLogin(c, u)
    /\ late' = IF phase \notin {"running", "cancelled"} /\ c \in Registered' \ Registered
               THEN late \cup {c} ELSE late
    /\ UNCHANGED <<server, phase, toClose, deadline>>

(* The pong handler; the server sends no ping, so only a client that sends  *)
(* pongs unasked gets here.                                                 *)
Pong(c) ==
    /\ Alive /\ At(c, "reading")
    /\ deadline' = [deadline EXCEPT ![c] = ReadTimeout]
    /\ UNCHANGED <<vars, stopVars>>

(* The other frames and a broken connection: ConnectionManager's readers.   *)
OtherFrame(c) ==
    /\ Alive
    /\ \/ HandleLogout(c)
       \/ \E r \in Rooms : HandleJoinRoom(c, r)
       \/ HandleLeaveRoom(c)
       \/ FindSession(c)
       \/ RefreshSession(c)
       \/ deadline[c] # 0 /\ ReadFails(c)
       \/ CloseFrame(c)
       \/ ReaderExit(c)
    /\ UNCHANGED pvars

(* What a reader does without its client. *)
GetsOn(c) == Alive /\ (RefreshSession(c) \/ ReaderExit(c)) /\ UNCHANGED pvars

(* ReadMessage returns a timeout error (or any other, after the deadline);  *)
(* no heartbeat has moved the deadline.                                     *)
DeadlinePasses(c) ==
    /\ Alive
    /\ deadline[c] = 0
    /\ ReadFails(c)
    /\ UNCHANGED pvars

(* The checker starts with the server.  Once the context is cancelled its   *)
(* select may still take a tick or two before it takes ctx.Done.            *)
CheckerRuns == Alive /\ server # "unstarted" /\ Checker /\ UNCHANGED pvars

Time ==
    /\ Alive
    /\ Tick
    /\ deadline' = [c \in Conns |->
          IF deadline[c] \in 1 .. ReadTimeout THEN deadline[c] - 1 ELSE deadline[c]]
    /\ UNCHANGED stopVars

-----------------------------------------------------------------------------
PInit ==
    /\ Init
    /\ server = "unstarted"
    /\ phase = "running"
    /\ toClose = {}
    /\ deadline = [c \in Conns |-> NoDeadline]
    /\ late = {}

Stop ==
    \/ Signal \/ Snapshot \/ Shutdown \/ WaitForStart \/ Exit
    \/ \E c \in Conns : CloseOne(c)

Connection(c) ==
    \/ AcceptConn(c)
    \/ \E u \in Users : Login(c, u)
    \/ Pong(c)
    \/ OtherFrame(c)
    \/ DeadlinePasses(c)

PNext == ServerStart \/ Stop \/ (\E c \in Conns : Connection(c)) \/ CheckerRuns \/ Time

PSpec == PInit /\ [][PNext]_allVars

(* As in ConnectionManager, but for the checker, of which only the end of a *)
(* sweep is assumed; moreover Stop gets on once a signal has come, and a    *)
(* connection past its deadline runs out of buffered frames.  Nothing is    *)
(* assumed of clients, nor that a signal comes.                             *)
PFairness ==
    /\ SF_allVars(ServerStart \/ (Stop /\ phase # "running"))
    /\ WF_allVars(sweeping /\ CheckerRuns)
    /\ SF_allVars(Time)
    /\ \A c \in Conns :
        /\ SF_allVars(DeadlinePasses(c))
        /\ SF_allVars(GetsOn(c))

FairPSpec == PSpec /\ PFairness

-----------------------------------------------------------------------------
(* Properties *)

(* Every variable has its type. *)
PTypeOK ==
    /\ TypeOK
    /\ server \in {"unstarted", "listening", "closed"}
    /\ phase \in Phases
    /\ toClose \subseteq Conns
    /\ deadline \in [Conns -> Deadlines]
    /\ late \subseteq Conns

(* When Stop has closed its connections, no session is left open but of a   *)
(* client that logged in while Stop was at it: nobody who was logged in     *)
(* before is forgotten, whatever logs in, leaves, is swept or shares a user *)
(* id meanwhile.                                                            *)
StopClosesSessions ==
    phase \in {"closed", "waiting", "exited"} => Registered \ closed \subseteq late

(* A connection does not occupy a goroutine for ever: over and over again   *)
(* its reader has ended or its client has just renewed the deadline with a  *)
(* pong.  Nothing else reclaims a connection that never logs in.            *)
IdleReadersEnd ==
    \A c \in Conns :
        []<>(reader[c] \in {"none", "done"} \/ deadline[c] = ReadTimeout \/ phase = "exited")

(* A signal ends the process, even one that comes before the server has     *)
(* started, and with connections that stay open.                            *)
StopEnds == phase = "cancelled" ~> phase = "exited"

(* A client that sends its heartbeats is not dropped for being silent: what *)
(* the gateway's README says (README.md:11, "detects whether connections    *)
(* are active, cleans up on timeout").                                      *)
ActiveClientKept ==
    [][\A c \in Registered :
          DeadlinePasses(c) => connections[c].age > HeartbeatInterval]_allVars

=============================================================================
