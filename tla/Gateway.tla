------------------------------ MODULE Gateway -------------------------------
(***************************************************************************)
(* The WebSocket gateway as its clients see it: requests in, answers and   *)
(* pushes out (router.go, json_parser.go, proto_parser.go and the reader   *)
(* of server.go, under src/server/gateway_ws/internal/manager/).           *)
(*                                                                         *)
(* A reader handles one request at a time, in the steps of its handler:    *)
(* change the session, answer, push to others; a chat pushes first and     *)
(* answers then.  A step that fails makes the handler return an error,     *)
(* which the reader turns into an error reply.                             *)
(*                                                                         *)
(* Sessions are those of SessionDirectory.  A push waits until a worker of *)
(* the broadcaster looks up its addressees and writes to one after         *)
(* another; Broadcaster has the details.                                   *)
(*                                                                         *)
(* Three things end the process, for nothing recovers from a panic here: a *)
(* call on a Logger nobody has set, the error reply, and two goroutines    *)
(* that write to one connection at a time.                                 *)
(***************************************************************************)
EXTENDS SessionDirectory, Sequences

CONSTANTS
    Requests,     \* the requests clients send
    LoginUser,    \* the user id handleLogin gives everyone, 1
    NoUser,       \* user id 0
    HasLogger,    \* are the package's Loggers set?  FALSE in its constructors
    MaxRequests   \* bound: requests sent by all clients together

(* Requests by what their handler does; a chat by its chat_type, "other     *)
(* chat" for a chat_type no case of handleChat names.  Malformed stands for *)
(* a missing header or body, a type nobody handles, bad JSON.               *)
Chats == {"world chat", "room chat", "private chat"}
Types == {"heartbeat", "login", "logout", "join", "leave", "query", "game action",
          "other chat", "malformed"} \cup Chats

(* user: the header's user id; room: the room of the body (join, leave) or  *)
(* of the header (room chat); to: the target of a private chat.             *)
Request == [type : Types, user : Users \cup {NoUser}, room : Rooms, to : Users]

ASSUME RequestsAssumption == Requests \subseteq Request
ASSUME UsersAssumption == LoginUser \in Users /\ NoUser \notin Users
ASSUME LoggerAssumption == HasLogger \in BOOLEAN
ASSUME MaxRequestsAssumption == MaxRequests \in Nat

VARIABLES
    format,    \* the configured SerializationFormat, "json" or "proto"
    reader,    \* each connection's reader: "reading", "failed" or "done"
    todo,      \* the steps left of the request a reader is handling
    requests,  \* the requests each reader has taken, in order
    outcome,   \* history: what each request did to the session
    received,  \* the messages written to each connection, in order
    waiting,   \* pushes no worker has looked up yet
    sending,   \* writes of pushes still to be made
    gone,      \* clients that have vanished: writes to them may fail
    closed,    \* connections closed on the server's side: writes fail
    panic      \* what has ended the process, "none" as long as nothing has

outside == <<waiting, sending, gone>>
gvars == <<directory, format, reader, todo, requests, outcome, received,
           outside, closed, panic>>

panicked == panic # "none"

-----------------------------------------------------------------------------
(* What the two message formats can do. *)

(* ParseMessageBody: the protobuf parser knows three bodies. *)
Readable(q) ==
    /\ q.type # "malformed"
    /\ format = "proto" => q.type \in {"heartbeat", "login", "join"}

(* CreateResponse: the protobuf one cannot serialize response data, which   *)
(* it looks up under the type of the response, a type of no body.           *)
HasData(q) == q.type \in {"login", "join", "leave", "query"}

(* Mutant: the JSON parser is as choosy. *)
AnswerableNoData(q) == ~HasData(q)

Answerable(q) == format = "proto" => ~HasData(q)

(* Mutant: the others are told before the client. *)
StepsPushFirst(q) ==
    CASE q.type = "heartbeat" -> <<"beat">>
      [] q.type = "login"     -> <<"enroll", "answer">>
      [] q.type = "logout"    -> <<"dismiss", "answer">>
      [] q.type = "join"      -> <<"move", "push", "answer">>
      [] q.type = "leave"     -> <<"leave", "push", "answer">>
      [] q.type \in Chats     -> <<"push", "answer">>
      [] q.type = "game action" -> <<"log", "answer">>
      [] q.type \in {"query", "other chat"} -> <<"answer">>

(* The steps of the handlers of router.go, in their order. *)
Steps(q) ==
    CASE q.type = "heartbeat" -> <<"beat">>
      [] q.type = "login"     -> <<"enroll", "answer">>
      [] q.type = "logout"    -> <<"dismiss", "answer">>
      [] q.type = "join"      -> <<"move", "answer", "push">>
      [] q.type = "leave"     -> <<"leave", "answer", "push">>
      [] q.type \in Chats     -> <<"push", "answer">>
      [] q.type = "game action" -> <<"log", "answer">>
      [] q.type \in {"query", "other chat"} -> <<"answer">>

(* Whom a handler pushes to: [kind, to, exclude] as Broadcaster's Envelope. *)
(* A join excludes the user id of the request's header.                     *)
Address(q) ==
    CASE q.type = "join" -> [kind |-> "room", to |-> q.room, exclude |-> q.user]
      [] q.type \in {"leave", "room chat"} ->
            [kind |-> "room", to |-> q.room, exclude |-> NoUser]
      [] q.type = "world chat"   -> [kind |-> "all", to |-> NoRoom, exclude |-> NoUser]
      [] q.type = "private chat" -> [kind |-> "user", to |-> q.to, exclude |-> NoUser]

-----------------------------------------------------------------------------
(* The reader and its handlers *)

Current(c) == requests[c][Len(requests[c])]

Idle(c) == reader[c] = "reading" /\ todo[c] = <<>>

RequestCount == FoldFunction(LAMBDA s, n : Len(s) + n, 0, requests)

(* sendError asks SerializeMessageBody to serialize a map as a heartbeat;   *)
(* the type assertion panics in either parser.                              *)
Fail == panic' = "error reply"

(* Infof and Errorf of the connection manager, the broadcaster, the         *)
(* handlers and the parsers: a method of a nil interface panics.            *)
Log == panic' = IF HasLogger THEN panic ELSE "nil logger"

(* A request that cannot be read goes straight to sendError, unless the     *)
(* parser's own log line, for a frame it cannot unmarshal, comes to that.   *)
FailToRead(q) ==
    panic' \in {"error reply"}
                 \cup (IF q.type = "malformed" /\ ~HasLogger THEN {"nil logger"} ELSE {})

(* The reader takes a request. *)
Take(c, q) ==
    /\ ~panicked /\ Idle(c)
    /\ RequestCount < MaxRequests
    /\ requests' = [requests EXCEPT ![c] = Append(@, q)]
    /\ outcome' = [outcome EXCEPT ![c] = Append(@, "nothing")]
    /\ IF Readable(q)
       THEN todo' = [todo EXCEPT ![c] = Steps(q)] /\ UNCHANGED panic
       ELSE FailToRead(q) /\ UNCHANGED todo
    /\ UNCHANGED <<directory, format, reader, received, outside, closed>>

(* The next step of c's handler is s. *)
AtStep(c, s) == ~panicked /\ todo[c] # <<>> /\ Head(todo[c]) = s

Advance(c) == todo' = [todo EXCEPT ![c] = Tail(@)]

Did(c, what) == outcome' = [outcome EXCEPT ![c][Len(requests[c])] = what]

(* handleLogin: AddConnection; at the limit the answer is an error 1001. *)
Login(c) ==
    /\ AtStep(c, "enroll")
    /\ IF Cardinality(Present) < Capacity
       THEN Enroll(c, LoginUser) /\ Advance(c) /\ Did(c, "enrolled")
       ELSE /\ todo' = [todo EXCEPT ![c] = <<"refuse">>]
            /\ Did(c, "refused")
            /\ UNCHANGED directory
    /\ Log
    /\ UNCHANGED <<format, reader, requests, received, outside, closed>>

(* RemoveConnection. *)
Unregister(c) ==
    IF c \in Present THEN Dismiss(c) /\ Log ELSE UNCHANGED <<directory, panic>>

Logout(c) ==
    /\ AtStep(c, "dismiss")
    /\ Unregister(c)
    /\ Did(c, "dismissed")
    /\ Advance(c)
    /\ UNCHANGED <<format, reader, requests, received, outside, closed>>

(* Mutant: the header's user id where the body's room id belongs. *)
JoinWrongField(c) ==
    /\ AtStep(c, "move")
    /\ IF c \in Present
       THEN Move(c, Current(c).user) /\ Did(c, "moved") /\ Log
       ELSE Did(c, "ignored") /\ UNCHANGED <<directory, panic>>
    /\ Advance(c)
    /\ UNCHANGED <<format, reader, requests, received, outside, closed>>

(* JoinRoom of a connection that is not logged in does nothing, and nobody  *)
(* asks.                                                                    *)
Join(c) ==
    /\ AtStep(c, "move")
    /\ IF c \in Present
       THEN Move(c, Current(c).room) /\ Did(c, "moved") /\ Log
       ELSE Did(c, "ignored") /\ UNCHANGED <<directory, panic>>
    /\ Advance(c)
    /\ UNCHANGED <<format, reader, requests, received, outside, closed>>

(* The room in the request is not the one that is left, but the session's. *)
LeaveRoom(c) ==
    /\ AtStep(c, "leave")
    /\ IF c \in Present /\ sessions[c].room # NoRoom THEN Quit(c)
       ELSE UNCHANGED directory
    /\ Did(c, "left")
    /\ Advance(c)
    /\ UNCHANGED <<format, reader, requests, received, outside, closed, panic>>

(* handleGameAction only logs, and answers. *)
GameAction(c) ==
    /\ AtStep(c, "log")
    /\ Log
    /\ Advance(c)
    /\ UNCHANGED <<directory, format, reader, requests, outcome, received, outside, closed>>

(* A write fails on a closed connection, may fail when the client is gone. *)
MayReach(c) == c \notin closed
MayMiss(c)  == c \in closed \cup gone

Hear(c, m) == received' = [received EXCEPT ![c] = Append(@, m)]

(* A reply from the reader's goroutine.  If it cannot be written the        *)
(* handler returns the error.                                               *)
Reply(c, kind) ==
    \/ /\ MayReach(c)
       /\ Hear(c, [kind |-> kind, of |-> <<c, Len(requests[c])>>])
       /\ Advance(c)
       /\ UNCHANGED panic
    \/ MayMiss(c) /\ Fail /\ UNCHANGED <<received, todo>>

(* Mutant: the handler goes on after the answer as if it had not been made. *)
AnswerAgain(c) ==
    /\ AtStep(c, "answer")
    /\ MayReach(c)
    /\ Hear(c, [kind |-> "answer", of |-> <<c, Len(requests[c])>>])
    /\ UNCHANGED <<todo, panic, directory, format, reader, requests, outcome, outside, closed>>

(* CreateResponse and SendMessage, the success answer of a handler. *)
Answer(c) ==
    /\ AtStep(c, "answer")
    /\ IF Answerable(Current(c)) THEN Reply(c, "answer")
       ELSE Fail /\ UNCHANGED <<received, todo>>
    /\ UNCHANGED <<directory, format, reader, requests, outcome, outside, closed>>

(* SendErrorResponse, for a refused login. *)
Refuse(c) ==
    /\ AtStep(c, "refuse")
    /\ Reply(c, "refusal")
    /\ UNCHANGED <<directory, format, reader, requests, outcome, outside, closed>>

(* handleHeartbeat; the session's heartbeat time is ConnectionManager's. *)
Heartbeat(c) ==
    /\ AtStep(c, "beat")
    /\ Reply(c, "beat")
    /\ UNCHANGED <<directory, format, reader, requests, outcome, outside, closed>>

(* Broadcast: a full channel drops the message, and the handler never       *)
(* knows.                                                                   *)
Push(c) ==
    /\ AtStep(c, "push")
    /\ Advance(c)
    /\ \/ UNCHANGED waiting /\ Log
       \/ waiting' = waiting \cup {<<c, Len(requests[c])>>} /\ UNCHANGED panic
    /\ UNCHANGED <<directory, format, reader, requests, outcome, received,
                   sending, gone, closed>>

(* ReadMessage fails: the client is gone, the connection closed or the read *)
(* deadline over.  A close frame has unregistered the connection before.    *)
ReadFails(c) ==
    /\ ~panicked /\ Idle(c)
    /\ UNCHANGED <<directory, panic>> \/ Unregister(c)
    /\ closed' = closed \cup {c}
    /\ reader' = [reader EXCEPT ![c] = "failed"]
    /\ UNCHANGED <<format, todo, requests, outcome, received, outside>>

(* The deferred RemoveConnection. *)
ReaderExit(c) ==
    /\ ~panicked /\ reader[c] = "failed"
    /\ Unregister(c)
    /\ reader' = [reader EXCEPT ![c] = "done"]
    /\ UNCHANGED <<format, todo, requests, outcome, received, outside, closed>>

-----------------------------------------------------------------------------
(* Around the readers *)

(* The end of processBroadcastMessage, when nothing of the push is left. *)
LogIfLast(p, left) ==
    IF \E w \in left : w.push = p THEN UNCHANGED panic ELSE Log

(* A worker looks up the addressees of a push. *)
LookUp(p) ==
    /\ ~panicked /\ p \in waiting
    /\ waiting' = waiting \ {p}
    /\ LET a == Address(requests[p[1]][p[2]])
       IN  sending' = sending \cup
             {[push |-> p, to |-> d] : d \in Found(a.kind, a.to) \ SessionsOf(a.exclude)}
    /\ LogIfLast(p, sending')
    /\ UNCHANGED <<directory, format, reader, todo, requests, outcome, received,
                   gone, closed>>

(* Mutant: a write that fails is tried again. *)
DeliverRetries(w) ==
    /\ ~panicked /\ w \in sending
    /\ \/ /\ MayReach(w.to) /\ Hear(w.to, [kind |-> "push", of |-> w.push])
          /\ sending' = sending \ {w} \/ (w.to \in gone /\ UNCHANGED sending)
       \/ MayMiss(w.to) /\ UNCHANGED <<received, sending>>
    /\ LogIfLast(w.push, sending')
    /\ UNCHANGED <<directory, format, reader, todo, requests, outcome, waiting,
                   gone, closed>>

(* A worker writes to one addressee; an error is logged. *)
Deliver(w) ==
    /\ ~panicked /\ w \in sending
    /\ sending' = sending \ {w}
    /\ \/ /\ MayReach(w.to) /\ Hear(w.to, [kind |-> "push", of |-> w.push])
          /\ LogIfLast(w.push, sending')
       \/ MayMiss(w.to) /\ Log /\ UNCHANGED received
    /\ UNCHANGED <<directory, format, reader, todo, requests, outcome, waiting,
                   gone, closed>>

(* Is c's reader about to write to c? *)
Replying(c) ==
    \/ AtStep(c, "refuse") \/ AtStep(c, "beat")
    \/ AtStep(c, "answer") /\ Answerable(Current(c))

(* sendMessage takes no lock: the reader's reply and a worker's push, or    *)
(* the pushes of two workers, meet in one connection, and gorilla panics.   *)
Clash(c) ==
    /\ ~panicked
    /\ \E v \in sending :
          v.to = c /\ (Replying(c) \/ \E w \in sending : w.to = c /\ w.push # v.push)
    /\ panic' = "concurrent write"
    /\ UNCHANGED <<directory, format, reader, todo, requests, outcome, received,
                   outside, closed>>

(* Mutant: the checker forgets to close. *)
SweepKeepsOpen(c) ==
    /\ ~panicked
    /\ Dismiss(c)
    /\ Log
    /\ UNCHANGED <<format, reader, todo, requests, outcome, received, outside, closed>>

(* The heartbeat checker removes a silent session and closes. *)
Sweep(c) ==
    /\ ~panicked
    /\ Dismiss(c)
    /\ closed' = closed \cup {c}
    /\ Log
    /\ UNCHANGED <<format, reader, todo, requests, outcome, received, outside>>

(* The client's process or network ends without a close frame. *)
Vanish(c) ==
    /\ ~panicked /\ c \notin gone
    /\ gone' = gone \cup {c}
    /\ UNCHANGED <<directory, format, reader, todo, requests, outcome, received,
                   waiting, sending, closed, panic>>

GInit ==
    /\ DirectoryInit
    /\ format \in {"json", "proto"}
    /\ reader = [c \in Conns |-> "reading"]
    /\ todo = [c \in Conns |-> <<>>]
    /\ requests = [c \in Conns |-> <<>>]
    /\ outcome = [c \in Conns |-> <<>>]
    /\ received = [c \in Conns |-> <<>>]
    /\ waiting = {} /\ sending = {}
    /\ gone = {} /\ closed = {}
    /\ panic = "none"

Handle(c) ==
    \/ Login(c) \/ Logout(c) \/ Join(c) \/ LeaveRoom(c) \/ GameAction(c)
    \/ Answer(c) \/ Refuse(c) \/ Heartbeat(c) \/ Push(c)

GNext ==
    \/ \E c \in Conns :
        \/ \E q \in Requests : Take(c, q)
        \/ Handle(c)
        \/ ReadFails(c) \/ ReaderExit(c)
        \/ Sweep(c) \/ Vanish(c) \/ Clash(c)
    \/ \E p \in waiting : LookUp(p)
    \/ \E w \in sending : Deliver(w)

GSpec == GInit /\ [][GNext]_gvars

-----------------------------------------------------------------------------
(* Properties *)

(* The requests taken so far, each by its connection and number. *)
Asked == UNION {{c} \X DOMAIN requests[c] : c \in Conns}

(* Every variable has its type; whatever is pushed or answered is about a   *)
(* request that was taken.                                                  *)
GTypeOK ==
    /\ DirectoryOK
    /\ format \in {"json", "proto"}
    /\ reader \in [Conns -> {"reading", "failed", "done"}]
    /\ todo \in [Conns -> Seq({"beat", "enroll", "dismiss", "move", "leave", "log",
                               "answer", "refuse", "push"})]
    /\ requests \in [Conns -> Seq(Requests)]
    /\ outcome \in [Conns -> Seq({"nothing", "enrolled", "refused", "dismissed",
                                  "moved", "ignored", "left"})]
    /\ received \in [Conns -> Seq([kind : {"beat", "answer", "refusal", "push"}, of : Asked])]
    /\ waiting \subseteq Asked
    /\ sending \subseteq [push : Asked, to : Conns]
    /\ gone \subseteq Conns /\ closed \subseteq Conns
    /\ panic \in {"none", "nil logger", "error reply", "concurrent write"}

(* Places in what c has received that hold an answer, of any kind. *)
Answers(c) == {i \in DOMAIN received[c] : received[c][i].kind # "push"}

Answered(c, n) == \E i \in Answers(c) : received[c][i].of = <<c, n>>

(* A client gets exactly one answer to each request, in the order of its    *)
(* requests, so that it could match them without the msg_id; only the last  *)
(* one taken may still be unanswered, and only while it is being handled.   *)
EveryRequestAnswered ==
    \A c \in Conns :
        /\ \A i \in Answers(c) : \E n \in DOMAIN requests[c] : received[c][i].of = <<c, n>>
        /\ \A i, j \in Answers(c) : i < j => received[c][i].of[2] < received[c][j].of[2]
        /\ \A n \in DOMAIN requests[c] :
              n < Len(requests[c]) \/ (todo[c] = <<>> /\ ~panicked) => Answered(c, n)

(* Whoever joins or leaves a room hears the answer before any push about it:*)
(* handleJoinRoom and handleLeaveRoom answer before they broadcast.         *)
AnswerPrecedesOwnPush ==
    \A c \in Conns : \A i \in DOMAIN received[c] :
        LET m == received[c][i]
        IN  m.kind = "push" /\ m.of[1] = c /\ requests[c][m.of[2]].type \in {"join", "leave"}
            => \E j \in 1 .. i - 1 : received[c][j].of = m.of /\ received[c][j].kind = "answer"

(* Request n of c is the last with one of these outcomes. *)
Last(c, n, what) ==
    /\ n \in DOMAIN outcome[c] /\ outcome[c][n] \in what
    /\ \A m \in DOMAIN outcome[c] : m > n => outcome[c][m] \notin what

(* A client whose connection is open and who is waiting for nothing can     *)
(* tell from the answers it got what the gateway holds: it has a session    *)
(* iff its last accepted login is later than its last logout, and is in the *)
(* room it has joined since, if it has not left it.                         *)
ClientKnowsItsSession ==
    \A c \in Conns :
        Idle(c) /\ ~panicked /\ c \notin closed =>
            /\ c \in Present <=>
                  \E n \in DOMAIN outcome[c] :
                     Last(c, n, {"enrolled", "dismissed"}) /\ outcome[c][n] = "enrolled"
            /\ c \in Present =>
                  \E n \in DOMAIN outcome[c] :
                     /\ Last(c, n, {"enrolled", "moved", "left"})
                     /\ sessions[c].room =
                           IF outcome[c][n] = "moved" THEN requests[c][n].room ELSE NoRoom

(* A malformed request, or an answer that cannot reach its client. *)
Unanswerable ==
    \E c \in Conns :
        /\ requests[c] # <<>>
        /\ Current(c).type = "malformed" \/ (todo[c] # <<>> /\ c \in gone \cup closed)

(* A push on its way to a client that has logged in, who has a request, or  *)
(* another push, on its way as well.                                        *)
TwoWriters ==
    \E c \in Conns, v \in sending :
        /\ v.to = c
        /\ \E n \in DOMAIN outcome[c] : outcome[c][n] = "enrolled"
        /\ todo[c] # <<>> \/ \E w \in sending : w.to = c /\ w.push # v.push

(* In JSON format, and once the Loggers are set, only a malformed request,  *)
(* an answer that cannot reach its client, or a push that meets another     *)
(* write to a client that has logged in, ends the process: no well-formed   *)
(* requests do of clients that stay, one after another, and push nothing.   *)
PanicNeedsAFault ==
    panicked /\ format = "json" =>
        CASE panic = "nil logger"       -> ~HasLogger
          [] panic = "error reply"      -> Unanswerable
          [] panic = "concurrent write" -> TwoWriters

(* A push reaches a connection at most once, however its addressees move    *)
(* between rooms while it is under way.                                     *)
PushedAtMostOnce ==
    \A c \in Conns : \A i, j \in DOMAIN received[c] :
        received[c][i].kind = "push" /\ received[c][j] = received[c][i] => i = j

(* An error while handling a request is answered, "send an error response"  *)
(* (server.go:190), and does not end the process; in the default format.    *)
ErrorsAreAnswered == format = "json" => panic # "error reply"

=============================================================================
