# zerogame gateway: TLA+ models and proofs

zerogame is the server side of a game platform written in Go on go-zero: a WebSocket gateway that keeps
long-lived client connections and pushes messages to rooms, an HTTP gateway that turns JSON requests into gRPC
calls, two small gRPC services behind it, and helper packages for Redis, MySQL and a local cache. This directory holds
TLA+ models of its concurrent core, the TLC configurations that check them, and theorems that TLAPS proves for every
size of the system. Paths below are relative to the repository; `manager/` stands for
`server/gateway_ws/internal/manager/`.

## 1. Inventory

| Component (source) | State it keeps | Operations |
|---|---|---|
| Connection manager (`manager/connection.go`) | `connections` (socket -> session), `userConnections` (user -> socket), `roomConnections` (room -> set of sockets), all under one `RWMutex`; per session `UserID`, `RoomID`, `LastHeartbeat` under a mutex of its own | `AddConnection`, `RemoveConnection`, `JoinRoom`, `LeaveRoom`, `UpdateHeartbeat`, lookups, `CleanupDeadConnections` run by `StartHeartbeatChecker` |
| Broadcaster and worker pool (`manager/broadcaster.go`) | `messageCh` (1000), `taskQueue` (10000), ten workers, a `WaitGroup`, a context | `Broadcast*`, `processMessages`, `Submit`, `worker`, `processBroadcastMessage`, `SendMessage`, `Stop`/`Shutdown` |
| WebSocket server (`manager/server.go`) | one reader goroutine per accepted socket, a read deadline, a close and a pong handler | `handleWebSocket`, `handleConnection`, `handleMessage`, `sendError`, `Start`, `Stop` |
| Router and handlers (`manager/router.go`) | table message type -> handler (constant after start) | `Route` and the handlers for heartbeat, login, logout, join, leave, chat, game action, user info, room list |
| Message parsers (`manager/json_parser.go`, `manager/proto_parser.go`) | none | parse a message or body, build a response, build a push |
| Gateway start and stop (`gatewayws.go`, `svc/servicecontext.go`) | the service context: a context to cancel, a `WaitGroup` | `Start`, `Stop` on a signal |
| HTTP gateway (`server/gateway_http/`) | two RPC clients, no state between requests | generic, RESTful and login handlers; `validateRequest`, `routeToService`, `callRPCMethod` |
| Login and user services (`server/login`, `server/user`) | an RPC client to each other | `Logon`, `GetUserInfo`; the rest are empty stubs |
| Redis helper (`pkg/db/redis`) | keys of a Redis server | lock, refresh, release; hash writes with a time to live |
| Local cache (`pkg/db/cache`) | a freecache, a single-flight group | get or load, set, delete |
| MySQL set-up (`pkg/db/mysql`), configuration, generated code | none of their own | - |

### How they interact

A reader calls the router, the router a handler; a handler calls the connection manager (locked calls), then possibly
`Broadcast*` (a channel), and returns a response that the reader writes to its socket. The broadcaster's goroutine
moves messages from the channel to the pool; a worker looks connections up in the manager and writes to the sockets.
The heartbeat checker calls the manager on every tick and closes sockets, which makes their readers fail. `Stop`
cancels the context, closes both channels, waits for the workers, closes the registered sockets and shuts the HTTP server down.

The HTTP gateway is a process of its own, a gRPC client of the login and of the user service; those two are clients of each other. A `Logon` is
answered only after a `GetUserInfo` of the login service to the user service. The Redis helper and the local cache are libraries without a caller in the repository.

### What is hard about it, and what must hold

* **Manager.** Three tables describe the same thing and are changed by six operations, by any number of readers and by
  the checker. They must agree: nobody missed by a room broadcast, nobody's private message sent to another, no table
  entry for a connection that has ended, never more sessions than the limit.
* **Sweep.** It holds the manager's lock but not the sessions' locks, so heartbeats arrive in the middle of it. Silent
  clients must lose their place, and their reader goroutines must end.
* **Pipeline.** Two bounded queues, overflow goroutines without a bound, workers in parallel, sessions that change
  between the lookup and the write, `Stop` at any time. Who receives a message, how often, and does an accepted one
  ever get sent?
* **Sockets.** A socket allows one writer at a time, and there are up to ten workers, overflow goroutines and the reader.
* **Start and stop.** A signal may come before the server has started; readers go on logging in while `Stop` closes what was registered;
  connections that never log in are nobody's but their read deadline's.
* **Calls between processes.** A call may be lost, executed without an answer, or answered after everyone has stopped waiting. "Success" must
  mean it, and no handler may wait for ever.
* **Redis.** Commands and replies are lost, repeated and delayed, clients crash, and time runs meanwhile: who may count on a lock, who frees it, what keeps its
  time to live?
* **Handlers.** State change, push and reply are three steps in two goroutines, and each can fail alone. What a client was told and what the manager holds
  must not drift apart, and one client's failure must not be everyone's.

`PROJECT.json` lists these hazards one by one, at their lines, with the properties that watch them.

## 2. Plan

The most important behaviour comes first; every module is written so that it can be proved about (parameters as
constants with named assumptions, one action per operation, no `RECURSIVE` operator).

1. Done: `ConnectionManager`, its abstract specification `SessionDirectory`, and `ConnectionManagerProofs`.
2. Done: `Broadcaster`, built on `SessionDirectory`, and its abstract specification `Multicast`.
3. Done: `Gateway`, the handlers, parsers and error replies as a client sees them, built on `SessionDirectory`.
4. Done: `GatewayProcess`, start, stop and read deadlines around `ConnectionManager`.
5. Done: `HttpGateway`, the three processes that answer HTTP requests.
6. Done: `LocalCache`, load against delete with single flight.
7. Done: `RedisHelper`, the lock and the hash with a time to live.
8. Done: proofs about each of them, in modules of their own: every safety property and every refinement a run checks.
9. Next: what of the liveness properties is a safety lemma (that a waiting goroutine has someone to wake it) and the counting
   bounds that go with it; what a client that is excluded from a push may still hear of it in `Gateway`.

## 3. Modules

### ConnectionManager

One variable per table of the Go structure. A method that holds `cm.mutex` from its first to its last line is one
action; the actions of one connection are sequential because one reader runs them; those of two connections and of the
checker interleave. `reader[c]` is the control point of the reader goroutine. Two operations are
not atomic in the code and are not here:

* `handleHeartbeat` finds the session (`FindSession`) and then refreshes it without `cm.mutex` (`RefreshSession`); the session may
  have been unregistered in between, and the sweep may be half way.
* `CleanupDeadConnections` is one action per round of its two loops (`SweepScan`, `SweepRemove`). It holds `cm.mutex`
  throughout (`Free` is false), so only `RefreshSession`, `ReadFails` and `Accept` happen meanwhile.

`Log` stands for a call on the embedded `logx.Logger`. `NewConnectionManager` never sets it, so with `HasLogger = FALSE`
(the code as it is) the first login panics. To say anything about the rest of the code, the other runs take it as set, and
the theorems hold for both values.

Time is an age in each session, the time since its last heartbeat, cut off one unit after the timeout, which is all that the
comparison with the timeout can tell apart. Two history variables name the exceptions the code has: `relogged` (connections
registered a second time while registered, which forgets the room they were in and the user they were) and `shared`
(users that logged in on two connections at once; `RemoveConnection` deletes the user's entry whichever connection it leads to).
Both happen in the code as it is: `handleLogin` gives every client the user id 1 and accepts a login on a connection that is logged in. So a user with two connections becomes unreachable when
one of them ends, and a room keeps a member that has logged in again, even after it has ended.

### SessionDirectory

The manager as its callers see it, without locks, clock or readers: `sessions`, a partial function from connections to user and room, with a capacity, and beside it what the lookups return, `contact` for
`GetConnection` and `roster` for `GetRoomConnections`. The two do not follow from the sessions: a second login on one connection replaces the session and leaves its old room's member and its old user's entry
behind (`Enroll`), a session that ends takes its user's entry along whichever connection that leads to (`Dismiss`), and the empty room name is entered and never left (`RosterWithout`). `relogged` records who has
logged in again. `LookupsAgree` says what is left of the agreement: a named room is found with all its members, and whoever else a lookup finds has logged in a second time.

`ImplementsDirectory` checks that every step of `ConnectionManager` is one login, move, departure or dismissal of the directory, leftovers included, or changes nothing of it. `Broadcaster` and `Gateway` look connections up in it (`Found`).

### Broadcaster

The stage of a message is the control point of whichever goroutine holds it: in `messageCh`, taken by the loop, queued,
looking up, filtering, sending, finished; or dropped by a full channel. `byWorker` tells the tasks that workers run from those
that a full queue sent off with `go task()`, which `Shutdown` does not wait for. Lookup, each test of `ExcludeUser` (which asks the manager
again) and each write are separate steps, between which sessions change. Writes begin and end, so that two of them can overlap.
A write may fail (it then logs and goes on). Lookups return what `SessionDirectory` says they do, stale room members included; whom a message is *meant for* (`MeantFor`) is read off the sessions. The two part in
two places, which the properties name: a connection that has logged in a second time goes on getting the messages of the room it was in (`DeliveredOnlyToAudience` excepts `relogged`), and a push to the room with the empty
name reaches those that entered it by name, whatever they did since, and not those that are in no room (`Named`). A serialisation error of `processBroadcastMessage` cannot occur for the pushes the handlers build and is left out.
`gorilla/websocket` is external: it panics on concurrent writes when it notices, and may not notice.

The history variables `audience`, `faithful` and `barred` record whom a message was meant for at some time since it was accepted, who was entitled to
it at all times, and who was excluded at all times. These are the bounds a reader may rely on when sessions change in the middle.

### Multicast

What the broadcaster promises of a message: accepted or dropped once, written to each connection at most once, silent once finished.

### Gateway

The requests of each client, the answers and the pushes it gets. A reader takes one request at a time (`Take`: parse, find the
handler, parse the body) and then runs the steps of its handler in the order of `router.go` (`Steps`), so that other readers, the
checker and the workers come in between. `Steps` is the one place that says that a join answers before it pushes and a chat
pushes before it answers. A step that fails is `Fail`: `sendError` panics, in either format, whatever the error was.
Two other things end the process. `Log` is a call on a Logger that no constructor sets: the first login, a game action, a finished or a dropped push, a frame that cannot be unmarshalled (`HasLogger = FALSE` is the code as it is).
`Clash` is two writes that meet in one connection, a reply and a push or two pushes, which gorilla may notice; `panic` tells the three apart and `PanicNeedsAFault` says what each takes.
`format` is chosen once, as in `NewServiceContext`; `Readable` and `Answerable` say what each parser cannot convert: protobuf
reads three bodies and cannot build an answer that has data. A client may vanish (`gone`: writes may still succeed) and the server may
have closed the connection (`closed`: writes fail). Requests stand for themselves, without contents; "malformed" covers bad JSON, a missing
header or body and a type without a handler; "query" the two requests that change nothing and answer, "other chat" a chat whose `chat_type` no case of `handleChat` names. Frames that are not text are
skipped by the reader and do not appear.

A join on a connection without a session changes nothing and is answered "success" all the same (`router.go:180`, `outcome` "ignored"); what
a client may conclude from its answers, `ClientKnowsItsSession`, therefore starts from the last accepted login.

The delivery of a push is coarser than in `Broadcaster` (one lookup that also filters, then one write per addressee), because
`Broadcaster` checks the rest. The run takes the Loggers as set, the theorems hold either way.

### GatewayProcess

`ConnectionManager` with the process around it: its readers and its checker run as they do there, and every action asks in addition whether the process is alive.
`server` is the HTTP server, `phase` how far `ServiceContext.Stop` has come, `toClose` what is left of the loop over `GetAllConnections`, `deadline` the time left until
each socket's read deadline. The goroutine of `Start` is one action that may come at any time, also after `Stop` has looked for a server to shut down; `wg.Wait` waits for it.
`Broadcaster.Stop` is one step, because run `bc_liveness` shows that it returns. `http.Server.Shutdown` does not know of upgraded connections.

The deadline is set by `handleWebSocket` and by the pong handler and by nothing else (`server.go:144`, `149`). The server never pings, so that in practice every connection, heartbeats or not, ends
when `ReadTimeout` is over; `Pong` is there for clients that send pongs unasked. A reader past its deadline may still read what is buffered before it gets the error. Run `life_heartbeat` shows
the active client that is cut off, and `IdleReadersEnd` the other side of it: nothing else ends a connection that never logs in.

`StopClosesSessions` excepts the sessions in `late`. A client that connects or logs in after `GetAllConnections` keeps its connection until the process exits, and so does a client that never logged in,
although the comment of `Stop` (`server.go:115`) says that it closes all connections.

### HttpGateway

Three processes, each down, starting or up, and the path of a request through them. Everything a handler of the gateway does before its RPC depends on the request alone: `Verdict` says which
requests are answered at once and how, `Arrive` is the whole handler up to the RPC. `work[call][r]` is the call made for request `r` on the side of its service: on its way, executing, waiting for the user
service, answered, or lost. A caller does not see that a call is lost; it runs into its deadline (`CallTimeout`) or the REST server answers in its place (`HttpTimeout`), both of which may as well happen
when an answer is on its way. go-zero and gRPC are external: deadlines, circuit breaker (`Invoke` may fail before anything is sent) and routing are taken from their use. So is what
`zrpc.MustNewClient` does about a peer that is not there: the code passes it no option, and a start may succeed or fail at any time (`Start`, `StartFails`). Nothing is promised about processes coming up.

The service's name is lowered by the RESTful handler and taken as it is by the generic one (`ServiceOf`, `capitals`). A call that is answered, or given up, cannot be answered again: go-zero's timeout handler
and gRPC decide between a late reply and a deadline in one step of their own, which the model takes for granted.

Requests that arrive at the login service from elsewhere (path "rpc") call its stubs, which `Register` stands for. Messages have no contents: `Logon` asks for an empty user and returns constants.

Where the gateway's documentation and the code part, besides what the runs show: `GET /api/generic` is documented (`server/gateway_http/README.md:54`) but `routes.go` serves `POST` only, so the other branches of
the generic handler are dead; errors of parsing are plain text rather than the format promised at `README.md:295`; the automatic retries of `README.md:247` do not exist: `routeToService` calls once and
`GenericGateway` answers its error (`genericlogic.go:67-77`), so a single call that is lost while its service is up is reported as a call error.

### LocalCache

One key of the cache. Each call of `GetOrLoadCache` is a control point that moves from the first look through `sf.Do`, where it leads or
waits, to its return; between any two of these steps the data may change, be stored, deleted or expire. `SecondLook` matters twice: it spares
a load, and it makes the leader's own object `v` the answer of the flight, which the other calls then copy through JSON while
the owner of `v`, already back, may be writing to it (`Use`). The contents of the data is a version number. The leader's read of the data and its way
back are two steps, because that is where a `DelCache` comes too early: whoever calls next still gets the old version.
`floor` records the last `DelCache` that met no such flight. `singleflight` and `freecache` are external: a flight ends for all its callers
at once, an entry may vanish at any time, a store may fail. A panic of the loader and an entry that cannot be read as JSON are left out. No server of
the repository uses the package yet; the callers are those its signatures allow.

### RedisHelper

Several clients, one key, which is a lock or a hash (calls for different keys do not meet). A call sends a command and waits. Commands are executed late, lost, or sent again on another connection while the first copy is still
under way, as go-redis does; a reply counts only for the copy sent last. `window` counts the ttl from the start of a call and `lease` from the start of the last successful one: that is how long a careful client may count on
its lock, and `LeaseHeld` says that it is right to. redislock, go-redis and Redis are external and modelled from how `redis.go` uses them: a fresh token per lock, scripts that compare tokens, and one ttl as the deadline of
`GetLock`. `HSetWithTTL` is a pipeline, two commands between which others come, although its comment (`redis.go:149`) promises atomicity: a connection that breaks between them leaves a hash that
never expires, with an error to the caller. `CreatedHashExpires` is what remains: once success was reported, the hash has its time to live. `HSetNXWithTTL` is one script, but `int(expiration.Seconds())` makes 0 of
half a second and the script then deletes the hash; `HSetWithTTL` rounds half a second up but passes an expiration of zero or less on (`redis.go:152`), with the same end. Nothing is assumed of the expirations that callers pass;
`FieldsVanishForAReason` lists both cases with the other reasons.

## 4. Runs

| Run | Question | Bounds |
|---|---|---|
| `cm_safety` | Do the tables agree with the sessions and forget whoever has ended, and is the manager a directory? | 2 connections, 2 users, rooms r1, r2 and "", limit 2, timeout 0 |
| `cm_liveness` | Does a sweep finish its work; are silent sessions reclaimed and condemned readers ended? | 2 connections, 1 user, no named room, timeout 1 |
| `bc_push` | Whom does a room push that excludes its author reach? | 1 message, 2 connections, 2 users, rooms r1 and "", any number of logins, second ones included |
| `bc_liveness` | Is every message accepted or dropped once, written once, finished if accepted; does `Stop` return with an empty pool? | 2 messages, to all and private; 1 connection, 2 users; channel, queue and pool of size 1; a reader that replies meanwhile |
| `gw_requests` | Is each request answered once, in order, before its own push; does a push come once; do the answers tell the client its session; what ends the process? | 2 connections, 1 user, 2 rooms, limit 2, requests of 12 types and 4 kinds of join, 3 in all, both formats |
| `lc_load` | Does one loader run at a time; does a `DelCache` take effect; what can a caller get; does everyone return? | 3 calls, data that changes once, any number of stores, deletes and expiries |
| `http_requests` | Is "success" backed, does every wait end, and leave nothing behind? | 2 requests, 13 forms, 1 crash, any number of failed starts |
| `life_stop` | Is the limit respected, does `Stop` close the sessions and end, does a deadline end a reader? | 2 connections, 1 user, no named room, limit 1, timeout 0, read timeout 1 |
| `rd_store` | Is a lock kept for its ttl, does an orphan expire, when does a hash lose fields or its time to live? | 2 clients, ttl of 2 ticks, 1 retry, 2 fields, expirations of 0, 1 and 2 ticks; 3 sends for a lock, 2 for a hash |
| `bc_two_writers` | violation of `NoConcurrentWrite`: a worker and a reader write to one socket at once | |
| `life_heartbeat` | violation of `ActiveClientKept`: a client that sends its heartbeats is cut off | 1 connection, read timeout 2, interval 1 |
| `gw_error` | violation of `ErrorsAreAnswered`: a well-formed request whose answer cannot be written ends the process | 2 requests |

Why the bounds are enough. Two connections are what it takes for one to be in the way of the other (a shared user, a shared room, the last member
and the one before); two named rooms for a move; the empty room name because `JoinRoom` accepts it and every other method
takes it for "no room". The limit needs one connection more than it admits, which `life_stop` has. In `bc_push` one message is enough, for no property relates two; what two do to each other is `bc_liveness`'s question, where no property asks who is in which room. Sizes of one make both queues fill with two messages, so that dropping, overflow
goroutines and the waiting of `Stop` all occur. Connections, users and rooms are only compared for equality, so runs without liveness use symmetry.
Each message is posted at most once: the code keeps no identity of messages.

In `Gateway` three requests reach a login refused at the limit (a third one when two clients are in), a second login, a join after a login with a sweep between,
and a push to a room of two; `MaxRequests` is the only bound on an otherwise unbounded history. There is one user id because `handleLogin` gives every
client the id 1; headers carry that id or none.

In `HttpGateway` requests meet only in the processes' ups and downs, so two are enough; the thirteen forms are one for each way a request can go: every route, both services, each name of a service, in capitals too, missing and broken
data, a missing service name and a method without a request type. One crash of any process, at any point, and any number of lost calls.

In `GatewayProcess` one place for two connections makes one of them a connection that never gets a session; time-outs of 0 and 1 make every order of sweep, deadline and heartbeat occur.

In `RedisHelper` a send is a call or a command sent again (releases and the retries of `GetLock` are not counted): with three, a client takes a lock, refreshes it and another takes it afterwards, or a command is repeated twice; with
two, any two hash calls meet or one is repeated. Two ticks to the second make half a second an expiration, and zero stands for what EXPIRE takes as a deletion; two fields let one call delete what another wrote.

In `LocalCache` three calls are a leader, one that waits for it and one that comes when the flight is over; two versions are an old one and a new one.

`CHECK_DEADLOCK FALSE` is set where the system may stop: `Broadcaster` and `Gateway` after a panic or the last request, `GatewayProcess` after its exit, `HttpGateway` and `RedisHelper` after the last call.

### Fairness

*Manager.* The checker's goroutine runs (weak fairness). Time passes, however often the checker sweeps in between
(strong, since a sweep disables `Tick`). A reader that waits for `cm.mutex` gets it in the end: Go's mutex hands itself to a waiter that has
starved for a millisecond (strong). The second line of `handleHeartbeat` runs (weak). On a closed socket the reader uses up what is
buffered and then gets an error (strong). Nothing is assumed of clients: they need neither send nor close.

*Broadcaster.* The loop, the workers, a started task and a begun `Stop` go on (weak). A write ends because `sendMessage` sets a
write deadline. Handlers, clients and the signal that begins `Stop` may do nothing.

*Process.* As for the manager, but of the checker only that it ends a sweep it has begun. The goroutine of `Start` runs, and `Stop` gets on once a signal has come (strong, for both take turns with others at `cm.mutex`). A reader past its
deadline uses up what is buffered and gets its error (strong). No signal need come.

*HTTP.* Deadlines pass and a handler that runs takes its next step (weak). Calls need not arrive, processes need not be launched or come up, clients may ask nothing.

*Redis.* Time passes, what is on the network is executed or lost in the end, a call gets its reply or gives up, a backoff ends (weak). Clients need not call, nor release what they hold.

*Local cache.* A goroutine in `GetOrLoadCache` goes on (weak), which includes that the loader returns, with data or an error.

## 5. Proofs

Every theorem holds for all values of the constants that the named assumptions of its module allow.

### SessionDirectoryProofs

`DirectoryTypeCorrect` (`DirectorySpec => []DirectoryOK`), from `NoRoomAssumption` alone (the empty name is a room name: a login starts there), and
`LookupsAreRight` (`DirectorySpec => []LookupsAgree`), which is inductive with it. `BroadcasterProofs` and `GatewayProofs` rest on the same steps.

### ConnectionManagerProofs

For all sets of connections, users and rooms, all limits and timeouts, and with or without a Logger:

| Theorem | Says |
|---|---|
| `TypeCorrect` | `Spec => []TypeOK` |
| `IndexesCorrect` | `Spec => []IndexOK`; its corollaries are the next four |
| `RoomMembersFound`, `RoomIndexCorrect` | `Spec => []RoomIndexComplete`, `Spec => []RoomIndexSound` |
| `PrivateStaysPrivate`, `UserIndexCorrect` | `Spec => []UserIndexSound`, `Spec => []UserReachableUnlessShared` |
| `CapacityBounded` | `Spec => []CapacityRespected` |
| `DoneForgotten` | `Spec => []DoneIsForgotten` |
| `SweepsAreComplete` | `Spec => SweepIsComplete` |
| `ManagerIsADirectory` | `Spec => ImplementsDirectory` |

The assumptions are those of the module: the empty room name is a room name, limit and timeout are natural numbers, `HasLogger` is Boolean.

The argument. The room and user properties are inductive together with `TypeOK`, but not one by one: removing a session through its own room is
right only because `RoomIndexSound` says that no other room holds it, and deleting a user's entry keeps the others reachable only because
`UserReachableUnlessShared` says that nobody else had that entry. Hence the invariant `IndexOK`, their conjunction. The lemmas on
`Put`, `Delete`, `Leave` and `Enter` say what each does to a table, so that the proof has one step per operation of the manager and every action of a reader or of
the checker reduces to one of them. `CapacityBounded` carries along that the set of sessions is finite and follows from the cardinality lemmas of the library. `DoneForgotten` first shows that a
reader that has ended is not registered (`DoneUnregistered`) and then reads the rest off `IndexOK`. `SweepsAreComplete` needs to know what the loops have left to do: a session that is too old is still to be scanned, or noted
for removal. `ManagerIsADirectory` maps each operation to the step of the directory it is; the refinement mapping reads sessions and lookups off the three tables, and the limit that `AddConnection` tests is the guard of `Enroll`. Leftovers of second logins are part of the mapping, so this needs no more than `TypeOK`.

### BroadcasterProofs

For all sets of messages, connections, users and rooms, all sizes of the queues and the pool:

| Theorem | Says |
|---|---|
| `BTypeCorrect` | `BSpec => []BTypeOK` |
| `StoppedPoolIsEmpty` | `BSpec => []PoolDrained` |
| `NothingLeaks` | `BSpec => []DeliveredOnlyToAudience` |
| `TheExcludedStayOut` | `BSpec => []ExcludedStaysOut` |
| `EverybodyIsReached` | `BSpec => []NobodyMissed` |
| `BroadcasterIsAMulticast` | `BSpec => ImplementsMulticast` |

`QueuesOK` ties the queues to the stages: a message is in `messageCh` exactly while its stage says so, once, likewise in `taskQueue`, and a pool that has been waited for is empty. The four
properties of a delivery say what has been sent; to be inductive they must say where a connection is that has not been sent to yet, which `PostOK` does message by message:
what a worker has found, kept or written is among the audience (`Meant`), contains nobody who was barred all the time once the exclusion has been tested (`KeptOut`), and includes every faithful
connection that is not excluded (`Reaches`). What a lookup finds is tied to the sessions by the directory's invariant, which holds beside the pipeline as well. A change of the sessions in the middle can only make the audience larger and the other two sets smaller; a step of one worker leaves the other messages alone. The
refinement then needs only that a write is never made twice to one connection, which is part of `InHand`.

### GatewayProofs

For all sets of connections, users and rooms, all requests and any number of them, both formats, with or without Loggers:

| Theorem | Says |
|---|---|
| `GTypeCorrect` | `GSpec => []GTypeOK` |
| `AnswersMatchRequests` | `GSpec => []EveryRequestAnswered` |
| `AnswersPrecedePushes` | `GSpec => []AnswerPrecedesOwnPush` |
| `AnswersTellTheSession` | `GSpec => []ClientKnowsItsSession` |
| `PanicsHaveAFault` | `GSpec => []PanicNeedsAFault` |
| `PushesComeOnce` | `GSpec => []PushedAtMostOnce` |

The properties speak of clients that wait for nothing, so each needs its form for the middle of a request. `ReadersOK` says what may be left of a handler (`Remaining`, by the type of the last request taken) and that the session is
untouched before its first step. `AnsweredInOrder` adds to `EveryRequestAnswered` that a request whose answer is pending has none yet, which is why the next answer is a new one and in order, and that what a join or leave got is a
success. `PushesOK` says that a push under way is of a request that pushes and, of a join or leave, that the answer has been received (`Confirmed`): the link between the handler, which answers and then broadcasts,
and the worker, which writes the push much later. `Knows` is `ClientKnowsItsSession` in the middle of a request, where it holds as well, because the handler notes the outcome in the step that changes the session.
`PanicNeedsAFault` is inductive once it is said that a push is addressed to connections that have logged in only (`EnrolledOK`). `PushedAtMostOnce` needs `OnceOK`: a push is either still to be made by its handler, or waiting, or being sent to those that have not had it.
`Shapes` reduces the actions to ten kinds of step, so that each part of the invariant has one case for each kind.

### GatewayProcessProofs

| Theorem | Says |
|---|---|
| `ProcessTypeCorrect` | `PSpec => []PTypeOK` |
| `CapacityInProcess` | `PSpec => []CapacityRespected` |
| `DirectoryInProcess` | `PSpec => ImplementsDirectory` |
| `StopForgetsNobody` | `PSpec => []StopClosesSessions` |

A step of the process is a step of the manager or a `CloseOne`, which the manager does not know (`ManagerStep`), so the step lemmas of `ConnectionManagerProofs` serve again.
`StopClosesSessions` speaks of the end only; `StopKnowsSessions` adds that while Stop is closing, an open session is late or still to be closed. It is inductive because closed
connections stay closed and because only a login adds a session (`OthersAddNone`), which is then counted late.

### LocalCacheProofs

| Theorem | Says |
|---|---|
| `TypeCorrect` | `LSpec => []LTypeOK` |
| `SingleFlight` | `LSpec => []OneLoader` |
| `NothingStaleReturns` | `LSpec => FreshAfterDelete` |
| `ChangesComeFromHits` | `LSpec => OthersChangesOnlyBySecondLook` |

`FlightIsLed`: whoever is between the start and the end of `Do` is the leader, so there is one. `NothingStale`: the entry and what a flight carries are not older than the last
deletion that met no flight (a deletion that meets one does not count, for that flight may store what it had read), and no answer is older than its call. An answer may be the leader's own object, which changes with its owner;
`AnswersMakeSense` says that the owner has returned, or is copying the object to itself, before anyone else copies from it.

### HttpGatewayProofs

| Theorem | Says |
|---|---|
| `TypeCorrect` | `HSpec => []HTypeOK` |
| `SuccessCanBeReliedOn` | `HSpec => []SuccessIsBacked` |

The invariant relates the three sides of a request: the gateway has called what the request names (`CallsAreKnown`), the service counts an execution when it takes a call up and not before
(`CountIsRight`), and the user service hears of a request once, after the Logon has begun and before it is done (`LogonAsks`). The assumption on `Forms` says that a gRPC client of the login service calls a method of it.

### RedisHelperProofs

| Theorem | Says |
|---|---|
| `TypeCorrect` | `RSpec => []RTypeOK` |
| `LocksHold` | `RSpec => []LeaseHeld` |
| `CreatedHashesExpire` | `RSpec => []CreatedHashExpires` |
| `VanishingHasAReason` | `RSpec => FieldsVanishForAReason` |

`LeaseHeld` says whose the lock is; `GrantLasts` says for how long, and says it of a grant whose reply has not been read yet as well. It is kept because a token that has the lock keeps others out until it
expires or is released; that its own release is not under way while its client counts on it is `TokensAreOwn` (tokens are nobody else's, and a delayed command says where its client is) with `BusyHasCommand` (a command sent again
is of the call that is going on). Times are compared, never bounded: the theorem holds for every `LockTTL`, number of retries and number of repeated or delayed commands.

A hash that does not expire was created by the first half of an `HSetWithTTL` whose second half is still under way, or by a plain `HSet`: `CreatorOK` says so and that the client has had no reply then, and
`CopiesAreOwn` that no two commands on the network are the same copy, so that a reply belongs to the copy that created the hash. `VanishingHasAReason` needs the types only.

### What is only model-checked

Liveness: `SilentSessionsReclaimed`, `CondemnedReaderEnds`, `AcceptedIsFinished`, `StopReturns`, `EveryWaitEnds`, `IdleReadersEnd`, `StopEnds`, `OrphansExpire` and `EveryCallReturns`. Fairness and `ENABLED`
are out of the prover's reach. The three runs that expect a violation show behaviours, which need no proof. Every other property of a run is the statement of a theorem.
The type invariants `HTypeOK`, `PTypeOK`, `RTypeOK` and `LTypeOK` are proved and appear in no run.

## 6. Not modelled

* Message contents, wording of log lines, statistics getters: no property is about them.
* `BroadcastToUsers` and `BroadcastToRooms`: no caller. The origin check and the read limit of the WebSocket server only refuse a client.
* `pkg/db/mysql`: opens a connection pool with constants and keeps no state of its own.
* The remaining methods of `pkg/db/redis` are one Redis command each: what they guarantee is what Redis guarantees.
* Configuration: its values are the constants of the models.
* The generated message types (`pb/*.pb.go`) hold and encode data that no decision depends on; `loginservice` and `userservice` are generated wrappers that nothing imports. The generated gRPC
  clients and handlers are modelled as the calls they make.
