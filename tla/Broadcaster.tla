---------------------------- MODULE Broadcaster -----------------------------
(***************************************************************************)
(* The broadcaster and its worker pool                                     *)
(* (src/server/gateway_ws/internal/manager/broadcaster.go).                *)
(*                                                                         *)
(*   handlers --Broadcast--> messageCh --processMessages--> taskQueue      *)
(*                |full                        |full            |          *)
(*              dropped                     go task()        workers       *)
(*                                             +-------+--------+          *)
(*                                   processBroadcastMessage: look up the  *)
(*                                   connections, drop the excluded user,  *)
(*                                   write to each of the rest             *)
(*                                                                         *)
(* The pipeline runs beside the sessions that come and go                  *)
(* (SessionDirectory, which ConnectionManager implements), beside the      *)
(* readers that write their own responses, and beside Stop.  The stage of  *)
(* a message is the control point of whichever goroutine holds it.         *)
(***************************************************************************)
EXTENDS SessionDirectory, Sequences

CONSTANTS
    Posts,         \* messages handed to Broadcast, each at most once
    Message,       \* what each one is: [kind, to, exclude]
    ChannelSize,   \* capacity of messageCh (1000)
    QueueSize,     \* capacity of taskQueue (10000)
    Workers,       \* number of goroutines in the pool (10)
    Repliers,      \* connections whose requests are answered meanwhile
    NoUser,        \* ExcludeUser 0: nobody is excluded
    HasLogger      \* is b.Logger set?  FALSE in NewBroadcaster

(* The three ways the handlers address a message: BroadcastToUser,          *)
(* BroadcastToRoom and BroadcastToAll.                                      *)
Envelope ==
    [kind : {"user"}, to : Users, exclude : {NoUser}]
        \cup [kind : {"room"}, to : Rooms, exclude : Users \cup {NoUser}]
        \cup [kind : {"all"}, to : {NoRoom}, exclude : Users \cup {NoUser}]

ASSUME MessageAssumption == Message \in [Posts -> Envelope] /\ NoUser \notin Users /\ Repliers \subseteq Conns
ASSUME PoolAssumption ==
    ChannelSize \in Nat /\ QueueSize \in Nat \ {0} /\ Workers \in Nat \ {0}
ASSUME LoggerAssumption == HasLogger \in BOOLEAN

VARIABLES
    stage,      \* where each message is
    messageCh,  \* the messages in the channel, oldest first
    taskQueue,  \* the messages whose task is in the pool's queue, oldest first
    byWorker,   \* messages whose task a worker runs; others run in "go task()"
    todo,       \* connections a message has still to be checked for, or sent to
    passed,     \* connections that passed the check of ExcludeUser
    writing,    \* the connection a message is being written to, if any
    replying,   \* connections to which a reader is writing a response
    loop,       \* processMessages: "running" or "returned"
    stop,       \* how far Stop has come, see StopSteps
    panic,      \* what has ended the process, "none" as long as nothing has
    sent,       \* history: the connections each message was written to, in order
    audience,   \* history: whom a message was meant for, at any time since accepted
    faithful,   \* history: who was entitled to it at all times since accepted
    barred      \* history: who was excluded from it at all times since accepted

work      == <<todo, passed, writing>>
queues    == <<messageCh, taskQueue, byWorker>>
histories == <<audience, faithful, barred>>
bvars == <<directory, stage, queues, work, replying, loop, stop, panic, sent, histories>>

Running  == {"lookup", "filter", "send"}
Accepted == {"channel", "taken", "queued"} \cup Running
Stages   == {"new", "dropped", "finished"} \cup Accepted

Alive == panic = "none"

Goto(p, s) == stage' = [stage EXCEPT ![p] = s]

(* b.Infof and b.Errorf on the nil Logger: a panic no goroutine recovers. *)
Log == panic' = IF HasLogger THEN panic ELSE "nil logger"

(* ServiceContext.Stop cancels the context; Broadcaster.Stop closes         *)
(* messageCh; WorkerPool.Shutdown closes taskQueue and waits for the        *)
(* workers.                                                                 *)
StopSteps == <<"no", "cancelled", "channel closed", "pool closed", "stopped">>

Reached(s) == \E i, j \in DOMAIN StopSteps : StopSteps[i] = s /\ StopSteps[j] = stop /\ i <= j

-----------------------------------------------------------------------------
(* Mutant: whoever is logged in. *)
LookupsOfAll(p) == Present

Lookups(p) == Found(Message[p].kind, Message[p].to)

(* The sessions a message is meant for, now: not what the lookup returns. *)
MeantFor(p) ==
    CASE Message[p].kind = "user" -> SessionsOf(Message[p].to)
      [] Message[p].kind = "room" -> Members(Message[p].to)
      [] Message[p].kind = "all"  -> Present

Excluded(p) == IF Message[p].exclude = NoUser THEN {} ELSE SessionsOf(Message[p].exclude)

(* Mutant: nobody is excluded. *)
PassesAlways(p, c) == TRUE

(* The test of ExcludeUser asks for the session again: in a room message a  *)
(* connection that has lost its session meanwhile passes, in a message to   *)
(* all it does not.                                                         *)
Passes(p, c) ==
    IF c \in Present THEN sessions[c].user # Message[p].exclude
    ELSE Message[p].kind = "room"

-----------------------------------------------------------------------------
ChannelFull == Len(messageCh) >= ChannelSize

(* Mutant: one task more than the queue holds. *)
QueueFullLate == Len(taskQueue) > QueueSize

QueueFull == Len(taskQueue) >= QueueSize

(* Broadcast, called by a handler in a reader's goroutine: never blocks.    *)
(* Sending on the closed channel panics, also in a select with a default.   *)
Broadcast(p) ==
    /\ Alive /\ stage[p] = "new"
    /\ IF Reached("channel closed")
       THEN /\ panic' = "send on closed channel"
            /\ UNCHANGED <<stage, messageCh, histories>>
       ELSE IF ~ChannelFull
       THEN /\ Goto(p, "channel")
            /\ messageCh' = Append(messageCh, p)
            /\ audience' = [audience EXCEPT ![p] = MeantFor(p)]
            /\ faithful' = [faithful EXCEPT ![p] = MeantFor(p) \ Excluded(p)]
            /\ barred' = [barred EXCEPT ![p] = Excluded(p)]
            /\ UNCHANGED panic
       ELSE /\ Goto(p, "dropped")
            /\ Log
            /\ UNCHANGED <<messageCh, histories>>
    /\ UNCHANGED <<directory, taskQueue, byWorker, work, replying, loop, stop, sent>>

(* processMessages: between two messages the loop may see the context       *)
(* cancelled, a message, or, when all are taken, the channel closed.  With  *)
(* several ready Go's select takes any.                                     *)
LoopIdle == Alive /\ loop = "running" /\ \A p \in Posts : stage[p] # "taken"

LoopReturn ==
    /\ LoopIdle
    /\ Reached("cancelled") \/ (Reached("channel closed") /\ messageCh = <<>>)
    /\ loop' = "returned"
    /\ UNCHANGED <<directory, stage, queues, work, replying, stop, panic, sent, histories>>

LoopReceive ==
    /\ LoopIdle
    /\ messageCh # <<>>
    /\ Goto(Head(messageCh), "taken")
    /\ messageCh' = Tail(messageCh)
    /\ UNCHANGED <<directory, taskQueue, byWorker, work, replying, loop, stop, panic, sent, histories>>

(* WorkerPool.Submit: a full queue starts a goroutine of its own. *)
Submit(p) ==
    /\ Alive /\ stage[p] = "taken"
    /\ IF Reached("pool closed")
       THEN panic' = "send on closed channel" /\ UNCHANGED <<stage, taskQueue>>
       ELSE /\ IF ~QueueFull
               THEN Goto(p, "queued") /\ taskQueue' = Append(taskQueue, p)
               ELSE Goto(p, "lookup") /\ UNCHANGED taskQueue
            /\ UNCHANGED panic
    /\ UNCHANGED <<directory, messageCh, byWorker, work, replying, loop, stop, sent, histories>>

(* worker: an idle one takes the next task. *)
WorkerTakes ==
    /\ Alive
    /\ taskQueue # <<>>
    /\ Cardinality(byWorker) < Workers
    /\ Goto(Head(taskQueue), "lookup")
    /\ taskQueue' = Tail(taskQueue)
    /\ byWorker' = byWorker \cup {Head(taskQueue)}
    /\ UNCHANGED <<directory, messageCh, work, replying, loop, stop, panic, sent, histories>>

-----------------------------------------------------------------------------
(* processBroadcastMessage.  The lookup is one call that holds the          *)
(* manager's read lock; every later step sees the sessions as they are then.*)
LookUp(p) ==
    /\ Alive /\ stage[p] = "lookup"
    /\ todo' = [todo EXCEPT ![p] = Lookups(p)]
    /\ Goto(p, IF Message[p].exclude = NoUser THEN "send" ELSE "filter")
    /\ UNCHANGED <<directory, queues, passed, writing, replying, loop, stop, panic, sent, histories>>

Filter(p, c) ==
    /\ Alive /\ stage[p] = "filter" /\ c \in todo[p]
    /\ todo' = [todo EXCEPT ![p] = @ \ {c}]
    /\ passed' = [passed EXCEPT ![p] = IF Passes(p, c) THEN @ \cup {c} ELSE @]
    /\ UNCHANGED <<directory, stage, queues, writing, replying, loop, stop, panic, sent, histories>>

FilterDone(p) ==
    /\ Alive /\ stage[p] = "filter" /\ todo[p] = {}
    /\ todo' = [todo EXCEPT ![p] = passed[p]]
    /\ passed' = [passed EXCEPT ![p] = {}]
    /\ Goto(p, "send")
    /\ UNCHANGED <<directory, queues, writing, replying, loop, stop, panic, sent, histories>>

(* A websocket.Conn allows one writer at a time and nothing here excludes   *)
(* two: gorilla panics when it notices, and may not notice.                 *)
Busy(c) == c \in replying \/ \E q \in Posts : c \in writing[q]

WriteBegins(c) ==
    \/ UNCHANGED panic
    \/ Busy(c) /\ panic' = "concurrent write to websocket connection"

(* Mutant: a connection that was written to stays on the list. *)
SendAgain(p, c) ==
    /\ Alive /\ stage[p] = "send" /\ writing[p] = {} /\ c \in todo[p]
    /\ writing' = [writing EXCEPT ![p] = {c}]
    /\ WriteBegins(c)
    /\ UNCHANGED <<directory, stage, queues, todo, passed, replying, loop, stop, sent, histories>>

Send(p, c) ==
    /\ Alive /\ stage[p] = "send" /\ writing[p] = {} /\ c \in todo[p]
    /\ todo' = [todo EXCEPT ![p] = @ \ {c}]
    /\ writing' = [writing EXCEPT ![p] = {c}]
    /\ WriteBegins(c)
    /\ UNCHANGED <<directory, stage, queues, passed, replying, loop, stop, sent, histories>>

(* Mutant: an error ends the loop over the connections. *)
SentOrBreak(p) ==
    /\ Alive /\ writing[p] # {}
    /\ \E c \in writing[p] : sent' = [sent EXCEPT ![p] = Append(@, c)]
    /\ writing' = [writing EXCEPT ![p] = {}]
    /\ UNCHANGED todo \/ todo' = [todo EXCEPT ![p] = {}]
    /\ UNCHANGED <<directory, stage, queues, passed, replying, loop, stop, panic, histories>>

(* WriteMessage returns, at the latest at its deadline; an error is logged  *)
(* and the next connection is tried.                                        *)
Sent(p) ==
    /\ Alive /\ writing[p] # {}
    /\ \E c \in writing[p] : sent' = [sent EXCEPT ![p] = Append(@, c)]
    /\ writing' = [writing EXCEPT ![p] = {}]
    /\ UNCHANGED panic \/ Log
    /\ UNCHANGED <<directory, stage, queues, todo, passed, replying, loop, stop, histories>>

(* Mutant: the worker is lost. *)
FinishLosesWorker(p) ==
    /\ Alive /\ stage[p] = "send" /\ todo[p] = {} /\ writing[p] = {}
    /\ Goto(p, "finished")
    /\ UNCHANGED <<directory, queues, work, replying, loop, stop, panic, sent, histories>>

(* The closing Infof; the worker is free again. *)
Finish(p) ==
    /\ Alive /\ stage[p] = "send" /\ todo[p] = {} /\ writing[p] = {}
    /\ Goto(p, "finished")
    /\ byWorker' = byWorker \ {p}
    /\ Log
    /\ UNCHANGED <<directory, messageCh, taskQueue, work, replying, loop, stop, sent, histories>>

(* A handler answers its own client from the reader's goroutine. *)
ReplyBegins(c) ==
    /\ Alive /\ c \in Repliers \ replying
    /\ replying' = replying \cup {c}
    /\ WriteBegins(c)
    /\ UNCHANGED <<directory, stage, queues, work, loop, stop, sent, histories>>

ReplyEnds(c) ==
    /\ Alive /\ c \in replying
    /\ replying' = replying \ {c}
    /\ UNCHANGED <<directory, stage, queues, work, loop, stop, panic, sent, histories>>

-----------------------------------------------------------------------------
StopStep(i) ==
    /\ Alive
    /\ stop = StopSteps[i] /\ stop' = StopSteps[i + 1]
    /\ UNCHANGED <<directory, stage, queues, work, replying, loop, panic, sent, histories>>

StopBegins == StopStep(1)

(* Mutant: Stop does not wait for the workers. *)
StopProceedsAtOnce == \E i \in 2 .. Len(StopSteps) - 1 : StopStep(i)

(* wg.Wait returns when the closed queue is empty and no worker has a task. *)
StopProceeds ==
    /\ \E i \in 2 .. Len(StopSteps) - 1 : StopStep(i)
    /\ stop' = "stopped" => taskQueue = <<>> /\ byWorker = {}

(* Clients log in, move and leave while messages are under way. *)
SessionsChange ==
    /\ Alive
    /\ DirectoryNext
    /\ LET Track(old, new(_)) == [p \in Posts |-> IF stage[p] \in Accepted THEN new(p) ELSE old[p]]
       IN  /\ audience' = Track(audience, LAMBDA p : audience[p] \cup MeantFor(p)')
           /\ faithful' = Track(faithful, LAMBDA p : faithful[p] \cap (MeantFor(p) \ Excluded(p))')
           /\ barred' = Track(barred, LAMBDA p : barred[p] \cap Excluded(p)')
    /\ UNCHANGED <<stage, queues, work, replying, loop, stop, panic, sent>>

BInit ==
    /\ DirectoryInit
    /\ stage = [p \in Posts |-> "new"]
    /\ messageCh = <<>> /\ taskQueue = <<>> /\ byWorker = {}
    /\ todo = [p \in Posts |-> {}]
    /\ passed = [p \in Posts |-> {}]
    /\ writing = [p \in Posts |-> {}]
    /\ replying = {}
    /\ loop = "running" /\ stop = "no" /\ panic = "none"
    /\ sent = [p \in Posts |-> <<>>]
    /\ audience = [p \in Posts |-> {}]
    /\ faithful = [p \in Posts |-> {}]
    /\ barred = [p \in Posts |-> {}]

(* processBroadcastMessage of one message, in whatever goroutine. *)
Task(p) ==
    \/ LookUp(p)
    \/ \E c \in Conns : Filter(p, c) \/ Send(p, c)
    \/ FilterDone(p)
    \/ Sent(p)
    \/ Finish(p)

Loop == LoopReturn \/ LoopReceive \/ \E p \in Posts : Submit(p)

BNext ==
    \/ \E p \in Posts : Broadcast(p) \/ Task(p)
    \/ Loop
    \/ WorkerTakes
    \/ \E c \in Conns : ReplyBegins(c) \/ ReplyEnds(c)
    \/ StopBegins
    \/ StopProceeds
    \/ SessionsChange

BSpec == BInit /\ [][BNext]_bvars

(* The loop and the workers run, a started goroutine runs, a write ends by  *)
(* its deadline and Stop, once begun, proceeds.  Handlers, clients and the  *)
(* signal that begins Stop are free to do nothing.                          *)
BFairness ==
    /\ WF_bvars(Loop)
    /\ WF_bvars(WorkerTakes)
    /\ WF_bvars(StopProceeds)
    /\ \A p \in Posts : WF_bvars(Task(p))

BFairSpec == BSpec /\ BFairness

-----------------------------------------------------------------------------
(* Properties *)

(* Every variable has its type. *)
BTypeOK ==
    /\ DirectoryOK
    /\ stage \in [Posts -> Stages]
    /\ messageCh \in Seq(Posts) /\ Len(messageCh) <= ChannelSize
    /\ taskQueue \in Seq(Posts) /\ Len(taskQueue) <= QueueSize
    /\ byWorker \in SUBSET Posts
    /\ todo \in [Posts -> SUBSET Conns]
    /\ passed \in [Posts -> SUBSET Conns]
    /\ writing \in [Posts -> SUBSET Conns]
    /\ replying \in SUBSET Conns
    /\ loop \in {"running", "returned"}
    /\ stop \in Range(StopSteps)
    /\ panic \in {"none", "nil logger", "send on closed channel",
                  "concurrent write to websocket connection"}
    /\ sent \in [Posts -> Seq(Conns)]
    /\ audience \in [Posts -> SUBSET Conns]
    /\ faithful \in [Posts -> SUBSET Conns]
    /\ barred \in [Posts -> SUBSET Conns]

SentTo(p) == Range(sent[p])

(* A room with the empty name is entered like any other and never left.     *)
Named(p) == Message[p].kind = "room" => Message[p].to # NoRoom

(* A message reaches only connections it was meant for at some time since   *)
(* it was accepted: no room's chatter leaks to somebody who was not there   *)
(* while it was under way.  It does leak to a connection that has logged in *)
(* a second time, which stays in the tables where the first session was     *)
(* (AddConnection).                                                         *)
DeliveredOnlyToAudience ==
    \A p \in Posts : Named(p) => SentTo(p) \ relogged \subseteq audience[p]

(* Whoever was in the room (or logged in, for a message to all) all the     *)
(* time and not excluded has been written to when the message is finished,  *)
(* whoever else came, left or moved meanwhile.                              *)
NobodyMissed ==
    \A p \in Posts :
        stage[p] = "finished" /\ Message[p].kind # "user" /\ Named(p) =>
            faithful[p] \subseteq SentTo(p)

(* A connection that belonged to the excluded user all the time is not      *)
(* written to, though the lookup and the check are two separate calls.      *)
ExcludedStaysOut == \A p \in Posts : SentTo(p) \cap barred[p] = {}

(* When Stop has returned, the pool is empty and stays so: whatever was     *)
(* queued has run, and nothing can be queued behind its back.               *)
PoolDrained ==
    stop = "stopped" => byWorker = {} /\ \A p \in Posts : stage[p] # "queued"

(* The broadcaster implements Multicast: accepted or dropped once, written  *)
(* to each connection at most once, silent once finished.                   *)
Status(p) == IF stage[p] \in Accepted THEN "pending" ELSE stage[p]

Abstract == INSTANCE Multicast WITH
    status <- [p \in Posts |-> Status(p)],
    received <- sent

ImplementsMulticast == Abstract!MulticastSpec

(* An accepted message is finished, unless the process panics or Stop is    *)
(* under way: no full queue and no busy pool holds it up for ever.          *)
AcceptedIsFinished ==
    \A p \in Posts :
        stage[p] = "channel" ~> (stage[p] = "finished" \/ ~Alive \/ stop # "no")

(* Stop returns, whatever is queued or being sent when it begins, unless    *)
(* the process panics.                                                      *)
StopReturns == stop = "cancelled" ~> (stop = "stopped" \/ ~Alive)

(* No two goroutines write to one connection at the same time.              *)
NoConcurrentWrite == panic # "concurrent write to websocket connection"

=============================================================================
