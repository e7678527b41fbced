------------------------- MODULE BroadcasterProofs --------------------------
(***************************************************************************)
(* Machine-checked proofs about Broadcaster, for every number of messages, *)
(* connections, users, rooms and workers, queues of any length, and a      *)
(* logger that is set or not.                                              *)
(*                                                                         *)
(* The inductive invariant has two parts.  QueuesOK ties the queues to the *)
(* stages of the messages in them.  PostOK says of each message, on its    *)
(* own, where the connections are that it still owes a delivery to.        *)
(***************************************************************************)
EXTENDS Broadcaster, SessionDirectoryProofs, SequenceTheorems, TLAPS

-----------------------------------------------------------------------------
(* Most steps of the pipeline leave all of the directory alone. *)
USE DEF directory

-----------------------------------------------------------------------------
(* Sequences *)

(* What Append puts into a sequence is in its range, and nothing else is new. *)
LEMMA RangeAppend ==
    ASSUME NEW S, NEW s \in Seq(S), NEW e \in S
    PROVE  Range(Append(s, e)) = Range(s) \cup {e}
<1>1. /\ Append(s, e) \in Seq(S) /\ Len(Append(s, e)) = Len(s) + 1
      /\ \A i \in 1 .. Len(s) : Append(s, e)[i] = s[i]
      /\ Append(s, e)[Len(s) + 1] = e
      /\ Len(s) \in Nat
  BY AppendProperties, LenProperties
<1>2. /\ Range(Append(s, e)) = {Append(s, e)[i] : i \in 1 .. Len(s) + 1}
      /\ Range(s) = {s[i] : i \in 1 .. Len(s)}
  BY <1>1, RangeEquality
<1>3. 1 .. Len(s) + 1 = (1 .. Len(s)) \cup {Len(s) + 1}
  BY <1>1
<1>4. QED
  BY <1>1, <1>2, <1>3

(* The messages of a queue: all at the stage of the queue, each once.       *)
Queue(q, st, s) ==
    /\ \A i \in 1 .. Len(q) : st[q[i]] = s
    /\ \A i, j \in 1 .. Len(q) : q[i] = q[j] => i = j

(* The head of a queue goes to another stage; the rest stays, in the queue. *)
LEMMA QueueTakes ==
    ASSUME NEW q \in Seq(Posts), q # <<>>, NEW st \in [Posts -> Stages], NEW s, NEW t,
           Queue(q, st, s)
    PROVE  /\ Head(q) \in Posts /\ st[Head(q)] = s /\ Tail(q) \in Seq(Posts)
           /\ Len(Tail(q)) = Len(q) - 1 /\ Len(q) \in Nat
           /\ Queue(Tail(q), [st EXCEPT ![Head(q)] = t], s)
           /\ Range(q) = Range(Tail(q)) \cup {Head(q)}
<1>1. /\ Len(q) \in Nat \ {0} /\ Head(q) = q[1] /\ q[1] \in Posts
      /\ \A i \in 1 .. Len(q) : q[i] \in Posts
  BY EmptySeq, ElementOfSeq
<1>2. /\ Tail(q) \in Seq(Posts) /\ Len(Tail(q)) = Len(q) - 1
      /\ \A i \in 1 .. Len(q) - 1 : Tail(q)[i] = q[i + 1]
  BY HeadTailProperties
<1>3. Queue(Tail(q), [st EXCEPT ![Head(q)] = t], s)
  <2>1. ASSUME NEW i \in 1 .. Len(Tail(q))
        PROVE  [st EXCEPT ![Head(q)] = t][Tail(q)[i]] = s
    <3>1. i + 1 \in 1 .. Len(q) /\ 1 \in 1 .. Len(q) /\ i + 1 # 1 /\ Tail(q)[i] = q[i + 1]
      BY <1>1, <1>2
    <3>2. q[i + 1] # q[1] /\ st[q[i + 1]] = s /\ q[i + 1] \in Posts
      BY <1>1, <3>1 DEF Queue
    <3>3. QED
      BY <1>1, <3>1, <3>2
  <2>2. ASSUME NEW i \in 1 .. Len(Tail(q)), NEW j \in 1 .. Len(Tail(q)), Tail(q)[i] = Tail(q)[j]
        PROVE  i = j
    <3>1. i + 1 \in 1 .. Len(q) /\ j + 1 \in 1 .. Len(q) /\ q[i + 1] = q[j + 1]
      BY <1>1, <1>2, <2>2
    <3>2. i + 1 = j + 1
      BY <3>1 DEF Queue
    <3>3. QED
      BY <1>1, <1>2, <3>2
  <2>3. QED
    BY <2>1, <2>2 DEF Queue
<1>4. Range(q) = Range(Tail(q)) \cup {Head(q)}
  <2>1. Range(q) = {q[i] : i \in 1 .. Len(q)}
    BY RangeEquality
  <2>2. Range(Tail(q)) = {Tail(q)[i] : i \in 1 .. Len(Tail(q))}
    BY <1>2, RangeEquality
  <2>3. ASSUME NEW i \in 1 .. Len(q), i # 1
        PROVE  q[i] \in Range(Tail(q))
    <3>1. i - 1 \in 1 .. Len(Tail(q)) /\ Tail(q)[i - 1] = q[i]
      BY <1>1, <1>2, <2>3
    <3>2. QED
      BY <2>2, <3>1
  <2>4. ASSUME NEW i \in 1 .. Len(Tail(q))
        PROVE  Tail(q)[i] \in Range(q)
    <3>1. i + 1 \in 1 .. Len(q) /\ Tail(q)[i] = q[i + 1]
      BY <1>1, <1>2
    <3>2. QED
      BY <2>1, <3>1
  <2>5. QED
    BY <1>1, <2>1, <2>2, <2>3, <2>4
<1>5. QED
  BY <1>1, <1>2, <1>3, <1>4 DEF Queue

(* A message that was at another stage enters a queue. *)
LEMMA QueueGrows ==
    ASSUME NEW q \in Seq(Posts), NEW st \in [Posts -> Stages], NEW s, NEW p \in Posts,
           st[p] # s, Queue(q, st, s)
    PROVE  /\ Append(q, p) \in Seq(Posts) /\ Len(Append(q, p)) = Len(q) + 1 /\ Len(q) \in Nat
           /\ Queue(Append(q, p), [st EXCEPT ![p] = s], s)
<1>1. /\ Append(q, p) \in Seq(Posts) /\ Len(Append(q, p)) = Len(q) + 1 /\ Len(q) \in Nat
      /\ \A i \in 1 .. Len(q) : Append(q, p)[i] = q[i] /\ q[i] \in Posts
      /\ Append(q, p)[Len(q) + 1] = p
  BY AppendProperties, LenProperties, ElementOfSeq
<1>2. \A i \in 1 .. Len(q) + 1 : i \in 1 .. Len(q) \/ i = Len(q) + 1
  BY <1>1
<1>3. \A i \in 1 .. Len(q) : q[i] # p
  BY DEF Queue
<1>4. QED
  BY <1>1, <1>2, <1>3 DEF Queue

(* A message of no queue, or of another, moves on. *)
LEMMA QueueStays ==
    ASSUME NEW q \in Seq(Posts), NEW st \in [Posts -> Stages], NEW s, NEW p, NEW t,
           st[p] # s, Queue(q, st, s)
    PROVE  Queue(q, [st EXCEPT ![p] = t], s)
<1>1. \A i \in 1 .. Len(q) : q[i] \in Posts /\ q[i] # p
  BY ElementOfSeq DEF Queue
<1>2. QED
  BY <1>1 DEF Queue

(* A queue with room for one more takes one more; one that loses its head   *)
(* still fits.                                                              *)
LEMMA QueueFits ==
    ASSUME NEW q \in Seq(Posts), NEW size \in Nat, Len(q) <= size
    PROVE  /\ \A p \in Posts : ~(Len(q) >= size) =>
                Append(q, p) \in Seq(Posts) /\ Len(Append(q, p)) <= size
           /\ q # <<>> => /\ Head(q) \in Posts /\ Tail(q) \in Seq(Posts)
                          /\ Len(Tail(q)) <= size
<1>1. Len(q) \in Nat
  BY LenProperties
<1>2. ASSUME NEW p \in Posts, ~(Len(q) >= size)
      PROVE  Append(q, p) \in Seq(Posts) /\ Len(Append(q, p)) <= size
  <2>1. Append(q, p) \in Seq(Posts) /\ Len(Append(q, p)) = Len(q) + 1
    BY AppendProperties
  <2>2. QED
    BY <1>1, <1>2, <2>1
<1>3. ASSUME q # <<>>
      PROVE  Head(q) \in Posts /\ Tail(q) \in Seq(Posts) /\ Len(Tail(q)) <= size
  <2>1. Head(q) \in Posts /\ Tail(q) \in Seq(Posts) /\ Len(Tail(q)) = Len(q) - 1
    BY <1>3, HeadTailProperties
  <2>2. QED
    BY <1>1, <2>1
<1>4. QED
  BY <1>2, <1>3

-----------------------------------------------------------------------------
(* Parts of steps *)

(* The steps of Stop, in their order. *)
LEMMA Stops ==
    /\ DOMAIN StopSteps = 1 .. 5 /\ Len(StopSteps) = 5
    /\ StopSteps[1] = "no" /\ StopSteps[2] = "cancelled" /\ StopSteps[3] = "channel closed"
    /\ StopSteps[4] = "pool closed" /\ StopSteps[5] = "stopped"
    /\ Range(StopSteps) = {"no", "cancelled", "channel closed", "pool closed", "stopped"}
<1>1. /\ DOMAIN StopSteps = 1 .. 5 /\ Len(StopSteps) = 5
      /\ StopSteps[1] = "no" /\ StopSteps[2] = "cancelled" /\ StopSteps[3] = "channel closed"
      /\ StopSteps[4] = "pool closed" /\ StopSteps[5] = "stopped"
  BY DEF StopSteps
<1>2. 1 .. 5 = {1, 2, 3, 4, 5}
  OBVIOUS
<1>3. Range(StopSteps) = {StopSteps[1], StopSteps[2], StopSteps[3], StopSteps[4], StopSteps[5]}
  BY <1>1, <1>2 DEF Range
<1>4. QED
  BY <1>1, <1>3

LEMMA PoolClosed ==
    ASSUME stop \in Range(StopSteps)
    PROVE  Reached("pool closed") <=> stop \in {"pool closed", "stopped"}
<1>0. 1 .. 5 = {1, 2, 3, 4, 5}
  OBVIOUS
<1>1. DOMAIN StopSteps = {1, 2, 3, 4, 5}
  BY <1>0, Stops
<1>2. \A i \in {1, 2, 3, 4, 5} : StopSteps[i] = "pool closed" <=> i = 4
  BY Stops
<1>3. Reached("pool closed") <=> \E j \in {1, 2, 3, 4, 5} : StopSteps[j] = stop /\ 4 <= j
  BY <1>1, <1>2 DEF Reached
<1>4. /\ stop = "pool closed" => StopSteps[4] = stop
      /\ stop = "stopped" => StopSteps[5] = stop
      /\ stop = "no" => \A j \in {4, 5} : StopSteps[j] # stop
      /\ stop = "cancelled" => \A j \in {4, 5} : StopSteps[j] # stop
      /\ stop = "channel closed" => \A j \in {4, 5} : StopSteps[j] # stop
  BY Stops
<1>5. stop \in {"no", "cancelled", "channel closed", "pool closed", "stopped"}
  BY Stops
<1>6. CASE stop \in {"pool closed", "stopped"}
  <2>1. \E j \in {1, 2, 3, 4, 5} : StopSteps[j] = stop /\ 4 <= j
    <3>1. 4 \in {1, 2, 3, 4, 5} /\ 5 \in {1, 2, 3, 4, 5} /\ 4 <= 4 /\ 4 <= 5
      OBVIOUS
    <3>2. CASE StopSteps[4] = stop
      BY <3>1, <3>2
    <3>3. CASE StopSteps[5] = stop
      BY <3>1, <3>3
    <3>4. QED
      BY <1>4, <1>6, <3>2, <3>3
  <2>2. QED
    BY <1>3, <1>6, <2>1
<1>7. CASE stop \in {"no", "cancelled", "channel closed"}
  <2>1. StopSteps[4] # stop /\ StopSteps[5] # stop
    BY <1>4, <1>7
  <2>2. \A j \in {1, 2, 3, 4, 5} : StopSteps[j] = stop => ~(4 <= j)
    BY <2>1
  <2>3. QED
    BY <1>3, <1>7, <2>2
<1>8. QED
  BY <1>5, <1>6, <1>7

(* Each step of Stop is one of four. *)
LEMMA StopMoves ==
    /\ StopBegins \/ StopProceeds => \E i \in {1, 2, 3, 4} : StopStep(i)
    /\ \A i \in {1, 2, 3, 4} : StopStep(i) => stop' \in Range(StopSteps)
<1>1. 2 .. Len(StopSteps) - 1 = {2, 3, 4}
  <2>0. Len(StopSteps) = 5
    BY Stops
  <2>1. Len(StopSteps) - 1 = 4
    BY <2>0
  <2>2. 2 .. 4 = {2, 3, 4}
    OBVIOUS
  <2>3. QED
    BY <2>1, <2>2
<1>2. ASSUME NEW i \in {1, 2, 3, 4}, StopStep(i) PROVE stop' \in Range(StopSteps)
  <2>1. i + 1 \in 1 .. 5
    OBVIOUS
  <2>2. QED
    BY <1>2, <2>1, Stops DEF StopStep, Range
<1>3. QED
  BY <1>1, <1>2 DEF StopBegins, StopProceeds

LEMMA ChangeTracks ==
    ASSUME SessionsChange
    PROVE /\ audience' = [p \in Posts |-> IF stage[p] \in Accepted
                             THEN audience[p] \cup MeantFor(p)' ELSE audience[p]]
          /\ faithful' = [p \in Posts |-> IF stage[p] \in Accepted
                             THEN faithful[p] \cap (MeantFor(p)' \ Excluded(p)') ELSE faithful[p]]
          /\ barred' = [p \in Posts |-> IF stage[p] \in Accepted
                             THEN barred[p] \cap Excluded(p)' ELSE barred[p]]
          /\ Alive /\ DirectoryNext
          /\ UNCHANGED <<stage, queues, work, replying, loop, stop, panic, sent>>
BY DEF SessionsChange

LEMMA Unmoved ==
    ASSUME sessions' = sessions, NEW p
    PROVE  MeantFor(p)' = MeantFor(p) /\ Excluded(p)' = Excluded(p)
BY DEF MeantFor, Excluded, Members, SessionsOf, Present

-----------------------------------------------------------------------------
(* Types *)

(* The three kinds of address. *)
LEMMA Addresses ==
    ASSUME NEW p \in Posts
    PROVE  /\ Message[p].kind \in {"user", "room", "all"}
           /\ Message[p].kind = "user" => Message[p].to \in Users
           /\ Message[p].kind = "room" => Message[p].to \in Rooms
BY MessageAssumption DEF Envelope

LEMMA PresentAreConns ==
    ASSUME DirectoryOK, NEW p \in Posts
    PROVE  /\ MeantFor(p) \subseteq Conns /\ MeantFor(p) \subseteq Present
           /\ Excluded(p) \subseteq Conns
           /\ Lookups(p) \subseteq Conns
<1>1. MeantFor(p) \subseteq Present
  BY Addresses DEF MeantFor, Members, SessionsOf
<1>2. Excluded(p) \subseteq Present
  BY DEF Excluded, SessionsOf
<1>3. Lookups(p) \subseteq Conns
  BY Addresses, FoundAreConns DEF Lookups
<1>4. QED
  BY <1>1, <1>2, <1>3 DEF DirectoryOK

(* What the lookup of a message finds, and whom the message is meant for.   *)
LEMMA LookupIsRight ==
    ASSUME LookupsAgree, NEW p \in Posts, Named(p)
    PROVE  /\ Lookups(p) \ relogged \subseteq MeantFor(p)
           /\ Message[p].kind # "user" => MeantFor(p) \subseteq Lookups(p)
BY Addresses DEF LookupsAgree, Named, Lookups, Found, MeantFor

LEMMA PresentAreConnsNext ==
    ASSUME DirectoryOK', NEW p \in Posts
    PROVE  MeantFor(p)' \subseteq Conns
<1>1. Message[p].kind \in {"user", "room", "all"}
  BY Addresses
<1>2. MeantFor(p)' \subseteq Present'
  BY <1>1 DEF MeantFor, Members, SessionsOf
<1>3. QED
  BY <1>2 DEF DirectoryOK

(* Moving one message keeps the type of the stages. *)
LEMMA GotoType ==
    ASSUME NEW p, NEW s \in Stages, stage \in [Posts -> Stages], Goto(p, s)
    PROVE  stage' \in [Posts -> Stages]
BY DEF Goto

(* What begins or ends a write, and a log line, do to panic. *)
Panics == {"none", "nil logger", "send on closed channel",
           "concurrent write to websocket connection"}

LEMMA PanicType ==
    ASSUME panic \in Panics
    PROVE  /\ Log => panic' \in Panics
           /\ \A c : WriteBegins(c) => panic' \in Panics
BY DEF Log, WriteBegins, Panics

LEMMA BTypeInit == BInit => BTypeOK
<1>1. BInit => DirectoryOK
  BY DirectoryTypeInit DEF BInit
<1>2. QED
  <2>1. /\ \A S : <<>> \in Seq(S)
        /\ Len(<<>>) = 0 /\ "no" \in Range(StopSteps) /\ "new" \in Stages
    BY EmptySeq, Stops DEF Stages
  <2>2. QED
    BY <1>1, <2>1, PoolAssumption DEF BInit, BTypeOK

LEMMA BTypeStep == BTypeOK /\ [BNext]_bvars => BTypeOK'
<1> SUFFICES ASSUME BTypeOK, [BNext]_bvars
             PROVE  BTypeOK'
  OBVIOUS
<1>0. /\ DirectoryOK /\ panic \in Panics
      /\ \A p \in Posts : MeantFor(p) \subseteq Conns /\ Excluded(p) \subseteq Conns
                           /\ Lookups(p) \subseteq Conns
      /\ UNCHANGED directory => DirectoryOK'
  BY PresentAreConns DEF BTypeOK, Panics, DirectoryOK, Present
<1> USE DEF BTypeOK, Panics
<1>1. ASSUME NEW p \in Posts, Broadcast(p) PROVE BTypeOK'
  <2>1. CASE UNCHANGED <<stage, messageCh, histories>>
    BY <1>0, <1>1, <2>1, PanicType DEF Broadcast, histories, work
  <2>2. CASE /\ ~ChannelFull /\ Goto(p, "channel") /\ messageCh' = Append(messageCh, p)
             /\ audience' = [audience EXCEPT ![p] = MeantFor(p)]
             /\ faithful' = [faithful EXCEPT ![p] = MeantFor(p) \ Excluded(p)]
             /\ barred' = [barred EXCEPT ![p] = Excluded(p)]
             /\ UNCHANGED panic
    <3>1. messageCh' \in Seq(Posts) /\ Len(messageCh') <= ChannelSize
      BY <2>2, QueueFits, PoolAssumption DEF ChannelFull
    <3>2. stage' \in [Posts -> Stages]
      BY <2>2, GotoType DEF Stages, Accepted
    <3>3. QED
      BY <1>0, <1>1, <2>2, <3>1, <3>2 DEF Broadcast, work
  <2>3. CASE Goto(p, "dropped") /\ Log /\ UNCHANGED <<messageCh, histories>>
    <3>1. stage' \in [Posts -> Stages]
      BY <2>3, GotoType DEF Stages
    <3>2. QED
      BY <1>0, <1>1, <2>3, <3>1, PanicType DEF Broadcast, histories, work
  <2>4. QED
    BY <1>1, <2>1, <2>2, <2>3 DEF Broadcast
<1>2. CASE LoopReturn
  BY <1>0, <1>2 DEF LoopReturn, queues, work, histories
<1>3. CASE LoopReceive
  <2>1. messageCh' \in Seq(Posts) /\ Len(messageCh') <= ChannelSize
    BY <1>3, QueueFits, PoolAssumption DEF LoopReceive
  <2>2. stage' \in [Posts -> Stages]
    BY <1>3, GotoType DEF LoopReceive, Stages, Accepted
  <2>3. QED
    BY <1>0, <1>3, <2>1, <2>2 DEF LoopReceive, work, histories
<1>4. ASSUME NEW p \in Posts, Submit(p) PROVE BTypeOK'
  <2>1. taskQueue' \in Seq(Posts) /\ Len(taskQueue') <= QueueSize
    <3>1. CASE UNCHANGED taskQueue
      BY <3>1
    <3>2. CASE ~QueueFull /\ taskQueue' = Append(taskQueue, p)
      BY <3>2, QueueFits, PoolAssumption DEF QueueFull
    <3>3. QED
      BY <1>4, <3>1, <3>2 DEF Submit
  <2>2. stage' \in [Posts -> Stages]
    BY <1>4, GotoType DEF Submit, Stages, Accepted, Running
  <2>3. panic' \in Panics
    BY <1>4 DEF Submit
  <2>4. QED
    BY <1>0, <1>4, <2>1, <2>2, <2>3 DEF Submit, work, histories
<1>5. CASE WorkerTakes
  <2>1. /\ Head(taskQueue) \in Posts
        /\ taskQueue' \in Seq(Posts) /\ Len(taskQueue') <= QueueSize
    BY <1>5, QueueFits, PoolAssumption DEF WorkerTakes
  <2>2. stage' \in [Posts -> Stages]
    BY <1>5, GotoType DEF WorkerTakes, Stages, Accepted, Running
  <2>3. byWorker' \in SUBSET Posts
    BY <1>5, <2>1 DEF WorkerTakes
  <2>4. QED
    BY <1>0, <1>5, <2>1, <2>2, <2>3 DEF WorkerTakes, work, histories
<1>6. ASSUME NEW p \in Posts, LookUp(p) PROVE BTypeOK'
  BY <1>0, <1>6 DEF LookUp, Goto, Stages, Accepted, Running, queues, histories
<1>7. ASSUME NEW p \in Posts, NEW c \in Conns, Filter(p, c) PROVE BTypeOK'
  BY <1>0, <1>7 DEF Filter, queues, histories
<1>8. ASSUME NEW p \in Posts, FilterDone(p) PROVE BTypeOK'
  BY <1>0, <1>8 DEF FilterDone, Goto, Stages, Accepted, Running, queues, histories
<1>9. ASSUME NEW p \in Posts, NEW c \in Conns, Send(p, c) PROVE BTypeOK'
  BY <1>0, <1>9, PanicType DEF Send, queues, histories
<1>10. ASSUME NEW p \in Posts, Sent(p) PROVE BTypeOK'
  <2>1. PICK c \in writing[p] : sent' = [sent EXCEPT ![p] = Append(@, c)]
    BY <1>10 DEF Sent
  <2>a. c \in Conns /\ sent[p] \in Seq(Conns)
    OBVIOUS
  <2>b. Append(sent[p], c) \in Seq(Conns)
    BY <2>a, AppendProperties
  <2>2. sent' \in [Posts -> Seq(Conns)]
    BY <2>1, <2>b
  <2>3. panic' \in Panics
    BY <1>0, <1>10, PanicType DEF Sent
  <2>4. QED
    BY <1>0, <1>10, <2>2, <2>3 DEF Sent, queues, histories
<1>11. ASSUME NEW p \in Posts, Finish(p) PROVE BTypeOK'
  BY <1>0, <1>11, PanicType DEF Finish, Goto, Stages, work, histories
<1>12. ASSUME NEW c \in Conns, ReplyBegins(c) \/ ReplyEnds(c) PROVE BTypeOK'
  BY <1>0, <1>12, PanicType DEF ReplyBegins, ReplyEnds, queues, work, histories
<1>13. ASSUME NEW i \in {1, 2, 3, 4}, StopStep(i) PROVE BTypeOK'
  BY <1>0, <1>13, StopMoves DEF StopStep, queues, work, histories
<1>14. CASE SessionsChange
  <2>1. DirectoryOK'
    BY <1>0, <1>14, DirectoryTypeStep DEF SessionsChange
  <2>2. \A p \in Posts : MeantFor(p)' \subseteq Conns
    BY <2>1, PresentAreConnsNext
  <2>3. QED
    BY <1>14, <2>1, <2>2, ChangeTracks DEF queues, work
<1>15. CASE UNCHANGED bvars
  BY <1>0, <1>15 DEF bvars, queues, work, histories
<1>16. QED
  BY <1>1, <1>2, <1>3, <1>4, <1>5, <1>6, <1>7, <1>8, <1>9, <1>10, <1>11, <1>12, <1>13,
     <1>14, <1>15, StopMoves
  DEF BNext, Task, Loop

(* Every variable has its type in every reachable state. *)
THEOREM BTypeCorrect == BSpec => []BTypeOK
BY BTypeInit, BTypeStep, PTL DEF BSpec

-----------------------------------------------------------------------------
(* The inductive invariant *)

(* The two queues hold what is at their stage, and a stopped pool nothing.  *)
QueuesOK ==
    /\ Queue(messageCh, stage, "channel")
    /\ Queue(taskQueue, stage, "queued")
    /\ \A p \in Posts : stage[p] = "queued" => p \in Range(taskQueue)
    /\ stop = "stopped" => taskQueue = <<>> /\ byWorker = {}

Waiting == {"channel", "taken", "queued", "lookup"}

(* What a task has in hand at each stage, and that no connection is in its  *)
(* hands twice.                                                             *)
InHand(p) ==
    /\ stage[p] \notin {"filter", "send"} => todo[p] = {}
    /\ stage[p] # "filter" => passed[p] = {}
    /\ stage[p] # "send" => writing[p] = {}
    /\ stage[p] \notin {"send", "finished"} => sent[p] = <<>>
    /\ \A c, d \in writing[p] : c = d
    /\ todo[p] \cap SentTo(p) = {} /\ writing[p] \cap SentTo(p) = {}
    /\ todo[p] \cap writing[p] = {}

(* Nobody is in hand who was not meant at some time, or has logged in twice.*)
Meant(p) ==
    Named(p) =>
        /\ stage[p] \in Accepted => MeantFor(p) \subseteq audience[p]
        /\ (todo[p] \cup passed[p] \cup writing[p] \cup SentTo(p)) \ relogged
              \subseteq audience[p]

(* Past the check of ExcludeUser nobody is left who is excluded all along.  *)
KeptOut(p) ==
    /\ stage[p] \in Accepted => barred[p] \subseteq Excluded(p)
    /\ (passed[p] \cup writing[p] \cup SentTo(p)) \cap barred[p] = {}
    /\ stage[p] = "send" => todo[p] \cap barred[p] = {}

(* Who is entitled all along is never out of hand until written to. *)
Reaches(p) ==
    Message[p].kind # "user" /\ Named(p) =>
        /\ stage[p] \in Accepted => faithful[p] \subseteq MeantFor(p) \ Excluded(p)
        /\ stage[p] = "filter" => faithful[p] \subseteq todo[p] \cup passed[p]
        /\ stage[p] = "send" => faithful[p] \subseteq todo[p] \cup writing[p] \cup SentTo(p)
        /\ stage[p] = "finished" => faithful[p] \subseteq SentTo(p)

PostOK(p) == InHand(p) /\ Meant(p) /\ KeptOut(p) /\ Reaches(p)

PostsOK == \A p \in Posts : PostOK(p)

LEMMA InvInit == BInit => QueuesOK /\ PostsOK
<1> SUFFICES ASSUME BInit PROVE QueuesOK /\ PostsOK
  OBVIOUS
<1>1. QueuesOK
  BY DEF BInit, QueuesOK, Queue
<1>2. ASSUME NEW p \in Posts PROVE PostOK(p)
  <2>1. SentTo(p) = {} /\ sent[p] = <<>>
    BY DEF BInit, SentTo, Range
  <2>2. stage[p] = "new"
    BY DEF BInit
  <2>3. QED
    BY <2>1, <2>2 DEF BInit, PostOK, InHand, Meant, KeptOut, Reaches, Accepted, Running
<1>3. QED
  BY <1>1, <1>2 DEF PostsOK

-----------------------------------------------------------------------------
(* The queues *)

LEMMA QueuesStep == BTypeOK /\ QueuesOK /\ [BNext]_bvars => QueuesOK'
<1> SUFFICES ASSUME BTypeOK, QueuesOK, [BNext]_bvars
             PROVE  QueuesOK'
  OBVIOUS
<1>0. /\ stage \in [Posts -> Stages] /\ messageCh \in Seq(Posts) /\ taskQueue \in Seq(Posts)
      /\ stop \in Range(StopSteps) /\ byWorker \in SUBSET Posts
  BY DEF BTypeOK
(* A message that is in neither queue moves to a stage that has none.       *)
<1>a. ASSUME NEW p \in Posts, NEW s, stage[p] \notin {"channel", "queued"}, s # "queued",
             Goto(p, s), UNCHANGED <<messageCh, taskQueue, stop>>,
             byWorker' \subseteq byWorker
      PROVE  QueuesOK'
  <2>1. /\ Queue(messageCh, stage', "channel")
        /\ Queue(taskQueue, stage', "queued")
    BY <1>0, <1>a, QueueStays DEF QueuesOK, Goto
  <2>2. \A q \in Posts : stage'[q] = "queued" => q \in Range(taskQueue)
    BY <1>0, <1>a DEF QueuesOK, Goto
  <2>3. QED
    BY <1>a, <2>1, <2>2 DEF QueuesOK, Range
<1>b. ASSUME UNCHANGED <<stage, messageCh, taskQueue, byWorker, stop>>
      PROVE  QueuesOK'
  BY <1>b DEF QueuesOK, Queue, Range
<1>1. ASSUME NEW p \in Posts, Broadcast(p) PROVE QueuesOK'
  <2>1. CASE UNCHANGED <<stage, messageCh>>
    BY <1>1, <1>b, <2>1 DEF Broadcast
  <2>2. CASE Goto(p, "channel") /\ messageCh' = Append(messageCh, p)
    <3>1. Queue(messageCh', stage', "channel")
      BY <1>0, <1>1, <2>2, QueueGrows DEF QueuesOK, Goto, Broadcast
    <3>2. Queue(taskQueue, stage', "queued")
      BY <1>0, <1>1, <2>2, QueueStays DEF QueuesOK, Goto, Broadcast
    <3>3. \A q \in Posts : stage'[q] = "queued" => q \in Range(taskQueue)
      BY <1>0, <2>2 DEF QueuesOK, Goto
    <3>4. QED
      BY <1>1, <3>1, <3>2, <3>3 DEF QueuesOK, Broadcast, Range
  <2>3. CASE Goto(p, "dropped") /\ UNCHANGED messageCh
    BY <1>1, <1>a, <2>3 DEF Broadcast
  <2>4. QED
    BY <1>1, <2>1, <2>2, <2>3 DEF Broadcast
<1>2. CASE LoopReturn
  BY <1>2, <1>b DEF LoopReturn, queues
<1>3. CASE LoopReceive
  <2> DEFINE h == Head(messageCh)
  <2>1. h \in Posts /\ stage[h] = "channel" /\ Queue(messageCh', stage', "channel")
    BY <1>0, <1>3, QueueTakes DEF QueuesOK, Goto, LoopReceive
  <2>2. Queue(taskQueue, stage', "queued")
    BY <1>0, <1>3, <2>1, QueueStays DEF QueuesOK, Goto, LoopReceive
  <2>3. \A q \in Posts : stage'[q] = "queued" => q \in Range(taskQueue)
    BY <1>0, <1>3, <2>1 DEF QueuesOK, Goto, LoopReceive
  <2>4. QED
    BY <1>3, <2>1, <2>2, <2>3 DEF QueuesOK, LoopReceive, Range
<1>4. ASSUME NEW p \in Posts, Submit(p) PROVE QueuesOK'
  <2>1. CASE UNCHANGED <<stage, taskQueue>>
    BY <1>4, <1>b, <2>1 DEF Submit
  <2>2. CASE Goto(p, "queued") /\ taskQueue' = Append(taskQueue, p) /\ ~Reached("pool closed")
    <3>1. Queue(taskQueue', stage', "queued")
      BY <1>0, <1>4, <2>2, QueueGrows DEF QueuesOK, Goto, Submit
    <3>2. Queue(messageCh, stage', "channel")
      BY <1>0, <1>4, <2>2, QueueStays DEF QueuesOK, Goto, Submit
    <3>3. Range(taskQueue') = Range(taskQueue) \cup {p}
      BY <1>0, <2>2, RangeAppend
    <3>4. \A q \in Posts : stage'[q] = "queued" => q \in Range(taskQueue')
      BY <1>0, <2>2, <3>3 DEF QueuesOK, Goto
    <3>5. stop' # "stopped"
      BY <1>0, <1>4, <2>2, PoolClosed DEF Submit
    <3>6. QED
      BY <1>4, <3>1, <3>2, <3>4, <3>5 DEF QueuesOK, Submit, Range
  <2>3. CASE Goto(p, "lookup") /\ UNCHANGED taskQueue
    BY <1>4, <1>a, <2>3 DEF Submit
  <2>4. QED
    BY <1>4, <2>1, <2>2, <2>3 DEF Submit
<1>5. CASE WorkerTakes
  <2> DEFINE h == Head(taskQueue)
  <2>1. /\ h \in Posts /\ stage[h] = "queued" /\ Queue(taskQueue', stage', "queued")
        /\ Range(taskQueue) = Range(taskQueue') \cup {h}
    BY <1>0, <1>5, QueueTakes DEF QueuesOK, Goto, WorkerTakes
  <2>2. Queue(messageCh, stage', "channel")
    BY <1>0, <1>5, <2>1, QueueStays DEF QueuesOK, Goto, WorkerTakes
  <2>3. \A q \in Posts : stage'[q] = "queued" => q # h /\ stage[q] = "queued"
    BY <1>0, <1>5, <2>1 DEF Goto, WorkerTakes
  <2>4. \A q \in Posts : stage'[q] = "queued" => q \in Range(taskQueue')
    BY <2>1, <2>3 DEF QueuesOK
  <2>5. stop' # "stopped"
    BY <1>5 DEF QueuesOK, WorkerTakes
  <2>6. QED
    BY <1>5, <2>1, <2>2, <2>4, <2>5 DEF QueuesOK, WorkerTakes, Range
<1>6. ASSUME NEW p \in Posts, LookUp(p) \/ FilterDone(p) \/ Finish(p) PROVE QueuesOK'
  BY <1>6, <1>a DEF LookUp, FilterDone, Finish, queues
<1>7. ASSUME NEW p \in Posts, NEW c \in Conns, Filter(p, c) \/ Send(p, c) PROVE QueuesOK'
  BY <1>7, <1>b DEF Filter, Send, queues
<1>8. ASSUME NEW p \in Posts, Sent(p) PROVE QueuesOK'
  BY <1>8, <1>b DEF Sent, queues
<1>9. ASSUME NEW c \in Conns, ReplyBegins(c) \/ ReplyEnds(c) PROVE QueuesOK'
  BY <1>9, <1>b DEF ReplyBegins, ReplyEnds, queues
<1>10. CASE StopBegins
  <2>a. 1 + 1 = 2
    OBVIOUS
  <2>1. stop' = "cancelled"
    BY <1>10, <2>a, Stops DEF StopBegins, StopStep
  <2>2. QED
    BY <1>10, <2>1 DEF StopBegins, StopStep, QueuesOK, Queue, Range, queues
<1>11. CASE StopProceeds
  <2>1. UNCHANGED <<stage, messageCh, taskQueue, byWorker>>
    BY <1>11 DEF StopProceeds, StopStep, queues
  <2>2. stop' = "stopped" => taskQueue = <<>> /\ byWorker = {}
    BY <1>11 DEF StopProceeds
  <2>3. QED
    BY <2>1, <2>2 DEF QueuesOK, Queue, Range
<1>12. CASE SessionsChange
  BY <1>12, <1>b DEF SessionsChange, queues
<1>13. CASE UNCHANGED bvars
  BY <1>13, <1>b DEF bvars, queues
<1>14. QED
  BY <1>1, <1>2, <1>3, <1>4, <1>5, <1>6, <1>7, <1>8, <1>9, <1>10, <1>11, <1>12, <1>13
  DEF BNext, Task, Loop

LEMMA DrainedFollows == BTypeOK /\ QueuesOK => PoolDrained
<1> SUFFICES ASSUME BTypeOK, QueuesOK, stop = "stopped", NEW p \in Posts, stage[p] = "queued"
             PROVE  FALSE
  BY DEF PoolDrained, QueuesOK
<1>1. p \in Range(<<>>)
  BY DEF QueuesOK
<1>2. QED
  BY <1>1 DEF Range

-----------------------------------------------------------------------------
(* The messages, one by one *)

(* A message nobody touches stays as it is. *)
LEMMA PostKept ==
    ASSUME NEW p \in Posts, PostOK(p),
           stage'[p] = stage[p] \/ {stage[p], stage'[p]} \subseteq Waiting,
           sessions' = sessions, relogged' = relogged, todo'[p] = todo[p], passed'[p] = passed[p],
           writing'[p] = writing[p], sent'[p] = sent[p], audience'[p] = audience[p],
           faithful'[p] = faithful[p], barred'[p] = barred[p]
    PROVE  PostOK(p)'
<1>1. MeantFor(p)' = MeantFor(p) /\ Excluded(p)' = Excluded(p) /\ SentTo(p)' = SentTo(p)
  BY Unmoved DEF SentTo
<1>2. CASE stage'[p] = stage[p]
  BY <1>1, <1>2 DEF PostOK, InHand, Meant, KeptOut, Reaches
<1>3. CASE {stage[p], stage'[p]} \subseteq Waiting
  <2>1. /\ stage[p] \in Accepted /\ stage'[p] \in Accepted
        /\ stage[p] \notin {"filter", "send", "finished"}
        /\ stage'[p] \notin {"filter", "send", "finished"}
    BY <1>3 DEF Waiting, Accepted, Running
  <2>2. QED
    BY <1>1, <2>1 DEF PostOK, InHand, Meant, KeptOut, Reaches
<1>4. QED
  BY <1>2, <1>3

(* Who passes the check is not excluded, and who is entitled passes. *)
LEMMA CheckIsRight ==
    ASSUME DirectoryOK, NEW p \in Posts, NEW c
    PROVE  /\ Passes(p, c) => c \notin Excluded(p)
           /\ c \in MeantFor(p) \ Excluded(p) => Passes(p, c)
<1>1. Message[p].kind \in {"user", "room", "all"}
  BY Addresses
<1>2. MeantFor(p) \subseteq Present
  BY PresentAreConns
<1>3. c \in Present => sessions[c].user \in Users
  BY DEF DirectoryOK
<1>4. CASE Message[p].exclude = NoUser
  BY <1>2, <1>3, <1>4, MessageAssumption DEF Passes, Excluded
<1>5. CASE Message[p].exclude # NoUser
  BY <1>2, <1>5 DEF Passes, Excluded, SessionsOf
<1>6. QED
  BY <1>4, <1>5

LEMMA LookUpKeeps ==
    ASSUME BTypeOK, LookupsAgree, NEW p \in Posts, PostOK(p), LookUp(p)
    PROVE  PostOK(p)'
<1>0. DirectoryOK /\ stage \in [Posts -> Stages] /\ todo \in [Posts -> SUBSET Conns]
  BY DEF BTypeOK
<1>1. /\ todo[p] = {} /\ passed[p] = {} /\ writing[p] = {} /\ SentTo(p) = {}
      /\ stage[p] \in Accepted
  BY DEF PostOK, InHand, LookUp, SentTo, Range, Accepted, Running
<1>2. PICK S : S = Lookups(p)
  OBVIOUS
<1>3. Named(p) => /\ S \ relogged \subseteq MeantFor(p)
                  /\ Message[p].kind # "user" => MeantFor(p) \subseteq S
  BY <1>2, LookupIsRight
<1>4. /\ todo'[p] = S /\ passed'[p] = {} /\ writing'[p] = {} /\ SentTo(p)' = {}
      /\ audience' = audience /\ faithful' = faithful /\ barred' = barred
      /\ MeantFor(p)' = MeantFor(p) /\ Excluded(p)' = Excluded(p) /\ relogged' = relogged
      /\ stage'[p] = IF Message[p].exclude = NoUser THEN "send" ELSE "filter"
      /\ sent' = sent
  BY <1>0, <1>1, <1>2, Unmoved DEF LookUp, SentTo, histories, Goto
<1>5. Message[p].exclude = NoUser => Excluded(p) = {}
  BY DEF Excluded
<1>6. InHand(p)'
  BY <1>1, <1>4 DEF InHand, PostOK, LookUp
<1>7. Meant(p)'
  BY <1>1, <1>3, <1>4 DEF Meant, PostOK
<1>8. KeptOut(p)'
  BY <1>1, <1>4, <1>5 DEF KeptOut, PostOK
<1>9. Reaches(p)'
  BY <1>1, <1>3, <1>4 DEF Reaches, PostOK
<1>10. QED
  BY <1>6, <1>7, <1>8, <1>9 DEF PostOK

LEMMA FilterKeeps ==
    ASSUME BTypeOK, NEW p \in Posts, PostOK(p), NEW c \in Conns, Filter(p, c)
    PROVE  PostOK(p)'
<1>0. DirectoryOK /\ passed \in [Posts -> SUBSET Conns] /\ todo \in [Posts -> SUBSET Conns]
  BY DEF BTypeOK
<1>1. stage[p] = "filter" /\ stage' = stage /\ stage[p] \in Accepted
  BY DEF Filter, Accepted, Running
<1>2. /\ todo'[p] = todo[p] \ {c} /\ c \in todo[p]
      /\ passed'[p] = IF Passes(p, c) THEN passed[p] \cup {c} ELSE passed[p]
      /\ writing' = writing /\ SentTo(p)' = SentTo(p) /\ sent' = sent
      /\ audience' = audience /\ faithful' = faithful /\ barred' = barred
      /\ MeantFor(p)' = MeantFor(p) /\ Excluded(p)' = Excluded(p) /\ relogged' = relogged
  BY <1>0, Unmoved DEF Filter, SentTo, histories
<1>3. /\ Passes(p, c) => c \notin Excluded(p)
      /\ c \in MeantFor(p) \ Excluded(p) => Passes(p, c)
  BY <1>0, CheckIsRight
<1>4. InHand(p)'
  BY <1>1, <1>2 DEF InHand, PostOK
<1>5. Meant(p)'
  BY <1>1, <1>2 DEF Meant, PostOK
<1>6. KeptOut(p)'
  BY <1>1, <1>2, <1>3 DEF KeptOut, PostOK
<1>7. Reaches(p)'
  BY <1>1, <1>2, <1>3 DEF Reaches, PostOK
<1>8. QED
  BY <1>4, <1>5, <1>6, <1>7 DEF PostOK

LEMMA FilterDoneKeeps ==
    ASSUME BTypeOK, NEW p \in Posts, PostOK(p), FilterDone(p)
    PROVE  PostOK(p)'
<1>1. /\ stage[p] = "filter" /\ stage'[p] = "send" /\ stage[p] \in Accepted
      /\ todo[p] = {} /\ todo'[p] = passed[p] /\ passed'[p] = {}
      /\ writing' = writing /\ SentTo(p)' = SentTo(p) /\ sent' = sent
      /\ audience' = audience /\ faithful' = faithful /\ barred' = barred
      /\ MeantFor(p)' = MeantFor(p) /\ Excluded(p)' = Excluded(p) /\ relogged' = relogged
  BY Unmoved DEF FilterDone, SentTo, histories, BTypeOK, Goto, Accepted, Running
<1>2. writing[p] = {} /\ SentTo(p) = {}
  BY <1>1 DEF PostOK, InHand, SentTo, Range
<1>3. InHand(p)'
  BY <1>1, <1>2 DEF InHand, PostOK
<1>4. Meant(p)' /\ KeptOut(p)' /\ Reaches(p)'
  BY <1>1, <1>2 DEF Meant, KeptOut, Reaches, PostOK
<1>5. QED
  BY <1>3, <1>4 DEF PostOK

LEMMA SendKeeps ==
    ASSUME BTypeOK, NEW p \in Posts, PostOK(p), NEW c \in Conns, Send(p, c)
    PROVE  PostOK(p)'
<1>1. /\ stage[p] = "send" /\ stage' = stage /\ stage[p] \in Accepted
      /\ c \in todo[p] /\ todo'[p] = todo[p] \ {c}
      /\ writing[p] = {} /\ writing'[p] = {c}
      /\ passed' = passed /\ SentTo(p)' = SentTo(p) /\ sent' = sent
      /\ audience' = audience /\ faithful' = faithful /\ barred' = barred
      /\ MeantFor(p)' = MeantFor(p) /\ Excluded(p)' = Excluded(p) /\ relogged' = relogged
  BY Unmoved DEF Send, SentTo, histories, BTypeOK, Accepted, Running
<1>2. InHand(p)'
  BY <1>1 DEF InHand, PostOK
<1>3. Meant(p)' /\ KeptOut(p)' /\ Reaches(p)'
  BY <1>1 DEF Meant, KeptOut, Reaches, PostOK
<1>4. QED
  BY <1>2, <1>3 DEF PostOK

LEMMA SentKeeps ==
    ASSUME BTypeOK, NEW p \in Posts, PostOK(p), Sent(p)
    PROVE  PostOK(p)' /\ \E c \in Conns : /\ stage[p] = "send" /\ c \notin SentTo(p)
                                          /\ sent' = [sent EXCEPT ![p] = Append(@, c)]
<1>1. PICK c \in writing[p] : sent' = [sent EXCEPT ![p] = Append(@, c)]
  BY DEF Sent
<1>2. c \in Conns /\ sent[p] \in Seq(Conns) /\ sent \in [Posts -> Seq(Conns)]
  BY DEF BTypeOK
<1>3. sent'[p] = Append(sent[p], c)
  BY <1>1, <1>2
<1>4. SentTo(p)' = SentTo(p) \cup {c}
  BY <1>2, <1>3, RangeAppend DEF SentTo
<1>5. stage[p] = "send" /\ stage[p] \in Accepted /\ writing[p] = {c} /\ c \notin SentTo(p)
  BY DEF PostOK, InHand, Sent, Accepted, Running
<1>6. /\ stage' = stage /\ todo' = todo /\ passed' = passed /\ writing'[p] = {}
      /\ audience' = audience /\ faithful' = faithful /\ barred' = barred
      /\ MeantFor(p)' = MeantFor(p) /\ Excluded(p)' = Excluded(p) /\ relogged' = relogged
  BY Unmoved DEF Sent, histories, BTypeOK
<1>7. InHand(p)'
  BY <1>4, <1>5, <1>6 DEF InHand, PostOK
<1>8. Meant(p)' /\ KeptOut(p)' /\ Reaches(p)'
  BY <1>4, <1>5, <1>6 DEF Meant, KeptOut, Reaches, PostOK
<1>9. QED
  BY <1>1, <1>2, <1>5, <1>7, <1>8 DEF PostOK

LEMMA FinishKeeps ==
    ASSUME BTypeOK, NEW p \in Posts, PostOK(p), Finish(p)
    PROVE  PostOK(p)'
<1>1. /\ stage[p] = "send" /\ stage'[p] = "finished" /\ stage'[p] \notin Accepted
      /\ relogged' = relogged
      /\ todo[p] = {} /\ writing[p] = {}
      /\ todo' = todo /\ passed' = passed /\ writing' = writing
      /\ SentTo(p)' = SentTo(p) /\ sent' = sent
      /\ audience' = audience /\ faithful' = faithful /\ barred' = barred
  BY DEF Finish, SentTo, histories, BTypeOK, Accepted, Running, Goto, work
<1>2. InHand(p)'
  BY <1>1 DEF InHand, PostOK
<1>3. Meant(p)' /\ KeptOut(p)' /\ Reaches(p)'
  BY <1>1 DEF Meant, KeptOut, Reaches, PostOK
<1>4. QED
  BY <1>2, <1>3 DEF PostOK

(* Broadcast of p itself: a message that was new. *)
LEMMA BroadcastKeeps ==
    ASSUME BTypeOK, NEW p \in Posts, PostOK(p), Broadcast(p)
    PROVE  PostOK(p)'
<1>a. stage[p] = "new" /\ stage[p] \notin Accepted /\ stage \in [Posts -> Stages]
  BY DEF Broadcast, BTypeOK, Accepted, Running
<1>b. todo[p] = {} /\ passed[p] = {} /\ writing[p] = {} /\ sent[p] = <<>>
  BY <1>a DEF PostOK, InHand
<1>c. SentTo(p) = {}
  BY <1>b DEF SentTo, Range
<1>1. /\ stage[p] = "new" /\ stage[p] \notin Accepted /\ stage \in [Posts -> Stages]
      /\ todo[p] = {} /\ passed[p] = {} /\ writing[p] = {} /\ SentTo(p) = {} /\ sent[p] = <<>>
  BY <1>a, <1>b, <1>c
<1>2. /\ todo' = todo /\ passed' = passed /\ writing' = writing /\ sent' = sent
      /\ SentTo(p)' = SentTo(p) /\ sessions' = sessions
      /\ MeantFor(p)' = MeantFor(p) /\ Excluded(p)' = Excluded(p) /\ relogged' = relogged
  BY Unmoved DEF Broadcast, work, SentTo
<1>3. CASE UNCHANGED <<stage, histories>>
  BY <1>2, <1>3, PostKept DEF histories
<1>4. CASE /\ Goto(p, "channel")
           /\ audience' = [audience EXCEPT ![p] = MeantFor(p)]
           /\ faithful' = [faithful EXCEPT ![p] = MeantFor(p) \ Excluded(p)]
           /\ barred' = [barred EXCEPT ![p] = Excluded(p)]
  <2>1. /\ stage'[p] = "channel" /\ audience'[p] = MeantFor(p)
        /\ faithful'[p] = MeantFor(p) \ Excluded(p) /\ barred'[p] = Excluded(p)
    BY <1>1, <1>4 DEF Goto, BTypeOK
  <2>2. QED
    BY <1>1, <1>2, <2>1 DEF PostOK, InHand, Meant, KeptOut, Reaches
<1>5. CASE Goto(p, "dropped") /\ UNCHANGED histories
  <2>1. stage'[p] = "dropped" /\ "dropped" \notin Accepted
    BY <1>1, <1>5 DEF Goto, Accepted, Running
  <2>2. QED
    BY <1>1, <1>2, <1>5, <2>1 DEF PostOK, InHand, Meant, KeptOut, Reaches, histories
<1>6. QED
  BY <1>3, <1>4, <1>5 DEF Broadcast

(* Whoever comes, moves or goes: audience grows with the sessions, faithful *)
(* and barred shrink with them.                                             *)
LEMMA ChangeKeeps ==
    ASSUME BTypeOK, NEW p \in Posts, PostOK(p), SessionsChange
    PROVE  PostOK(p)'
<1>1. /\ stage' = stage /\ todo' = todo /\ passed' = passed /\ writing' = writing
      /\ sent' = sent /\ SentTo(p)' = SentTo(p)
  BY DEF SessionsChange, work, SentTo
<1>r. relogged \subseteq relogged'
  BY DEF SessionsChange, DirectoryNext, Enroll, Dismiss, Move, Quit
<1>2. CASE stage[p] \in Accepted
  <2>1. /\ audience'[p] = audience[p] \cup MeantFor(p)'
        /\ faithful'[p] = faithful[p] \cap (MeantFor(p)' \ Excluded(p)')
        /\ barred'[p] = barred[p] \cap Excluded(p)'
    BY <1>2, ChangeTracks
  <2>2. stage[p] # "finished"
    BY <1>2 DEF Accepted, Running
  <2>3. InHand(p)'
    BY <1>1 DEF InHand, PostOK
  <2>4. Meant(p)' /\ KeptOut(p)' /\ Reaches(p)'
    BY <1>1, <1>r, <1>2, <2>1, <2>2 DEF Meant, KeptOut, Reaches, PostOK
  <2>5. QED
    BY <2>3, <2>4 DEF PostOK
<1>3. CASE stage[p] \notin Accepted
  <2>1. audience'[p] = audience[p] /\ faithful'[p] = faithful[p] /\ barred'[p] = barred[p]
    BY <1>3, ChangeTracks
  <2>2. stage[p] \notin {"filter", "send"}
    BY <1>3 DEF Accepted, Running
  <2>3. InHand(p)'
    BY <1>1 DEF InHand, PostOK
  <2>4. Meant(p)' /\ KeptOut(p)' /\ Reaches(p)'
    BY <1>1, <1>r, <1>3, <2>1, <2>2 DEF Meant, KeptOut, Reaches, PostOK
  <2>5. QED
    BY <2>3, <2>4 DEF PostOK
<1>4. QED
  BY <1>2, <1>3

LEMMA PostsStep ==
    BTypeOK /\ LookupsAgree /\ QueuesOK /\ PostsOK /\ [BNext]_bvars => PostsOK'
<1> SUFFICES ASSUME BTypeOK, LookupsAgree, QueuesOK, PostsOK, [BNext]_bvars, NEW p \in Posts
             PROVE  PostOK(p)'
  BY DEF PostsOK
<1>0. /\ PostOK(p) /\ stage \in [Posts -> Stages]
      /\ todo \in [Posts -> SUBSET Conns] /\ passed \in [Posts -> SUBSET Conns]
      /\ writing \in [Posts -> SUBSET Conns] /\ sent \in [Posts -> Seq(Conns)]
      /\ audience \in [Posts -> SUBSET Conns] /\ faithful \in [Posts -> SUBSET Conns]
      /\ barred \in [Posts -> SUBSET Conns]
  BY DEF PostsOK, BTypeOK
<1>a. ASSUME UNCHANGED <<directory, stage, work, sent, histories>>
      PROVE  PostOK(p)'
  BY <1>0, <1>a, PostKept DEF work, histories
<1>b. ASSUME UNCHANGED <<directory, work, sent, histories>>,
             NEW q \in Posts, NEW s \in Waiting, stage[q] \in Waiting, Goto(q, s)
      PROVE  PostOK(p)'
  <2>1. stage'[p] = stage[p] \/ {stage[p], stage'[p]} \subseteq Waiting
    BY <1>0, <1>b DEF Goto
  <2>2. QED
    BY <1>0, <1>b, <2>1, PostKept DEF work, histories
<1>1. ASSUME NEW q \in Posts, Broadcast(q) PROVE PostOK(p)'
  <2>1. CASE q = p
    BY <1>0, <1>1, <2>1, BroadcastKeeps
  <2>2. CASE q # p
    <3>1. /\ stage'[p] = stage[p] /\ audience'[p] = audience[p]
          /\ faithful'[p] = faithful[p] /\ barred'[p] = barred[p]
      BY <1>0, <1>1, <2>2 DEF Broadcast, Goto, histories
    <3>2. QED
      BY <1>0, <1>1, <3>1, PostKept DEF Broadcast, work
  <2>3. QED
    BY <2>1, <2>2
<1>2. CASE LoopReturn
  BY <1>2, <1>a DEF LoopReturn
<1>3. CASE LoopReceive
  <2>1. Head(messageCh) \in Posts /\ stage[Head(messageCh)] = "channel"
    BY <1>3, QueueTakes DEF LoopReceive, QueuesOK, BTypeOK
  <2>2. QED
    BY <1>3, <1>b, <2>1 DEF LoopReceive, Waiting
<1>4. ASSUME NEW q \in Posts, Submit(q) PROVE PostOK(p)'
  <2>1. CASE UNCHANGED stage
    BY <1>4, <1>a, <2>1 DEF Submit
  <2>2. CASE Goto(q, "queued") \/ Goto(q, "lookup")
    BY <1>4, <1>b, <2>2 DEF Submit, Waiting
  <2>3. QED
    BY <1>4, <2>1, <2>2 DEF Submit
<1>5. CASE WorkerTakes
  <2>1. Head(taskQueue) \in Posts /\ stage[Head(taskQueue)] = "queued"
    BY <1>5, QueueTakes DEF WorkerTakes, QueuesOK, BTypeOK
  <2>2. QED
    BY <1>5, <1>b, <2>1 DEF WorkerTakes, Waiting
<1>6. ASSUME NEW q \in Posts, Task(q) PROVE PostOK(p)'
  <2>1. CASE q = p
    BY <1>0, <1>6, <2>1, LookUpKeeps, FilterKeeps, SendKeeps, FilterDoneKeeps, SentKeeps,
       FinishKeeps DEF Task
  <2>2. CASE q # p
    <3>1. ASSUME LookUp(q) PROVE PostOK(p)'
      BY <1>0, <2>2, <3>1, PostKept DEF LookUp, Goto, histories
    <3>2. ASSUME NEW c \in Conns, Filter(q, c) \/ Send(q, c) PROVE PostOK(p)'
      BY <1>0, <2>2, <3>2, PostKept DEF Filter, Send, histories
    <3>3. ASSUME FilterDone(q) PROVE PostOK(p)'
      BY <1>0, <2>2, <3>3, PostKept DEF FilterDone, Goto, histories
    <3>4. ASSUME Sent(q) PROVE PostOK(p)'
      <4>1. sent'[p] = sent[p]
        BY <1>0, <2>2, <3>4 DEF Sent
      <4>2. QED
        BY <1>0, <2>2, <3>4, <4>1, PostKept DEF Sent, histories
    <3>5. ASSUME Finish(q) PROVE PostOK(p)'
      BY <1>0, <2>2, <3>5, PostKept DEF Finish, Goto, work, histories
    <3>6. QED
      BY <1>6, <3>1, <3>2, <3>3, <3>4, <3>5 DEF Task
  <2>3. QED
    BY <2>1, <2>2
<1>7. ASSUME NEW c \in Conns, ReplyBegins(c) \/ ReplyEnds(c) PROVE PostOK(p)'
  BY <1>7, <1>a DEF ReplyBegins, ReplyEnds
<1>8. ASSUME NEW i \in {1, 2, 3, 4}, StopStep(i) PROVE PostOK(p)'
  BY <1>8, <1>a DEF StopStep
<1>9. CASE SessionsChange
  BY <1>0, <1>9, ChangeKeeps
<1>10. CASE UNCHANGED bvars
  BY <1>10, <1>a DEF bvars
<1>11. QED
  BY <1>1, <1>2, <1>3, <1>4, <1>5, <1>6, <1>7, <1>8, <1>9, <1>10, StopMoves DEF BNext, Loop

-----------------------------------------------------------------------------
(* Every step maps to a step or a stutter of Multicast *)

(* The status of one message as Multicast sees it moves with its stage. *)
LEMMA StatusMoves ==
    ASSUME NEW p \in Posts, NEW s, stage \in [Posts -> Stages], Goto(p, s)
    PROVE  [q \in Posts |-> Status(q)]' =
             [[q \in Posts |-> Status(q)] EXCEPT ![p] = IF s \in Accepted THEN "pending" ELSE s]
BY DEF Goto, Status

LEMMA MulticastInitial == BInit => Abstract!MulticastInit
<1> SUFFICES ASSUME BInit PROVE Abstract!MulticastInit
  OBVIOUS
<1>1. \A p \in Posts : stage[p] = "new"
  BY DEF BInit
<1>2. \A p \in Posts : Status(p) = "new"
  BY <1>1 DEF Status, Accepted, Running
<1>3. QED
  BY <1>2 DEF BInit, Abstract!MulticastInit

LEMMA MulticastStep ==
    BTypeOK /\ QueuesOK /\ PostsOK /\ [BNext]_bvars
        => [Abstract!MulticastNext]_<<[p \in Posts |-> Status(p)], sent>>
<1> DEFINE status == [p \in Posts |-> Status(p)]
<1> SUFFICES ASSUME BTypeOK, QueuesOK, PostsOK, [BNext]_bvars
             PROVE  \/ Abstract!MulticastNext
                    \/ status' = status /\ sent' = sent
  OBVIOUS
<1>0. stage \in [Posts -> Stages] /\ (stage' = stage => status' = status)
  BY DEF BTypeOK, Status
(* Within the accepted stages Multicast sees no difference. *)
<1>a. ASSUME NEW p \in Posts, NEW s \in Accepted, stage[p] \in Accepted, Goto(p, s)
      PROVE  status' = status
  <2>1. \A q \in Posts : Status(q)' = Status(q)
    BY <1>0, <1>a DEF Goto, Status
  <2>2. QED
    BY <2>1
<1>1. ASSUME NEW p \in Posts, Broadcast(p)
      PROVE  Abstract!MulticastNext \/ (status' = status /\ sent' = sent)
  <2>1. stage[p] = "new" /\ status[p] = "new" /\ sent' = sent
    BY <1>1 DEF Broadcast, Status, Accepted, Running
  <2>2. CASE Goto(p, "channel")
    <3>1. status' = [status EXCEPT ![p] = "pending"]
      BY <1>0, <2>2, StatusMoves DEF Accepted
    <3>2. QED
      BY <2>1, <3>1 DEF Abstract!MulticastNext, Abstract!Accept
  <2>3. CASE Goto(p, "dropped")
    <3>1. status' = [status EXCEPT ![p] = "dropped"]
      BY <1>0, <2>3, StatusMoves DEF Accepted, Running
    <3>2. QED
      BY <2>1, <3>1 DEF Abstract!MulticastNext, Abstract!Drop
  <2>4. CASE UNCHANGED stage
    BY <1>0, <2>1, <2>4
  <2>5. QED
    BY <1>1, <2>2, <2>3, <2>4 DEF Broadcast
<1>2. CASE LoopReturn
  BY <1>0, <1>2 DEF LoopReturn
<1>3. CASE LoopReceive
  <2>1. Head(messageCh) \in Posts /\ stage[Head(messageCh)] = "channel"
    BY <1>3, QueueTakes DEF LoopReceive, QueuesOK, BTypeOK
  <2>2. QED
    BY <1>3, <1>a, <2>1 DEF LoopReceive, Accepted
<1>4. ASSUME NEW p \in Posts, Submit(p) PROVE status' = status /\ sent' = sent
  BY <1>0, <1>4, <1>a DEF Submit, Accepted, Running
<1>5. CASE WorkerTakes
  <2>1. Head(taskQueue) \in Posts /\ stage[Head(taskQueue)] = "queued"
    BY <1>5, QueueTakes DEF WorkerTakes, QueuesOK, BTypeOK
  <2>2. QED
    BY <1>5, <1>a, <2>1 DEF WorkerTakes, Accepted, Running
<1>6. ASSUME NEW p \in Posts, LookUp(p) \/ FilterDone(p) PROVE status' = status /\ sent' = sent
  BY <1>6, <1>a DEF LookUp, FilterDone, Accepted, Running
<1>7. ASSUME NEW p \in Posts, NEW c \in Conns, Filter(p, c) \/ Send(p, c)
      PROVE  status' = status /\ sent' = sent
  BY <1>0, <1>7 DEF Filter, Send
<1>8. ASSUME NEW p \in Posts, Sent(p) PROVE Abstract!MulticastNext
  <2>1. PICK c \in Conns : /\ stage[p] = "send" /\ c \notin SentTo(p)
                           /\ sent' = [sent EXCEPT ![p] = Append(@, c)]
    BY <1>8, SentKeeps DEF PostsOK
  <2>2. status[p] = "pending" /\ status' = status
    BY <1>0, <1>8, <2>1 DEF Status, Sent, Accepted, Running
  <2>3. c \notin Abstract!Range(sent[p])
    BY <2>1 DEF SentTo, Range, Abstract!Range
  <2>4. Abstract!Deliver(p, c)
    BY <2>1, <2>2, <2>3 DEF Abstract!Deliver
  <2>5. QED
    BY <2>4 DEF Abstract!MulticastNext
<1>9. ASSUME NEW p \in Posts, Finish(p) PROVE Abstract!MulticastNext
  <2>1. status[p] = "pending" /\ sent' = sent
    BY <1>9 DEF Finish, Status, Accepted, Running
  <2>2. status' = [status EXCEPT ![p] = "finished"]
    BY <1>0, <1>9, StatusMoves DEF Finish, Accepted, Running
  <2>3. QED
    BY <2>1, <2>2 DEF Abstract!MulticastNext, Abstract!Finish
<1>10. ASSUME NEW c \in Conns, ReplyBegins(c) \/ ReplyEnds(c)
       PROVE  status' = status /\ sent' = sent
  BY <1>0, <1>10 DEF ReplyBegins, ReplyEnds
<1>11. ASSUME NEW i \in {1, 2, 3, 4}, StopStep(i) PROVE status' = status /\ sent' = sent
  BY <1>0, <1>11 DEF StopStep
<1>12. CASE SessionsChange
  BY <1>0, <1>12 DEF SessionsChange
<1>13. CASE UNCHANGED bvars
  BY <1>0, <1>13 DEF bvars
<1>14. QED
  BY <1>1, <1>2, <1>3, <1>4, <1>5, <1>6, <1>7, <1>8, <1>9, <1>10, <1>11, <1>12, <1>13,
     StopMoves DEF BNext, Task, Loop

-----------------------------------------------------------------------------
(* Theorems *)

(* The pipeline beside the sessions leaves the directory alone. *)
LEMMA ChangesOfSessions == [BNext]_bvars => [DirectoryNext]_directory
<1> SUFFICES ASSUME [BNext]_bvars PROVE DirectoryNext \/ UNCHANGED directory
  OBVIOUS
<1>1. CASE SessionsChange
  BY <1>1 DEF SessionsChange
<1>2. ASSUME NEW p \in Posts, Broadcast(p) \/ Submit(p) PROVE UNCHANGED directory
  BY <1>2 DEF Broadcast, Submit
<1>3. ASSUME NEW p \in Posts, Task(p) PROVE UNCHANGED directory
  BY <1>3 DEF Task, LookUp, Filter, Send, FilterDone, Sent, Finish
<1>4. CASE LoopReturn \/ LoopReceive \/ WorkerTakes
  BY <1>4 DEF LoopReturn, LoopReceive, WorkerTakes
<1>5. ASSUME NEW c \in Conns, ReplyBegins(c) \/ ReplyEnds(c) PROVE UNCHANGED directory
  BY <1>5 DEF ReplyBegins, ReplyEnds
<1>6. ASSUME NEW i \in {1, 2, 3, 4}, StopStep(i) PROVE UNCHANGED directory
  BY <1>6 DEF StopStep
<1>7. CASE UNCHANGED bvars
  BY <1>7 DEF bvars
<1>8. QED
  BY <1>1, <1>2, <1>3, <1>4, <1>5, <1>6, <1>7, StopMoves DEF BNext, Loop

LEMMA Invariance == BSpec => [](BTypeOK /\ LookupsAgree /\ QueuesOK /\ PostsOK)
<1>1. BInit => BTypeOK /\ LookupsAgree /\ QueuesOK /\ PostsOK
  BY BTypeInit, InvInit, LookupsInit DEF BInit
<1>2. BTypeOK /\ LookupsAgree /\ [BNext]_bvars => LookupsAgree'
  BY ChangesOfSessions, LookupsStep DEF BTypeOK
<1>3. /\ BTypeOK /\ LookupsAgree /\ QueuesOK /\ PostsOK /\ [BNext]_bvars
      => (BTypeOK /\ LookupsAgree /\ QueuesOK /\ PostsOK)'
  BY <1>2, BTypeStep, QueuesStep, PostsStep
<1>4. QED
  BY <1>1, <1>3, PTL DEF BSpec

(* When Stop has returned, the pool is empty and stays so, however many     *)
(* workers and messages there are and whenever Stop begins.                 *)
THEOREM StoppedPoolIsEmpty == BSpec => []PoolDrained
BY Invariance, DrainedFollows, PTL

(* A message reaches only connections it was meant for at some time while   *)
(* it was under way, or that have logged in a second time.                  *)
THEOREM NothingLeaks == BSpec => []DeliveredOnlyToAudience
<1>1. PostsOK => DeliveredOnlyToAudience
  BY DEF PostsOK, PostOK, Meant, DeliveredOnlyToAudience
<1>2. QED
  BY <1>1, Invariance, PTL

(* Who was excluded all the time is never written to, though the lookup and *)
(* the check are separate calls.                                            *)
THEOREM TheExcludedStayOut == BSpec => []ExcludedStaysOut
<1>1. PostsOK => ExcludedStaysOut
  BY DEF PostsOK, PostOK, KeptOut, ExcludedStaysOut
<1>2. QED
  BY <1>1, Invariance, PTL

(* A finished message of a room with a name, or to all, has been written to *)
(* everybody who was entitled to it all the time.                           *)
THEOREM EverybodyIsReached == BSpec => []NobodyMissed
<1>1. PostsOK => NobodyMissed
  BY DEF PostsOK, PostOK, Reaches, NobodyMissed
<1>2. QED
  BY <1>1, Invariance, PTL

(* The broadcaster implements Multicast: a message is accepted or dropped   *)
(* once, goes to each connection at most once, and nowhere once finished.   *)
THEOREM BroadcasterIsAMulticast == BSpec => ImplementsMulticast
<1>1. BInit => Abstract!MulticastInit
  BY MulticastInitial
<1>2. QED
  BY <1>1, Invariance, MulticastStep, PTL DEF BSpec, ImplementsMulticast, Abstract!MulticastSpec

=============================================================================
