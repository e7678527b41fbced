---------------------------- MODULE RedisHelper ----------------------------
(***************************************************************************)
(* The Redis helper (src/pkg/db/redis/redis.go): the distributed lock and  *)
(* the hash with a time to live, used by several clients against one       *)
(* server.  Calls for different keys do not meet, so a behaviour is about  *)
(* one key, which is a lock or a hash.                                     *)
(*                                                                         *)
(* A call of the helper sends a command and waits for its reply.  Commands *)
(* and replies get lost and commands are delayed; go-redis then sends the  *)
(* command again on another connection, and the first copy may still be    *)
(* executed later.  Clients crash in the middle of anything.  redislock is *)
(* modelled from its use here: a fresh token per lock, scripts that        *)
(* compare it, a deadline of one ttl for GetLock when its context has none.*)
(*                                                                         *)
(* Time is counted in ticks; every time to live runs down by the tick.     *)
(***************************************************************************)
EXTENDS Integers, FiniteSets

CONSTANTS
    Clients,         \* goroutines that use a RedisClient
    Fields,          \* fields of the hash
    LockTTL,         \* the ttl of GetLock and RefreshLock, in ticks
    Retries,         \* GetLock's retryCount
    Expirations,     \* expirations of the hash calls, in ticks; any integers
    TicksPerSecond,
    MaxLockSends,    \* bounds: calls begun and commands sent again, by all
    MaxHashSends     \* clients, releases and GetLock's own retries aside

ASSUME TimesAssumption ==
    /\ LockTTL \in Nat \ {0} /\ TicksPerSecond \in Nat \ {0}
    /\ Expirations \subseteq Int /\ Expirations # {}
ASSUME FieldsAssumption == Fields # {}
ASSUME BoundsAssumption == Retries \in Nat /\ MaxLockSends \in Nat /\ MaxHashSends \in Nat

VARIABLES
    kind,       \* what the key is: "lock" or "hash"
    lock,       \* the lock key: its token and time to live
    hash,       \* the hash key: its fields and time to live
    net,        \* commands under way to the server
    pc,         \* what each client is doing, see Controls
    cmd,        \* the last command each client sent
    reply,      \* the reply it has not read yet
    tries,      \* retries GetLock has left
    window,     \* time left of the ttl, counted from the start of the call
    lease,      \* time left in which the client may count on its lock
    sent,       \* calls begun and commands sent again; numbers the tokens
    creator     \* history: the command that created the hash, and whether
                \* its success was reported

rvars == <<kind, lock, hash, net, pc, cmd, reply, tries, window, lease, sent,
           creator>>
server == <<kind, lock, hash, creator>>

NoLock   == [token |-> 0, left |-> 0]
NoExpiry == -1
NoHash   == [fields |-> {}, left |-> 0]
Nobody   == [op |-> "none", token |-> 0, copy |-> 0, reported |-> FALSE]

Controls == {"idle", "obtaining", "backoff", "holding", "refreshing", "releasing",
             "writing", "crashed"}

LockOps == {"obtain", "refresh", "release"}
HashOps == {"hset", "hset+expire", "hsetnx", "del"}

MaxSends == IF kind = "lock" THEN MaxLockSends ELSE MaxHashSends

Command == [client : Clients, op : LockOps \cup HashOps \cup {"expire"},
            token : 1 .. MaxSends, field : Fields, exp : Expirations, copy : Nat]

NoCommand(c) == [client |-> c, op |-> "none", token |-> 0,
                 field |-> CHOOSE f \in Fields : TRUE,
                 exp |-> CHOOSE e \in Expirations : TRUE, copy |-> 0]

(* A call's first command. *)
NewCommand(c, op, f, e) ==
    [client |-> c, op |-> op, token |-> sent + 1, field |-> f, exp |-> e, copy |-> 1]

-----------------------------------------------------------------------------
(* The server executes one command, or one script, at a time.              *)

(* Mutant: the lock is set without PX. *)
ObtainForEver(m) ==
    IF lock = NoLock THEN [token |-> m.token, left |-> NoExpiry] ELSE lock

(* redislock's obtain script: a token may obtain its own lock again. *)
Obtain(m) ==
    IF lock = NoLock \/ lock.token = m.token
    THEN [token |-> m.token, left |-> LockTTL] ELSE lock

Refresh(m) == IF lock.token = m.token THEN [lock EXCEPT !.left = LockTTL] ELSE lock

Release(m) == IF lock.token = m.token THEN NoLock ELSE lock

LockAfter(m) ==
    CASE m.op = "obtain"  -> Obtain(m)
      [] m.op = "refresh" -> Refresh(m)
      [] m.op = "release" -> Release(m)

HSet(f) ==
    [fields |-> hash.fields \cup {f},
     left   |-> IF hash = NoHash THEN NoExpiry ELSE hash.left]

(* EXPIRE of a key that is not there does nothing; with zero or a negative  *)
(* number of seconds it deletes the key.                                    *)
Expire(h, seconds) ==
    IF h = NoHash \/ seconds <= 0 THEN NoHash
    ELSE [h EXCEPT !.left = seconds * TicksPerSecond]

(* Whole seconds, truncated towards zero as Go's conversions do.            *)
Truncated(e) ==
    IF e < 0 THEN -((-e) \div TicksPerSecond) ELSE e \div TicksPerSecond

(* go-redis's Expire rounds a positive fraction of a second up to one and   *)
(* passes zero and negative expirations on.                                 *)
ExpireSeconds(e) == IF 0 < e /\ e < TicksPerSecond THEN 1 ELSE Truncated(e)

(* Mutant: the expiration is passed in a larger unit. *)
ScriptSecondsTooCoarse(e) == e \div (2 * TicksPerSecond)

(* HSetNXWithTTL passes int(expiration.Seconds()). *)
ScriptSeconds(e) == Truncated(e)

(* Mutant: the pipeline's commands are swapped. *)
PipelineStepsSwapped(m) ==
    IF m.op = "hset+expire" THEN Expire(hash, ExpireSeconds(m.exp)) ELSE HSet(m.field)

(* HSetWithTTL's pipeline: HSET, and EXPIRE as a command of its own, which  *)
(* others' commands may precede and a broken connection may cut off.        *)
PipelineSteps(m) ==
    IF m.op = "hset+expire" THEN HSet(m.field) ELSE Expire(hash, ExpireSeconds(m.exp))

HashAfter(m) ==
    CASE m.op = "hset" -> HSet(m.field)
      [] m.op \in {"hset+expire", "expire"} -> PipelineSteps(m)
      [] m.op = "hsetnx" -> IF m.field \in hash.fields THEN hash
                            ELSE Expire(HSet(m.field), ScriptSeconds(m.exp))
      [] m.op = "del" -> NoHash

(* A client waits for the reply to the copy it sent last.                   *)
Awaits(m) ==
    /\ pc[m.client] \in {"obtaining", "refreshing", "releasing", "writing"}
    /\ cmd[m.client].token = m.token /\ cmd[m.client].copy = m.copy

ReplyTo(m, r) == reply' = IF Awaits(m) THEN [reply EXCEPT ![m.client] = r] ELSE reply

ExecuteLock(m) ==
    /\ m \in net /\ m.op \in LockOps
    /\ lock' = LockAfter(m)
    /\ ReplyTo(m, IF m.op = "release" THEN IF lock.token = m.token THEN "ok" ELSE "no"
                  ELSE IF LockAfter(m).token = m.token THEN "ok" ELSE "no")
    /\ net' = net \ {m}
    /\ UNCHANGED <<kind, hash, creator, pc, cmd, tries, window, lease, sent>>

(* The pipeline's second command follows on the same connection, after      *)
(* whatever other clients' commands come between.                           *)
ExecuteHash(m) ==
    /\ m \in net /\ m.op \notin LockOps
    /\ hash' = HashAfter(m)
    /\ creator' = IF hash' = NoHash THEN Nobody
                  ELSE IF hash = NoHash
                  THEN [op |-> m.op, token |-> m.token, copy |-> m.copy, reported |-> FALSE]
                  ELSE creator
    /\ IF m.op = "hset+expire"
       THEN net' = (net \ {m}) \cup {[m EXCEPT !.op = "expire"]} /\ UNCHANGED reply
       ELSE net' = net \ {m} /\ ReplyTo(m, "ok")
    /\ UNCHANGED <<kind, lock, pc, cmd, tries, window, lease, sent>>

(* The connection breaks and what is left on it is lost.  A reply that is   *)
(* lost is no different from one that comes too late.                       *)
LoseCommand(m) ==
    /\ m \in net
    /\ net' = net \ {m}
    /\ UNCHANGED <<server, pc, cmd, reply, tries, window, lease, sent>>

Down(left) == IF left > 0 THEN left - 1 ELSE left

Tick ==
    /\ lock' = IF lock.left = 1 THEN NoLock ELSE [lock EXCEPT !.left = Down(@)]
    /\ hash' = IF hash.left = 1 THEN NoHash ELSE [hash EXCEPT !.left = Down(@)]
    /\ window' = [c \in Clients |-> Down(window[c])]
    /\ lease' = [c \in Clients |-> Down(lease[c])]
    /\ creator' = IF hash' = NoHash THEN Nobody ELSE creator
    /\ UNCHANGED <<kind, net, pc, cmd, reply, tries, sent>>

-----------------------------------------------------------------------------
(* The calls of the helper *)

Set(f, c, v) == [f EXCEPT ![c] = v]

GoTo(c, label) == pc' = Set(pc, c, label)

Send(c, m) ==
    /\ cmd' = Set(cmd, c, m)
    /\ net' = net \cup {m}
    /\ reply' = Set(reply, c, "none")

SendAgain(c, op) == Send(c, [cmd[c] EXCEPT !.op = op, !.copy = @ + 1])

CountSend == sent < MaxSends /\ sent' = sent + 1

(* The call is over, and with it what the client knew of the key. *)
End(c, label) ==
    /\ GoTo(c, label)
    /\ cmd' = Set(cmd, c, NoCommand(c))
    /\ reply' = Set(reply, c, "none")
    /\ tries' = Set(tries, c, 0)
    /\ window' = Set(window, c, 0)
    /\ lease' = Set(lease, c, 0)

(* GetLock and RefreshLock return a lock, good until the ttl is over. *)
Hold(c, left) ==
    /\ GoTo(c, "holding")
    /\ reply' = Set(reply, c, "none")
    /\ tries' = Set(tries, c, 0)
    /\ window' = Set(window, c, 0)
    /\ lease' = Set(lease, c, left)
    /\ UNCHANGED cmd

GetLock(c) ==
    /\ kind = "lock" /\ pc[c] = "idle" /\ CountSend
    /\ GoTo(c, "obtaining")
    /\ Send(c, NewCommand(c, "obtain", NoCommand(c).field, NoCommand(c).exp))
    /\ tries' = Set(tries, c, Retries)
    /\ window' = Set(window, c, LockTTL)
    /\ UNCHANGED <<server, lease>>

(* The backoff is over and the lock is asked for again. *)
Retry(c) ==
    /\ pc[c] = "backoff" /\ window[c] > 0
    /\ GoTo(c, "obtaining")
    /\ SendAgain(c, "obtain")
    /\ UNCHANGED <<server, tries, window, lease, sent>>

RefreshLock(c) ==
    /\ pc[c] = "holding" /\ CountSend
    /\ GoTo(c, "refreshing")
    /\ SendAgain(c, "refresh")
    /\ window' = Set(window, c, LockTTL)
    /\ UNCHANGED <<server, tries, lease>>

ReleaseLock(c) ==
    /\ pc[c] = "holding"
    /\ GoTo(c, "releasing")
    /\ SendAgain(c, "release")
    /\ lease' = Set(lease, c, 0)
    /\ UNCHANGED <<server, tries, window, sent>>

(* HSet, HSetWithTTL, HSetNXWithTTL and Del. *)
WriteHash(c, op, f, e) ==
    /\ kind = "hash" /\ pc[c] = "idle" /\ CountSend
    /\ GoTo(c, "writing")
    /\ Send(c, NewCommand(c, op, f, e))
    /\ UNCHANGED <<server, tries, window, lease>>

Waiting(c) == pc[c] \in {"obtaining", "refreshing", "releasing", "writing"}

(* go-redis has waited long enough, or its connection is broken.            *)
Resend(c) ==
    /\ Waiting(c)
    /\ CountSend
    /\ SendAgain(c, cmd[c].op)
    /\ UNCHANGED <<server, pc, tries, window, lease>>

(* The call returns an error: go-redis has given up, or the deadline has    *)
(* come, maybe in the backoff.  A lock that could not be refreshed is still *)
(* held.                                                                    *)
GiveUp(c) ==
    /\ Waiting(c) \/ (pc[c] = "backoff" /\ window[c] = 0)
    /\ IF pc[c] = "refreshing" THEN Hold(c, lease[c]) ELSE End(c, "idle")
    /\ UNCHANGED <<server, net, sent>>

Obtained(c) ==
    /\ pc[c] = "obtaining" /\ reply[c] = "ok"
    /\ Hold(c, window[c])
    /\ UNCHANGED <<server, net, sent>>

NotObtained(c) ==
    /\ pc[c] = "obtaining" /\ reply[c] = "no"
    /\ IF tries[c] > 0
       THEN /\ GoTo(c, "backoff")
            /\ tries' = Set(tries, c, tries[c] - 1)
            /\ reply' = Set(reply, c, "none")
            /\ UNCHANGED <<cmd, window, lease>>
       ELSE End(c, "idle")
    /\ UNCHANGED <<server, net, sent>>

(* Mutant: RefreshLock ignores that the lock is not held, as ReleaseLock does. *)
RefreshedAnyway(c) ==
    /\ pc[c] = "refreshing" /\ reply[c] # "none"
    /\ Hold(c, window[c])
    /\ UNCHANGED <<server, net, sent>>

(* RefreshLock returns nil, or that the lock is lost. *)
Refreshed(c) ==
    /\ pc[c] = "refreshing" /\ reply[c] # "none"
    /\ IF reply[c] = "ok" THEN Hold(c, window[c]) ELSE End(c, "idle")
    /\ UNCHANGED <<server, net, sent>>

(* ReleaseLock returns nil whether or not the lock was still held. *)
Released(c) ==
    /\ pc[c] = "releasing" /\ reply[c] # "none"
    /\ End(c, "idle")
    /\ UNCHANGED <<server, net, sent>>

Written(c) ==
    /\ pc[c] = "writing" /\ reply[c] = "ok"
    /\ End(c, "idle")
    /\ creator' = IF creator.token = cmd[c].token /\ creator.copy = cmd[c].copy
                  THEN [creator EXCEPT !.reported = TRUE] ELSE creator
    /\ UNCHANGED <<kind, lock, hash, net, sent>>

(* A client that crashes while idle is one that makes no more calls.        *)
Crash(c) ==
    /\ pc[c] \notin {"idle", "crashed"}
    /\ End(c, "crashed")
    /\ UNCHANGED <<server, net, sent>>

-----------------------------------------------------------------------------
RInit ==
    /\ kind \in {"lock", "hash"}
    /\ lock = NoLock /\ hash = NoHash
    /\ net = {}
    /\ pc = [c \in Clients |-> "idle"]
    /\ cmd = [c \in Clients |-> NoCommand(c)]
    /\ reply = [c \in Clients |-> "none"]
    /\ tries = [c \in Clients |-> 0]
    /\ window = [c \in Clients |-> 0]
    /\ lease = [c \in Clients |-> 0]
    /\ sent = 0
    /\ creator = Nobody

Returns(c) ==
    \/ Obtained(c) \/ NotObtained(c) \/ Refreshed(c) \/ Released(c) \/ Written(c)
    \/ GiveUp(c)

Client(c) ==
    \/ GetLock(c) \/ Retry(c) \/ RefreshLock(c) \/ ReleaseLock(c)
    \/ \E f \in Fields, e \in Expirations :
          WriteHash(c, "hset+expire", f, e) \/ WriteHash(c, "hsetnx", f, e)
    \/ \E f \in Fields : WriteHash(c, "hset", f, NoCommand(c).exp)
    \/ WriteHash(c, "del", NoCommand(c).field, NoCommand(c).exp)
    \/ Resend(c) \/ Returns(c) \/ Crash(c)

Server ==
    \E m \in net : ExecuteLock(m) \/ ExecuteHash(m) \/ LoseCommand(m)

RNext ==
    \/ \E c \in Clients : Client(c)
    \/ Server
    \/ Tick

RSpec == RInit /\ [][RNext]_rvars

(* Time passes, deadlines and backoffs end, and nothing stays on the        *)
(* network for ever.  A client need not call, nor release what it holds.    *)
RFairness ==
    /\ WF_rvars(Tick)
    /\ WF_rvars(Server)
    /\ \A c \in Clients : WF_rvars(Returns(c) \/ Retry(c))

FairRSpec == RSpec /\ RFairness

-----------------------------------------------------------------------------
(* Properties *)

(* Every variable has its type. *)
RTypeOK ==
    /\ kind \in {"lock", "hash"}
    /\ lock \in [token : 0 .. MaxSends, left : 0 .. LockTTL]
    /\ hash \in [fields : SUBSET Fields, left : Int]
    /\ net \subseteq Command
    /\ pc \in [Clients -> Controls]
    /\ cmd \in [Clients -> Command \cup {NoCommand(c) : c \in Clients}]
    /\ reply \in [Clients -> {"none", "ok", "no"}]
    /\ tries \in [Clients -> 0 .. Retries]
    /\ window \in [Clients -> 0 .. LockTTL]
    /\ lease \in [Clients -> 0 .. LockTTL]
    /\ sent \in 0 .. MaxSends
    /\ creator \in [op : HashOps \cup {"none", "expire"}, token : 0 .. MaxSends,
                    copy : Nat, reported : BOOLEAN]

(* A client that counts the ttl from before its last successful GetLock or  *)
(* RefreshLock has the lock for that long: neither another client's lock or *)
(* release, nor a delayed copy of its own commands, takes it away.  So two  *)
(* clients never count on the lock at a time.                               *)
LeaseHeld == \A c \in Clients : lease[c] > 0 => lock.token = cmd[c].token

(* A lock that was obtained by a client that crashed, or that never learned *)
(* of it, does not block the others for ever.                               *)
OrphansExpire ==
    []<>(lock = NoLock \/ \E c \in Clients :
            pc[c] \notin {"idle", "writing", "crashed"} /\ cmd[c].token = lock.token)

(* Once HSetWithTTL has reported success, the hash it created does expire:  *)
(* other clients' commands between its two do not undo it.                  *)
CreatedHashExpires ==
    hash.left = NoExpiry /\ creator.reported => creator.op = "hset"

(* Fields vanish by expiry, by Del, or by a write that expires the whole    *)
(* hash at once: an HSetNXWithTTL of less than a second, whose script       *)
(* truncates it to 0, or the EXPIRE of an HSetWithTTL of zero or less.  A   *)
(* write with any other expiration takes no field away.                     *)
FieldsVanishForAReason ==
    [][\/ hash.fields \subseteq hash'.fields
       \/ hash.left = 1 /\ net' = net
       \/ \E m \in net \ net' :
             \/ m.op = "del"
             \/ m.op = "hsetnx" /\ m.exp < TicksPerSecond
             \/ m.op = "expire" /\ m.exp <= 0]_rvars

=============================================================================
