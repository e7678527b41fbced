-------------------------- MODULE RedisHelperProofs --------------------------
(***************************************************************************)
(* For any number of clients, calls, resends and crashes, and any times to *)
(* live: a client that counts its lease from the start of its call has the *)
(* lock for that long (LeaseHeld), a hash whose creation with a time to    *)
(* live was reported expires (CreatedHashExpires), and a hash loses fields *)
(* for the reasons listed only (FieldsVanishForAReason).                   *)
(***************************************************************************)
EXTENDS RedisHelper, TLAPS

Resting == {"idle", "crashed"}

(* Which commands a client may have under way where: its release only once  *)
(* it is releasing, those for a hash only when it writes one.               *)
OpFits(op, label) ==
    /\ op = "release" => label = "releasing"
    /\ op \notin LockOps => label = "writing"

(* A client in a call, or with a lock, has a command of its own; one that   *)
(* rests has none.                                                          *)
BusyHasCommand ==
    \A c \in Clients :
        IF pc[c] \in Resting THEN cmd[c] = NoCommand(c)
        ELSE cmd[c] \in Command /\ cmd[c].client = c /\ OpFits(cmd[c].op, pc[c])

(* Tokens are numbered by sent, so that no two clients share one.           *)
TokensAreOwn ==
    /\ \A c \in Clients : cmd[c].token <= sent
    /\ \A c, d \in Clients : cmd[c].token = cmd[d].token /\ cmd[c].token # 0 => c = d
    /\ \A m \in net :
          /\ m.token <= sent
          /\ \A c \in Clients : cmd[c].token = m.token =>
                m.client = c /\ OpFits(m.op, pc[c])

(* What the server has granted lasts at least as long as the client thinks, *)
(* before and after the client has read the reply.                          *)
GrantLasts ==
    /\ lock.token = 0 <=> lock.left = 0
    /\ \A c \in Clients :
          /\ lease[c] > 0 => /\ pc[c] \in {"holding", "refreshing"}
                            /\ lock.token = cmd[c].token /\ lock.left >= lease[c]
          /\ pc[c] \in {"obtaining", "refreshing"} /\ reply[c] = "ok" /\ window[c] > 0 =>
                lock.token = cmd[c].token /\ lock.left >= window[c]

Granted == BusyHasCommand /\ TokensAreOwn /\ GrantLasts

RInv == RTypeOK /\ Granted

-----------------------------------------------------------------------------
(* Commands *)

LEMMA CommandFields ==
    \A m \in Command :
        /\ m.client \in Clients /\ m.op \in LockOps \cup HashOps \cup {"expire"}
        /\ m.token \in 1 .. MaxSends /\ m.token \in Nat /\ m.token # 0
        /\ m.field \in Fields /\ m.exp \in Expirations /\ m.copy \in Nat
BY BoundsAssumption DEF Command, MaxSends

LEMMA NoCommandFields ==
    \A c : /\ NoCommand(c).client = c /\ NoCommand(c).token = 0
          /\ NoCommand(c).field \in Fields /\ NoCommand(c).exp \in Expirations
BY TimesAssumption, FieldsAssumption DEF NoCommand

(* A key stays what it is, and with it the bound on the tokens. *)
LEMMA KindStays ==
    ASSUME [RNext]_rvars
    PROVE  kind' = kind /\ MaxSends' = MaxSends /\ Command' = Command
<1>1. kind' = kind
  BY DEF RNext, Client, Returns, Server, Tick, GetLock, Retry, RefreshLock, ReleaseLock,
         WriteHash, Resend, GiveUp, Obtained, NotObtained, Refreshed, Released, Written,
         Crash, ExecuteLock, ExecuteHash, LoseCommand, server, rvars
<1>2. QED
  BY <1>1 DEF MaxSends, Command

(* The next command of a call, and another copy of one, are commands. *)
LEMMA SendAgainCommand ==
    ASSUME NEW m \in Command, NEW op \in LockOps \cup HashOps \cup {"expire"}
    PROVE  /\ [m EXCEPT !.op = op, !.copy = @ + 1] \in Command
           /\ [m EXCEPT !.op = op, !.copy = @ + 1].token = m.token
           /\ [m EXCEPT !.op = op, !.copy = @ + 1].client = m.client
           /\ [m EXCEPT !.op = op, !.copy = @ + 1].op = op
<1> DEFINE n == [m EXCEPT !.op = op]
<1>1. [m EXCEPT !.op = op, !.copy = @ + 1] = [n EXCEPT !.copy = @ + 1]
  OBVIOUS
<1>2. n \in Command /\ n.token = m.token /\ n.client = m.client /\ n.op = op
  BY DEF Command
<1> HIDE DEF n
<1>3. /\ [n EXCEPT !.copy = @ + 1] \in Command
      /\ [n EXCEPT !.copy = @ + 1].token = n.token
      /\ [n EXCEPT !.copy = @ + 1].client = n.client
      /\ [n EXCEPT !.copy = @ + 1].op = n.op
  BY <1>2 DEF Command
<1>4. QED
  BY <1>1, <1>2, <1>3

LEMMA NewCommandType ==
    ASSUME RTypeOK, NEW c \in Clients, sent < MaxSends,
           NEW op \in LockOps \cup HashOps, NEW f \in Fields, NEW e \in Expirations
    PROVE  NewCommand(c, op, f, e) \in Command
<1>1. sent + 1 \in 1 .. MaxSends
  BY BoundsAssumption DEF RTypeOK, MaxSends
<1>2. QED
  BY <1>1 DEF NewCommand, Command

-----------------------------------------------------------------------------
(* The parts an action is made of *)

(* A client sends a command that is its own. *)
LEMMA SendType ==
    ASSUME RTypeOK, NEW c \in Clients, NEW m \in Command, Send(c, m)
    PROVE  /\ cmd' \in [Clients -> Command \cup {NoCommand(d) : d \in Clients}]
           /\ net' \subseteq Command
           /\ reply' \in [Clients -> {"none", "ok", "no"}]
           /\ cmd'[c] = m /\ reply'[c] = "none"
           /\ \A d \in Clients \ {c} : cmd'[d] = cmd[d] /\ reply'[d] = reply[d]
BY DEF Send, Set, RTypeOK

LEMMA GoToType ==
    ASSUME RTypeOK, NEW c \in Clients, NEW l \in Controls, GoTo(c, l)
    PROVE  /\ pc' \in [Clients -> Controls]
           /\ pc'[c] = l
           /\ \A d \in Clients \ {c} : pc'[d] = pc[d]
BY DEF GoTo, Set, RTypeOK

LEMMA EndType ==
    ASSUME RTypeOK, NEW c \in Clients, NEW l \in Controls, End(c, l)
    PROVE  /\ pc' \in [Clients -> Controls]
           /\ cmd' \in [Clients -> Command \cup {NoCommand(d) : d \in Clients}]
           /\ reply' \in [Clients -> {"none", "ok", "no"}]
           /\ tries' \in [Clients -> 0 .. Retries]
           /\ window' \in [Clients -> 0 .. LockTTL]
           /\ lease' \in [Clients -> 0 .. LockTTL]
           /\ pc'[c] = l /\ cmd'[c] = NoCommand(c) /\ reply'[c] = "none" /\ lease'[c] = 0
           /\ \A d \in Clients \ {c} :
                 /\ pc'[d] = pc[d] /\ cmd'[d] = cmd[d] /\ reply'[d] = reply[d]
                 /\ window'[d] = window[d] /\ lease'[d] = lease[d]
<1>1. pc' = [pc EXCEPT ![c] = l] /\ cmd' = [cmd EXCEPT ![c] = NoCommand(c)]
  BY DEF End, GoTo, Set
<1>2. reply' = [reply EXCEPT ![c] = "none"] /\ tries' = [tries EXCEPT ![c] = 0]
  BY DEF End, Set
<1>3. window' = [window EXCEPT ![c] = 0] /\ lease' = [lease EXCEPT ![c] = 0]
  BY DEF End, Set
<1>4. QED
  BY <1>1, <1>2, <1>3, TimesAssumption, BoundsAssumption DEF RTypeOK

LEMMA HoldType ==
    ASSUME RTypeOK, NEW c \in Clients, NEW left \in 0 .. LockTTL, Hold(c, left)
    PROVE  /\ pc' \in [Clients -> Controls]
           /\ reply' \in [Clients -> {"none", "ok", "no"}]
           /\ tries' \in [Clients -> 0 .. Retries]
           /\ window' \in [Clients -> 0 .. LockTTL]
           /\ lease' \in [Clients -> 0 .. LockTTL]
           /\ cmd' = cmd
           /\ pc'[c] = "holding" /\ reply'[c] = "none" /\ lease'[c] = left
           /\ \A d \in Clients \ {c} :
                 /\ pc'[d] = pc[d] /\ reply'[d] = reply[d]
                 /\ window'[d] = window[d] /\ lease'[d] = lease[d]
<1>1. pc' = [pc EXCEPT ![c] = "holding"] /\ reply' = [reply EXCEPT ![c] = "none"]
  BY DEF Hold, GoTo, Set
<1>2. tries' = [tries EXCEPT ![c] = 0] /\ cmd' = cmd
  BY DEF Hold, Set
<1>3. window' = [window EXCEPT ![c] = 0] /\ lease' = [lease EXCEPT ![c] = left]
  BY DEF Hold, Set
<1>4. "holding" \in Controls
  BY DEF Controls
<1>5. QED
  BY <1>1, <1>2, <1>3, <1>4, TimesAssumption, BoundsAssumption DEF RTypeOK

-----------------------------------------------------------------------------
(* Types *)

(* What a command leaves of the lock, and of the hash. *)
LEMMA LockAfterType ==
    ASSUME RTypeOK, NEW m \in Command, m.op \in LockOps
    PROVE  LockAfter(m) \in [token : 0 .. MaxSends, left : 0 .. LockTTL]
<1> DEFINE L == [token : 0 .. MaxSends, left : 0 .. LockTTL]
<1>0. m.token \in 0 .. MaxSends /\ LockTTL \in 0 .. LockTTL /\ 0 \in 0 .. MaxSends
  BY CommandFields, TimesAssumption, BoundsAssumption DEF MaxSends
<1>1. lock \in L /\ NoLock \in L
  BY <1>0, TimesAssumption DEF RTypeOK, NoLock
<1>2. [token |-> m.token, left |-> LockTTL] \in L /\ [lock EXCEPT !.left = LockTTL] \in L
  BY <1>0, <1>1
<1>3. QED
  BY <1>1, <1>2 DEF LockAfter, Obtain, Refresh, Release, LockOps

(* The seconds that reach the server are whole; EXPIRE's are positive for a  *)
(* positive expiration, the script's from a second on.                      *)
LEMMA Seconds ==
    ASSUME NEW e \in Expirations
    PROVE  /\ e \in Int /\ ExpireSeconds(e) \in Int /\ ScriptSeconds(e) \in Int
           /\ e > 0 => ExpireSeconds(e) > 0
           /\ ScriptSeconds(e) <= 0 => e < TicksPerSecond
<1>1. e \in Int /\ TicksPerSecond \in Nat \ {0}
  <2>1. \A x \in Expirations : x \in Int
    BY Zenon, TimesAssumption
  <2>2. QED
    BY <2>1, TimesAssumption
<1>2. \A x \in Nat, t \in Nat \ {0} : x \div t \in Nat /\ (x >= t => x \div t > 0)
  OBVIOUS
<1>3. CASE e < 0
  <2>1. -e \in Nat /\ e \in Int
    BY <1>1, <1>3
  <2>2. (-e) \div TicksPerSecond \in Nat
    BY <1>1, <1>2, <2>1
  <2>3. Truncated(e) = -((-e) \div TicksPerSecond)
    BY <1>3 DEF Truncated
  <2>4. ExpireSeconds(e) = Truncated(e) /\ ScriptSeconds(e) = Truncated(e)
    BY <1>1, <1>3 DEF ExpireSeconds, ScriptSeconds
  <2>5. Truncated(e) \in Int
    BY <2>2, <2>3
  <2>6. QED
    BY <1>1, <1>3, <2>4, <2>5
<1>4. CASE e >= 0
  <2>1. /\ e \div TicksPerSecond \in Nat
        /\ e >= TicksPerSecond => e \div TicksPerSecond > 0
    BY <1>1, <1>2, <1>4
  <2>2. Truncated(e) = e \div TicksPerSecond
    BY <1>1, <1>4 DEF Truncated
  <2>3. QED
    BY <1>1, <1>4, <2>1, <2>2 DEF ExpireSeconds, ScriptSeconds
<1>5. QED
  BY <1>1, <1>3, <1>4

LEMMA HashAfterType ==
    ASSUME RTypeOK, NEW m \in Command, m.op \notin LockOps
    PROVE  HashAfter(m) \in [fields : SUBSET Fields, left : Int]
<1> DEFINE H == [fields : SUBSET Fields, left : Int]
<1>1. NoHash \in H
  BY DEF NoHash
<1>2. HSet(m.field) \in H
  BY CommandFields DEF HSet, RTypeOK, NoExpiry
<1>3. ASSUME NEW h \in H, NEW n \in Int PROVE Expire(h, n) \in H
  <2>1. n * TicksPerSecond \in Int
    BY TimesAssumption
  <2>2. QED
    BY <1>1, <2>1 DEF Expire
<1>4. ExpireSeconds(m.exp) \in Int /\ ScriptSeconds(m.exp) \in Int
  BY CommandFields, Seconds
<1>5. hash \in H
  BY DEF RTypeOK
<1> HIDE DEF H
<1>6. m.op \in HashOps \cup {"expire"}
  BY CommandFields
<1>7. QED
  BY <1>1, <1>2, <1>3, <1>4, <1>5, <1>6 DEF HashAfter, PipelineSteps, HashOps, H

LEMMA TypeStep == RTypeOK /\ BusyHasCommand /\ [RNext]_rvars => RTypeOK'
<1> SUFFICES ASSUME RTypeOK, BusyHasCommand, [RNext]_rvars
             PROVE  RTypeOK'
  OBVIOUS
<1>0. kind' = kind /\ MaxSends' = MaxSends /\ Command' = Command
  BY KindStays
<1>s. sent < MaxSends => sent + 1 \in 0 .. MaxSends
  BY BoundsAssumption DEF RTypeOK, MaxSends
<1>b. \A c \in Clients : pc[c] \notin Resting => cmd[c] \in Command
  BY DEF BusyHasCommand
<1>1. ASSUME NEW c \in Clients, GetLock(c) PROVE RTypeOK'
  <2>1. /\ "obtaining" \in Controls /\ "obtain" \in LockOps
        /\ Retries \in 0 .. Retries /\ LockTTL \in 0 .. LockTTL
    BY TimesAssumption, BoundsAssumption DEF Controls, LockOps
  <2> DEFINE m == NewCommand(c, "obtain", NoCommand(c).field, NoCommand(c).exp)
  <2>2. m \in Command
    BY <1>1, <2>1, NewCommandType, NoCommandFields DEF GetLock, CountSend
  <2>3. Send(c, m) /\ GoTo(c, "obtaining")
    BY <1>1 DEF GetLock
  <2> HIDE DEF m
  <2>4. QED
    BY <1>0, <1>1, <1>s, <2>1, <2>2, <2>3, SendType, GoToType
    DEF GetLock, CountSend, Set, RTypeOK, server
<1>2. ASSUME NEW c \in Clients, Retry(c) PROVE RTypeOK'
  <2>1. "obtaining" \in Controls /\ "obtain" \in LockOps /\ cmd[c] \in Command
    BY <1>2, <1>b DEF Controls, LockOps, Retry, Resting
  <2>2. QED
    BY <1>0, <1>2, <2>1, SendAgainCommand, SendType, GoToType
    DEF Retry, SendAgain, RTypeOK, server
<1>3. ASSUME NEW c \in Clients, RefreshLock(c) PROVE RTypeOK'
  <2>1. /\ "refreshing" \in Controls /\ "refresh" \in LockOps /\ cmd[c] \in Command
        /\ LockTTL \in 0 .. LockTTL
    BY <1>3, <1>b, TimesAssumption DEF Controls, LockOps, RefreshLock, Resting
  <2>2. QED
    BY <1>0, <1>3, <1>s, <2>1, SendAgainCommand, SendType, GoToType
    DEF RefreshLock, CountSend, SendAgain, Set, RTypeOK, server
<1>4. ASSUME NEW c \in Clients, ReleaseLock(c) PROVE RTypeOK'
  <2>1. /\ "releasing" \in Controls /\ "release" \in LockOps /\ cmd[c] \in Command
        /\ 0 \in 0 .. LockTTL
    BY <1>4, <1>b, TimesAssumption DEF Controls, LockOps, ReleaseLock, Resting
  <2>2. QED
    BY <1>0, <1>4, <2>1, SendAgainCommand, SendType, GoToType
    DEF ReleaseLock, SendAgain, Set, RTypeOK, server
<1>5. ASSUME NEW c \in Clients, NEW op \in HashOps, NEW f \in Fields,
             NEW e \in Expirations, WriteHash(c, op, f, e)
      PROVE  RTypeOK'
  <2>1. "writing" \in Controls
    BY DEF Controls
  <2> DEFINE m == NewCommand(c, op, f, e)
  <2>2. m \in Command
    BY <1>5, NewCommandType DEF WriteHash, CountSend
  <2>3. Send(c, m) /\ GoTo(c, "writing")
    BY <1>5 DEF WriteHash
  <2> HIDE DEF m
  <2>4. QED
    BY <1>0, <1>5, <1>s, <2>1, <2>2, <2>3, SendType, GoToType
    DEF WriteHash, CountSend, RTypeOK, server
<1>6. ASSUME NEW c \in Clients, Resend(c) PROVE RTypeOK'
  <2>1. cmd[c] \in Command
    BY <1>6, <1>b DEF Resend, Waiting, Resting
  <2> DEFINE m == [cmd[c] EXCEPT !.op = cmd[c].op, !.copy = @ + 1]
  <2>2. m \in Command
    <3>1. m = [cmd[c] EXCEPT !.copy = @ + 1]
      BY <2>1 DEF Command
    <3>2. QED
      BY <2>1, <3>1 DEF Command
  <2>3. Send(c, m)
    BY <1>6 DEF Resend, SendAgain
  <2> HIDE DEF m
  <2>4. QED
    BY <1>0, <1>6, <1>s, <2>2, <2>3, SendType DEF Resend, CountSend, RTypeOK, server
<1>7. ASSUME NEW c \in Clients, NEW l \in {"idle", "crashed"}, End(c, l),
             UNCHANGED <<kind, lock, hash, net, sent>>,
             creator' \in [op : HashOps \cup {"none", "expire"}, token : 0 .. MaxSends,
                           copy : Nat, reported : BOOLEAN]
      PROVE  RTypeOK'
  <2>1. l \in Controls
    BY DEF Controls
  <2>2. QED
    BY <1>0, <1>7, <2>1, EndType DEF RTypeOK
<1>8. ASSUME NEW c \in Clients, NEW left \in 0 .. LockTTL, Hold(c, left),
             UNCHANGED <<server, net, sent>>
      PROVE  RTypeOK'
  BY <1>0, <1>8, HoldType DEF RTypeOK, server
<1>9. ASSUME NEW c \in Clients, GiveUp(c) \/ Obtained(c) \/ Refreshed(c) \/ Released(c)
                                \/ Crash(c)
      PROVE  RTypeOK'
  <2>1. window[c] \in 0 .. LockTTL /\ lease[c] \in 0 .. LockTTL
    BY DEF RTypeOK
  <2>2. QED
    BY <1>7, <1>8, <1>9, <2>1
    DEF GiveUp, Obtained, Refreshed, Released, Crash, server, RTypeOK
<1>10. ASSUME NEW c \in Clients, NotObtained(c) PROVE RTypeOK'
  <2>1. CASE tries[c] > 0
    <3>1. "backoff" \in Controls /\ tries[c] - 1 \in 0 .. Retries
      BY <2>1, BoundsAssumption DEF Controls, RTypeOK
    <3>2. QED
      BY <1>0, <1>10, <2>1, <3>1, GoToType DEF NotObtained, Set, RTypeOK, server
  <2>2. CASE ~(tries[c] > 0)
    BY <1>7, <1>10, <2>2 DEF NotObtained, server, RTypeOK
  <2>3. QED
    BY <2>1, <2>2
<1>11. ASSUME NEW c \in Clients, Written(c) PROVE RTypeOK'
  <2>1. creator' \in [op : HashOps \cup {"none", "expire"}, token : 0 .. MaxSends,
                      copy : Nat, reported : BOOLEAN]
    BY <1>11 DEF Written, RTypeOK
  <2>2. QED
    BY <1>7, <1>11, <2>1 DEF Written
<1>12. ASSUME NEW m \in net, ExecuteLock(m) PROVE RTypeOK'
  <2>1. m \in Command
    BY DEF RTypeOK
  <2>2. reply' \in [Clients -> {"none", "ok", "no"}]
    BY <1>12 DEF ExecuteLock, ReplyTo, RTypeOK
  <2>3. lock' \in [token : 0 .. MaxSends, left : 0 .. LockTTL]
    BY <1>12, <2>1, LockAfterType DEF ExecuteLock
  <2>4. QED
    BY <1>0, <1>12, <2>2, <2>3 DEF ExecuteLock, RTypeOK
<1>13. ASSUME NEW m \in net, ExecuteHash(m) PROVE RTypeOK'
  <2>1. m \in Command
    BY DEF RTypeOK
  <2>2. reply' \in [Clients -> {"none", "ok", "no"}]
    BY <1>13 DEF ExecuteHash, ReplyTo, RTypeOK
  <2>3. hash' \in [fields : SUBSET Fields, left : Int]
    BY <1>13, <2>1, HashAfterType DEF ExecuteHash
  <2>4. creator' \in [op : HashOps \cup {"none", "expire"}, token : 0 .. MaxSends,
                      copy : Nat, reported : BOOLEAN]
    <3>1. m.op \in HashOps \cup {"expire"} /\ m.token \in 0 .. MaxSends /\ m.copy \in Nat
      BY <1>13, <2>1, CommandFields DEF ExecuteHash
    <3>2. Nobody \in [op : HashOps \cup {"none", "expire"}, token : 0 .. MaxSends,
                      copy : Nat, reported : BOOLEAN]
      BY BoundsAssumption DEF Nobody, MaxSends
    <3>3. QED
      BY <1>13, <3>1, <3>2 DEF ExecuteHash, RTypeOK
  <2>5. net' \subseteq Command
    <3>1. [m EXCEPT !.op = "expire"] \in Command
      BY <2>1 DEF Command
    <3>2. QED
      BY <1>13, <3>1 DEF ExecuteHash, RTypeOK
  <2>6. QED
    BY <1>0, <1>13, <2>2, <2>3, <2>4, <2>5 DEF ExecuteHash, RTypeOK
<1>14. ASSUME NEW m \in net, LoseCommand(m) PROVE RTypeOK'
  BY <1>0, <1>14 DEF LoseCommand, RTypeOK, server
<1>15. ASSUME Tick PROVE RTypeOK'
  <2>1. lock' \in [token : 0 .. MaxSends, left : 0 .. LockTTL]
    BY <1>15, TimesAssumption, BoundsAssumption DEF Tick, Down, NoLock, RTypeOK, MaxSends
  <2>2. hash' \in [fields : SUBSET Fields, left : Int]
    BY <1>15 DEF Tick, Down, NoHash, RTypeOK
  <2>3. /\ window' \in [Clients -> 0 .. LockTTL]
        /\ lease' \in [Clients -> 0 .. LockTTL]
    BY <1>15, TimesAssumption DEF Tick, Down, RTypeOK
  <2>4. creator' \in [op : HashOps \cup {"none", "expire"}, token : 0 .. MaxSends,
                      copy : Nat, reported : BOOLEAN]
    BY <1>15, BoundsAssumption DEF Tick, Nobody, RTypeOK, MaxSends
  <2>5. QED
    BY <1>0, <1>15, <2>1, <2>2, <2>3, <2>4 DEF Tick, RTypeOK
<1>16. ASSUME UNCHANGED rvars PROVE RTypeOK'
  BY <1>0, <1>16 DEF RTypeOK, rvars
<1>17. ASSUME NEW c \in Clients, Client(c) PROVE RTypeOK'
  <2>1. /\ {"hset", "hset+expire", "hsetnx", "del"} \subseteq HashOps
        /\ NoCommand(c).field \in Fields /\ NoCommand(c).exp \in Expirations
    BY NoCommandFields DEF HashOps
  <2>2. QED
    BY <1>1, <1>2, <1>3, <1>4, <1>5, <1>6, <1>9, <1>10, <1>11, <1>17, <2>1
    DEF Client, Returns
<1>18. QED
  BY <1>12, <1>13, <1>14, <1>15, <1>16, <1>17 DEF RNext, Server

-----------------------------------------------------------------------------
(* Grants *)

(* The numbers the comparisons are about. *)
LEMMA Numbers ==
    ASSUME RTypeOK
    PROVE  /\ sent \in Nat /\ lock.token \in Nat /\ lock.left \in Nat
           /\ \A c \in Clients : window[c] \in Nat /\ lease[c] \in Nat /\ cmd[c].token \in Nat
           /\ \A m \in net : m \in Command /\ m.token \in Nat /\ m.token # 0
<1>1. \A c \in Clients : cmd[c].token \in Nat
  BY CommandFields, NoCommandFields DEF RTypeOK
<1>2. MaxSends \in Nat /\ LockTTL \in Nat
  BY BoundsAssumption, TimesAssumption DEF MaxSends
<1>3. QED
  BY <1>1, <1>2, CommandFields DEF RTypeOK

(* A call that ends leaves the lock to those that have it. *)
LEMMA EndStep ==
    ASSUME RInv, NEW c \in Clients, NEW l \in Resting, End(c, l),
           UNCHANGED <<lock, net, sent>>, Command' = Command
    PROVE  Granted'
<1>1. l \in Controls /\ RTypeOK
  BY DEF Resting, Controls, RInv
<1> USE Numbers, EndType, NoCommandFields DEF RInv, Granted
<1>2. BusyHasCommand'
  BY <1>1 DEF BusyHasCommand
<1>3. TokensAreOwn'
  BY <1>1 DEF TokensAreOwn
<1>4. GrantLasts'
  BY <1>1 DEF GrantLasts, Resting
<1>5. QED
  BY <1>2, <1>3, <1>4

(* A call that returns a lock turns a grant into a lease. *)
LEMMA HoldStep ==
    ASSUME RInv, NEW c \in Clients, NEW left \in 0 .. LockTTL, Hold(c, left),
           UNCHANGED <<lock, net, sent>>, Command' = Command,
           pc[c] \in {"obtaining", "refreshing"},
           left > 0 => lock.token = cmd[c].token /\ lock.left >= left
    PROVE  Granted'
<1>1. RTypeOK
  BY DEF RInv
<1> USE Numbers, HoldType DEF RInv, Granted
<1>2. BusyHasCommand'
  BY <1>1 DEF BusyHasCommand, Resting, OpFits, LockOps
<1>3. TokensAreOwn'
  BY <1>1 DEF TokensAreOwn, OpFits, LockOps
<1>4. GrantLasts'
  BY <1>1 DEF GrantLasts
<1>5. QED
  BY <1>2, <1>3, <1>4

(* A new call has a token nobody has, and no grant. *)
LEMMA NewCallStep ==
    ASSUME RInv, NEW c \in Clients, NEW m \in Command, Send(c, m),
           m.client = c, m.token = sent + 1,
           NEW l \in {"obtaining", "writing"}, OpFits(m.op, l), GoTo(c, l), pc[c] = "idle",
           UNCHANGED <<lock, lease>>, \A d \in Clients \ {c} : window'[d] = window[d],
           sent' = sent + 1, Command' = Command
    PROVE  Granted'
<1>1. l \in Controls /\ RTypeOK /\ net' = net \cup {m}
  BY DEF Controls, RInv, Send
<1> USE Numbers, SendType, GoToType DEF RInv, Granted
<1>2. BusyHasCommand'
  BY <1>1 DEF BusyHasCommand, Resting
<1>3. TokensAreOwn'
  BY <1>1 DEF TokensAreOwn
<1>4. GrantLasts'
  BY <1>1 DEF GrantLasts
<1>5. QED
  BY <1>2, <1>3, <1>4

(* A further command of a call has the token of the first. *)
LEMMA AgainStep ==
    ASSUME RInv, NEW c \in Clients, NEW m \in Command, Send(c, m),
           m.client = c, m.token = cmd[c].token,
           pc'[c] \notin Resting, pc[c] \notin Resting,
           OpFits(m.op, pc'[c]), pc[c] \in {"releasing", "writing"} => pc'[c] = pc[c],
           \A d \in Clients \ {c} :
              pc'[d] = pc[d] /\ window'[d] = window[d] /\ lease'[d] = lease[d],
           lease'[c] = 0 \/ (lease'[c] = lease[c] /\ pc'[c] \in {"holding", "refreshing"}),
           UNCHANGED lock, sent' \in Nat, sent' >= sent, Command' = Command
    PROVE  Granted'
<1>1. RTypeOK /\ net' = net \cup {m}
  BY DEF RInv, Send
<1> USE Numbers, SendType DEF RInv, Granted
<1>2. BusyHasCommand'
  BY <1>1 DEF BusyHasCommand
<1>3. TokensAreOwn'
  <2>1. m.token # 0 /\ \A d \in Clients : cmd'[d].token = cmd[d].token
    BY <1>1, CommandFields
  <2>2. \A d \in Clients : cmd'[d].token <= sent'
    BY <1>1, <2>1 DEF TokensAreOwn
  <2>3. \A d, e \in Clients : cmd'[d].token = cmd'[e].token /\ cmd'[d].token # 0 => d = e
    BY <2>1 DEF TokensAreOwn
  <2>4. ASSUME NEW n \in net'
        PROVE  /\ n.token <= sent'
               /\ \A d \in Clients : cmd'[d].token = n.token =>
                     n.client = d /\ OpFits(n.op, pc'[d])
    <3>1. CASE n \in net
      BY <1>1, <2>1, <3>1 DEF TokensAreOwn, OpFits
    <3>2. CASE n = m
      BY <1>1, <2>1, <2>2, <3>2 DEF TokensAreOwn
    <3>3. QED
      BY <1>1, <2>4, <3>1, <3>2
  <2>5. QED
    BY <2>2, <2>3, <2>4 DEF TokensAreOwn
<1>4. GrantLasts'
  BY <1>1 DEF GrantLasts
<1>5. QED
  BY <1>2, <1>3, <1>4

(* What the server executes, or loses, takes no grant away: a token that    *)
(* has the lock keeps it from the others, and is not released while its     *)
(* client counts on it.                                                     *)
LEMMA ExecuteLockStep ==
    ASSUME RInv, NEW m \in net, ExecuteLock(m), Command' = Command
    PROVE  Granted'
<1>1. /\ RTypeOK /\ m \in Command
      /\ UNCHANGED <<pc, cmd, window, lease, sent>> /\ net' = net \ {m}
      /\ lock' = LockAfter(m) /\ m.op \in {"obtain", "refresh", "release"}
  BY DEF RInv, RTypeOK, ExecuteLock, LockOps
<1> USE Numbers DEF RInv, Granted
<1>2. BusyHasCommand'
  BY <1>1 DEF BusyHasCommand
<1>3. TokensAreOwn'
  BY <1>1 DEF TokensAreOwn
<1>4. /\ lock'.token \in Nat /\ lock'.left \in Nat /\ (lock'.token = 0 <=> lock'.left = 0)
      /\ lock'.token = m.token /\ m.op # "release" => lock'.left = LockTTL
      /\ \A t \in Nat \ {0} : lock.token = t /\ ~(m.op = "release" /\ m.token = t) =>
            lock'.token = t /\ lock'.left >= lock.left
  <2>1. LockTTL \in Nat \ {0} /\ lock \in [token : Nat, left : Nat] /\ lock.left <= LockTTL
    BY <1>1, TimesAssumption, BoundsAssumption DEF RTypeOK, MaxSends
  <2>2. CASE m.op = "obtain"
    BY <1>1, <2>1, <2>2 DEF LockAfter, Obtain, NoLock, GrantLasts
  <2>3. CASE m.op = "refresh"
    BY <1>1, <2>1, <2>3 DEF LockAfter, Refresh, GrantLasts
  <2>4. CASE m.op = "release"
    BY <1>1, <2>1, <2>4 DEF LockAfter, Release, NoLock, GrantLasts
  <2>5. QED
    BY <1>1, <2>2, <2>3, <2>4
<1>5. ASSUME NEW d \in Clients, lease[d] > 0
      PROVE  lock'.token = cmd[d].token /\ lock'.left >= lease[d]
  BY <1>1, <1>4, <1>5 DEF GrantLasts, TokensAreOwn, OpFits
<1>6. ASSUME NEW d \in Clients, pc[d] \in {"obtaining", "refreshing"}, reply'[d] = "ok",
             window[d] > 0
      PROVE  lock'.token = cmd[d].token /\ lock'.left >= window[d]
  <2>1. CASE reply'[d] = reply[d]
    BY <1>1, <1>4, <1>6, <2>1 DEF GrantLasts, TokensAreOwn, OpFits
  <2>2. CASE reply'[d] # reply[d]
    <3>1. /\ d = m.client /\ cmd[d].token = m.token
          /\ m.op # "release" => LockAfter(m).token = m.token
      BY <1>1, <1>6, <2>2 DEF ExecuteLock, ReplyTo, Awaits, RTypeOK
    <3>2. m.op # "release"
      BY <1>6, <3>1 DEF TokensAreOwn, OpFits
    <3>3. window[d] <= LockTTL
      BY <1>1, TimesAssumption DEF RTypeOK
    <3>4. QED
      BY <1>1, <1>4, <3>1, <3>2, <3>3, TimesAssumption
  <2>3. QED
    BY <2>1, <2>2
<1>7. GrantLasts'
  BY <1>1, <1>4, <1>5, <1>6 DEF GrantLasts
<1>8. QED
  BY <1>2, <1>3, <1>7

(* The grant of a hash command is nobody's. *)
LEMMA OthersStep ==
    ASSUME RInv, UNCHANGED <<lock, pc, cmd, window, lease, sent>>, Command' = Command,
           \A d \in Clients : pc[d] \in {"obtaining", "refreshing"} /\ reply'[d] = "ok" =>
              reply[d] = "ok",
           \A m \in net' : \/ m \in net
                           \/ \E n \in net : /\ m.client = n.client /\ m.token = n.token
                                            /\ m.op # "release" /\ n.op \notin LockOps
    PROVE  Granted'
<1> USE Numbers DEF RInv, Granted
<1>1. BusyHasCommand'
  BY DEF BusyHasCommand
<1>2. TokensAreOwn'
  BY DEF TokensAreOwn, OpFits
<1>3. GrantLasts'
  BY DEF GrantLasts
<1>4. QED
  BY <1>1, <1>2, <1>3

(* Time runs for the lock as it does for the leases. *)
LEMMA TickStep ==
    ASSUME RInv, Tick, Command' = Command
    PROVE  Granted'
<1> USE Numbers DEF RInv, Granted
<1>1. BusyHasCommand'
  BY DEF BusyHasCommand, Tick
<1>2. TokensAreOwn'
  BY DEF TokensAreOwn, Tick
<1>3. GrantLasts'
  BY DEF GrantLasts, Tick, Down, NoLock, RTypeOK
<1>4. QED
  BY <1>1, <1>2, <1>3

LEMMA GrantStep == RInv /\ [RNext]_rvars => Granted'
<1> SUFFICES ASSUME RInv, [RNext]_rvars
             PROVE  Granted'
  OBVIOUS
<1>0. RTypeOK /\ Command' = Command
  BY KindStays DEF RInv
<1>b. \A c \in Clients : pc[c] \notin Resting => cmd[c] \in Command /\ cmd[c].client = c
  BY DEF RInv, Granted, BusyHasCommand
<1>n. sent \in Nat /\ LockTTL \in Nat /\ \A c \in Clients : lease[c] \in 0 .. LockTTL
                                              /\ window[c] \in 0 .. LockTTL
  BY <1>0, Numbers, TimesAssumption DEF RTypeOK
<1>1. ASSUME NEW c \in Clients, GetLock(c) PROVE Granted'
  <2> DEFINE m == NewCommand(c, "obtain", NoCommand(c).field, NoCommand(c).exp)
  <2>1. m \in Command /\ m.client = c /\ m.token = sent + 1 /\ m.op = "obtain"
    BY <1>0, <1>1, NewCommandType, NoCommandFields
    DEF GetLock, CountSend, LockOps, NewCommand
  <2>2. Send(c, m) /\ GoTo(c, "obtaining")
    BY <1>1 DEF GetLock
  <2> HIDE DEF m
  <2>3. \A d \in Clients \ {c} : window'[d] = window[d]
    BY <1>0, <1>1 DEF GetLock, Set, RTypeOK
  <2>4. QED
    BY <1>0, <1>1, <2>1, <2>2, <2>3, NewCallStep
    DEF GetLock, CountSend, OpFits, LockOps, server
<1>2. ASSUME NEW c \in Clients, NEW op \in HashOps, NEW f \in Fields,
             NEW e \in Expirations, WriteHash(c, op, f, e)
      PROVE  Granted'
  <2> DEFINE m == NewCommand(c, op, f, e)
  <2>1. m \in Command /\ m.client = c /\ m.token = sent + 1 /\ m.op # "release"
    BY <1>0, <1>2, NewCommandType DEF WriteHash, CountSend, HashOps, NewCommand
  <2>2. Send(c, m) /\ GoTo(c, "writing")
    BY <1>2 DEF WriteHash
  <2> HIDE DEF m
  <2>3. QED
    BY <1>0, <1>2, <2>1, <2>2, NewCallStep DEF WriteHash, CountSend, OpFits, server
<1>3. ASSUME NEW c \in Clients, NEW op \in LockOps \cup HashOps \cup {"expire"}, SendAgain(c, op),
             pc[c] \notin Resting, pc'[c] \notin Resting,
             OpFits(op, pc'[c]), pc[c] \in {"releasing", "writing"} => pc'[c] = pc[c],
             \A d \in Clients \ {c} :
                pc'[d] = pc[d] /\ window'[d] = window[d] /\ lease'[d] = lease[d],
             lease'[c] = 0 \/ (lease'[c] = lease[c] /\ pc'[c] \in {"holding", "refreshing"}),
             UNCHANGED lock, sent' \in Nat, sent' >= sent
      PROVE  Granted'
  <2> DEFINE m == [cmd[c] EXCEPT !.op = op, !.copy = @ + 1]
  <2>1. m \in Command /\ m.client = c /\ m.token = cmd[c].token /\ m.op = op
    BY <1>b, <1>3, SendAgainCommand
  <2>2. Send(c, m)
    BY <1>3 DEF SendAgain
  <2> HIDE DEF m
  <2>3. QED
    BY <1>0, <1>3, <2>1, <2>2, AgainStep
<1> DEFINE NoLease(c) == lease[c] > 0 => pc[c] \in {"holding", "refreshing"}
<1>l. \A c \in Clients : NoLease(c)
  BY DEF RInv, Granted, GrantLasts
<1>4. ASSUME NEW c \in Clients, Retry(c) PROVE Granted'
  <2>1. pc[c] = "backoff" /\ pc' = [pc EXCEPT ![c] = "obtaining"] /\ SendAgain(c, "obtain")
        /\ UNCHANGED <<lock, window, lease, sent>>
    BY <1>4 DEF Retry, GoTo, Set, server
  <2>2. lease'[c] = 0 /\ pc'[c] = "obtaining" /\ \A d \in Clients \ {c} : pc'[d] = pc[d]
    BY <1>0, <1>l, <1>n, <2>1 DEF RTypeOK
  <2>3. QED
    BY <1>3, <1>n, <2>1, <2>2 DEF LockOps, Resting, OpFits
<1>5. ASSUME NEW c \in Clients, RefreshLock(c) PROVE Granted'
  <2>1. /\ pc[c] = "holding" /\ pc' = [pc EXCEPT ![c] = "refreshing"]
        /\ SendAgain(c, "refresh") /\ sent' = sent + 1
        /\ window' = [window EXCEPT ![c] = LockTTL] /\ UNCHANGED <<lock, lease>>
    BY <1>5 DEF RefreshLock, CountSend, GoTo, Set, server
  <2>2. /\ pc'[c] = "refreshing"
        /\ \A d \in Clients \ {c} : pc'[d] = pc[d] /\ window'[d] = window[d]
    BY <1>0, <2>1 DEF RTypeOK
  <2>3. QED
    BY <1>3, <1>n, <2>1, <2>2 DEF LockOps, Resting, OpFits
<1>6. ASSUME NEW c \in Clients, ReleaseLock(c) PROVE Granted'
  <2>1. /\ pc[c] = "holding" /\ pc' = [pc EXCEPT ![c] = "releasing"]
        /\ SendAgain(c, "release") /\ lease' = [lease EXCEPT ![c] = 0]
        /\ UNCHANGED <<lock, window, sent>>
    BY <1>6 DEF ReleaseLock, GoTo, Set, server
  <2>2. /\ pc'[c] = "releasing" /\ lease'[c] = 0
        /\ \A d \in Clients \ {c} : pc'[d] = pc[d] /\ lease'[d] = lease[d]
    BY <1>0, <2>1 DEF RTypeOK
  <2>3. QED
    BY <1>3, <1>n, <2>1, <2>2 DEF LockOps, Resting, OpFits
<1>7. ASSUME NEW c \in Clients, Resend(c) PROVE Granted'
  <2>1. /\ pc[c] \notin Resting /\ SendAgain(c, cmd[c].op) /\ sent' = sent + 1
        /\ UNCHANGED <<lock, pc, window, lease>>
    BY <1>7 DEF Resend, CountSend, Waiting, Resting, server
  <2>2. cmd[c].op \in LockOps \cup HashOps \cup {"expire"} /\ OpFits(cmd[c].op, pc[c])
    BY <1>b, <2>1, CommandFields DEF RInv, Granted, BusyHasCommand
  <2>3. QED
    BY <1>3, <1>l, <1>n, <2>1, <2>2
<1>8. ASSUME NEW c \in Clients, NotObtained(c) PROVE Granted'
  <2>1. CASE tries[c] > 0
    <3>1. /\ pc[c] = "obtaining" /\ pc' = [pc EXCEPT ![c] = "backoff"]
          /\ reply' = [reply EXCEPT ![c] = "none"]
          /\ UNCHANGED <<lock, net, cmd, window, lease, sent>>
      BY <1>8, <2>1 DEF NotObtained, GoTo, Set, server
    <3>2. /\ pc'[c] = "backoff" /\ reply'[c] = "none"
          /\ \A d \in Clients \ {c} : pc'[d] = pc[d] /\ reply'[d] = reply[d]
      BY <1>0, <3>1 DEF RTypeOK
    <3> USE Numbers DEF RInv, Granted
    <3>3. BusyHasCommand'
      BY <1>0, <3>1, <3>2 DEF BusyHasCommand, Resting, OpFits, LockOps
    <3>4. TokensAreOwn'
      BY <3>1, <3>2 DEF TokensAreOwn, OpFits, LockOps
    <3>5. GrantLasts'
      BY <3>1, <3>2 DEF GrantLasts
    <3>6. QED
      BY <3>3, <3>4, <3>5
  <2>2. CASE ~(tries[c] > 0)
    BY <1>0, <1>8, <2>2, EndStep DEF NotObtained, Resting, server
  <2>3. QED
    BY <2>1, <2>2
<1>9. ASSUME NEW c \in Clients, Obtained(c) \/ Refreshed(c) PROVE Granted'
  <2>1. CASE pc[c] = "refreshing" /\ reply[c] # "ok"
    BY <1>0, <1>9, <2>1, EndStep DEF Obtained, Refreshed, Resting, server
  <2>2. CASE ~(pc[c] = "refreshing" /\ reply[c] # "ok")
    <3>1. /\ Hold(c, window[c]) /\ pc[c] \in {"obtaining", "refreshing"} /\ reply[c] = "ok"
          /\ UNCHANGED <<lock, net, sent>>
      BY <1>9, <2>2 DEF Obtained, Refreshed, server
    <3>2. window[c] > 0 => lock.token = cmd[c].token /\ lock.left >= window[c]
      BY <3>1 DEF RInv, Granted, GrantLasts
    <3>3. QED
      BY <1>0, <1>n, <3>1, <3>2, HoldStep
  <2>3. QED
    BY <2>1, <2>2
<1>10. ASSUME NEW c \in Clients, GiveUp(c) PROVE Granted'
  <2>1. CASE pc[c] = "refreshing"
    <3>1. Hold(c, lease[c]) /\ UNCHANGED <<lock, net, sent>>
      BY <1>10, <2>1 DEF GiveUp, server
    <3>2. lease[c] > 0 => lock.token = cmd[c].token /\ lock.left >= lease[c]
      BY DEF RInv, Granted, GrantLasts
    <3>3. QED
      BY <1>0, <1>n, <2>1, <3>1, <3>2, HoldStep
  <2>2. CASE pc[c] # "refreshing"
    BY <1>0, <1>10, <2>2, EndStep DEF GiveUp, Resting, server
  <2>3. QED
    BY <2>1, <2>2
<1>11. ASSUME NEW c \in Clients, Released(c) \/ Written(c) \/ Crash(c) PROVE Granted'
  BY <1>0, <1>11, EndStep DEF Released, Written, Crash, Resting, server
<1>12. ASSUME NEW m \in net, ExecuteLock(m) PROVE Granted'
  BY <1>0, <1>12, ExecuteLockStep
<1>13. ASSUME NEW m \in net, ExecuteHash(m) PROVE Granted'
  <2>1. m \in Command /\ m.op \notin LockOps /\ UNCHANGED <<lock, pc, cmd, window, lease, sent>>
    BY <1>0, <1>13 DEF ExecuteHash, RTypeOK
  <2>2. ASSUME NEW d \in Clients, pc[d] \in {"obtaining", "refreshing"}, reply'[d] = "ok"
        PROVE  reply[d] = "ok"
    <3>1. reply' = reply \/ (Awaits(m) /\ reply' = [reply EXCEPT ![m.client] = "ok"])
      BY <1>13 DEF ExecuteHash, ReplyTo
    <3>2. Awaits(m) => pc[m.client] = "writing"
      BY <2>1, CommandFields DEF Awaits, RInv, Granted, TokensAreOwn, OpFits
    <3>3. QED
      BY <1>0, <2>2, <3>1, <3>2 DEF RTypeOK
  <2>3. /\ [m EXCEPT !.op = "expire"].client = m.client
        /\ [m EXCEPT !.op = "expire"].token = m.token
        /\ [m EXCEPT !.op = "expire"].op = "expire"
    BY <2>1 DEF Command
  <2>4. net' \subseteq net \cup {[m EXCEPT !.op = "expire"]}
    BY <1>13 DEF ExecuteHash
  <2>5. QED
    BY <1>0, <2>1, <2>2, <2>3, <2>4, OthersStep
<1>14. ASSUME NEW m \in net, LoseCommand(m) PROVE Granted'
  BY <1>0, <1>14, OthersStep DEF LoseCommand, server
<1>15. ASSUME Tick PROVE Granted'
  BY <1>0, <1>15, TickStep
<1>16. ASSUME UNCHANGED rvars PROVE Granted'
  BY <1>0, <1>16, OthersStep DEF rvars
<1>17. ASSUME NEW c \in Clients, Client(c) PROVE Granted'
  <2>1. /\ {"hset", "hset+expire", "hsetnx", "del"} \subseteq HashOps
        /\ NoCommand(c).field \in Fields /\ NoCommand(c).exp \in Expirations
    BY NoCommandFields DEF HashOps
  <2>2. QED
    BY <1>1, <1>2, <1>4, <1>5, <1>6, <1>7, <1>8, <1>9, <1>10, <1>11, <1>17, <2>1
    DEF Client, Returns
<1>18. QED
  BY <1>12, <1>13, <1>14, <1>15, <1>16, <1>17 DEF RNext, Server

-----------------------------------------------------------------------------
LEMMA InvInit == RInit => RInv
<1>1. /\ MaxSends \in Nat /\ LockTTL \in Nat /\ Retries \in Nat
  BY BoundsAssumption, TimesAssumption DEF MaxSends
<1>2. ASSUME RInit PROVE RTypeOK
  BY <1>1, <1>2 DEF RInit, RTypeOK, NoLock, NoHash, Nobody, Controls
<1>3. ASSUME RInit PROVE Granted
  BY <1>3, NoCommandFields
  DEF RInit, Granted, BusyHasCommand, TokensAreOwn, GrantLasts, Resting, NoLock
<1>4. QED
  BY <1>2, <1>3 DEF RInv

LEMMA InvStep == RInv /\ [RNext]_rvars => RInv'
BY TypeStep, GrantStep DEF RInv, Granted

LEMMA InvAlways == RSpec => []RInv
BY InvInit, InvStep, PTL DEF RSpec

(* Type correctness: every variable has its type, always. *)
THEOREM TypeCorrect == RSpec => []RTypeOK
<1>1. RInv => RTypeOK
  BY DEF RInv
<1>2. QED
  BY <1>1, InvAlways, PTL

(* Whoever counts on its lock has it, so that nobody else does. *)
THEOREM LocksHold == RSpec => []LeaseHeld
<1>1. RInv => LeaseHeld
  BY DEF RInv, Granted, GrantLasts, LeaseHeld
<1>2. QED
  BY <1>1, InvAlways, PTL

-----------------------------------------------------------------------------
(* The hash with a time to live *)

(* No two commands under way are the same copy of one call; a client awaits *)
(* the copy it sent last, and has no reply while that is under way.         *)
CopiesAreOwn ==
    /\ \A m, n \in net : m.token = n.token /\ m.copy = n.copy => m = n
    /\ \A m \in net, c \in Clients : cmd[c].token = m.token =>
          m.copy <= cmd[c].copy /\ (m.copy = cmd[c].copy => reply[c] = "none")
    /\ creator.token <= sent
    /\ \A c \in Clients : cmd[c].token = creator.token /\ creator.token # 0 =>
          creator.copy <= cmd[c].copy

(* A hash that does not expire was created by a plain HSet, or by the first *)
(* half of HSetWithTTL; then its second half has not been executed, and the *)
(* client has not been answered.                                            *)
CreatorOK ==
    /\ hash.left = NoExpiry => creator.op \in {"hset", "hset+expire"}
    /\ hash.left = NoExpiry /\ creator.op = "hset+expire" =>
          /\ ~creator.reported
          /\ \A c \in Clients : cmd[c].token = creator.token /\ cmd[c].copy = creator.copy =>
                reply[c] # "ok"
    /\ creator.op = "hset+expire" =>
          \A m \in net : m.token = creator.token /\ m.copy = creator.copy => m.op = "expire"

CreationInv == CopiesAreOwn /\ CreatorOK

(* What a write adds to a hash; that it does not touch the time to live. *)
LEMMA HSetFacts ==
    ASSUME NEW f
    PROVE  /\ HSet(f) # NoHash /\ hash.fields \subseteq HSet(f).fields
           /\ hash # NoHash => HSet(f).left = hash.left
           /\ hash = NoHash => HSet(f).left = NoExpiry
<1>1. HSet(f).fields = hash.fields \cup {f} /\ NoHash.fields = {}
  BY DEF HSet, NoHash
<1>2. QED
  BY <1>1 DEF HSet

(* A hash that is given a time to live has one afterwards, or is gone.      *)
LEMMA ExpireFacts ==
    ASSUME NEW h \in [fields : SUBSET Fields, left : Int], NEW n \in Int
    PROVE  /\ Expire(h, n).left # NoExpiry
           /\ n > 0 => h.fields \subseteq Expire(h, n).fields
<1>1. NoHash.left = 0 /\ NoHash.fields = {}
  BY DEF NoHash
<1>2. CASE h = NoHash \/ n <= 0
  BY <1>1, <1>2 DEF Expire, NoExpiry
<1>3. CASE h # NoHash /\ n > 0
  <2>1. n * TicksPerSecond \in Nat
    BY <1>3, TimesAssumption
  <2>2. Expire(h, n) = [h EXCEPT !.left = n * TicksPerSecond]
    BY <1>3 DEF Expire
  <2>3. QED
    BY <2>1, <2>2 DEF NoExpiry
<1>4. QED
  BY <1>2, <1>3

(* What a command does to the hash. *)
LEMMA HashFacts ==
    ASSUME RTypeOK, NEW m \in Command, m.op \notin LockOps
    PROVE  /\ HashAfter(m).left = NoExpiry =>
                \/ hash # NoHash /\ hash.left = NoExpiry
                \/ hash = NoHash /\ m.op \in {"hset", "hset+expire"}
           /\ m.op = "expire" => HashAfter(m).left # NoExpiry
           /\ \/ hash.fields \subseteq HashAfter(m).fields
              \/ m.op = "del"
              \/ m.op = "hsetnx" /\ m.exp < TicksPerSecond
              \/ m.op = "expire" /\ m.exp <= 0
<1> DEFINE H == [fields : SUBSET Fields, left : Int]
<1>1. /\ hash \in H /\ HSet(m.field) \in H /\ m.exp \in Expirations
      /\ m.op \in HashOps \cup {"expire"} /\ NoHash.left # NoExpiry
  BY CommandFields DEF RTypeOK, HSet, NoExpiry, NoHash
<1> HIDE DEF H
<1>2. CASE m.op \in {"hset", "hset+expire"}
  <2>1. HashAfter(m) = HSet(m.field)
    BY <1>2 DEF HashAfter, PipelineSteps
  <2>2. QED
    BY <1>2, <2>1, HSetFacts
<1>3. CASE m.op = "expire"
  <2>1. HashAfter(m) = Expire(hash, ExpireSeconds(m.exp))
    BY <1>3 DEF HashAfter, PipelineSteps
  <2>2. /\ Expire(hash, ExpireSeconds(m.exp)).left # NoExpiry
        /\ \/ hash.fields \subseteq Expire(hash, ExpireSeconds(m.exp)).fields
           \/ m.exp <= 0
    BY <1>1, Seconds, ExpireFacts DEF H
  <2>3. QED
    BY <1>3, <2>1, <2>2
<1>4. CASE m.op = "hsetnx"
  <2>1. CASE m.field \in hash.fields
    <3>1. HashAfter(m) = hash
      BY <1>4, <2>1 DEF HashAfter
    <3>2. QED
      BY <1>1, <1>4, <3>1
  <2>2. CASE m.field \notin hash.fields
    <3>1. HashAfter(m) = Expire(HSet(m.field), ScriptSeconds(m.exp))
      BY <1>4, <2>2 DEF HashAfter
    <3>2. /\ Expire(HSet(m.field), ScriptSeconds(m.exp)).left # NoExpiry
          /\ \/ HSet(m.field).fields \subseteq Expire(HSet(m.field), ScriptSeconds(m.exp)).fields
             \/ m.exp < TicksPerSecond
      BY <1>1, Seconds, ExpireFacts DEF H
    <3>3. QED
      BY <1>4, <3>1, <3>2, HSetFacts
  <2>3. QED
    BY <2>1, <2>2
<1>5. CASE m.op = "del"
  BY <1>1, <1>5 DEF HashAfter
<1>6. QED
  BY <1>1, <1>2, <1>3, <1>4, <1>5 DEF HashOps

(* The numbers of commands and of the creator. *)
LEMMA CopyNumbers ==
    ASSUME RTypeOK
    PROVE  /\ sent \in Nat /\ creator.token \in Nat /\ creator.copy \in Nat
           /\ \A c \in Clients : cmd[c].token \in Nat /\ cmd[c].copy \in Nat
           /\ \A m \in net : m \in Command /\ m.token \in Nat /\ m.token # 0 /\ m.copy \in Nat
<1>1. \A c \in Clients : cmd[c].copy \in Nat
  <2>1. \A c : NoCommand(c).copy = 0
    BY DEF NoCommand
  <2>2. QED
    BY <2>1, CommandFields DEF RTypeOK
<1>2. creator.token \in Nat /\ creator.copy \in Nat
  <2>1. MaxSends \in Nat
    BY BoundsAssumption DEF MaxSends
  <2>2. QED
    BY <2>1 DEF RTypeOK
<1>3. \A m \in net : m \in Command /\ m.copy \in Nat
  BY CommandFields DEF RTypeOK
<1>4. QED
  BY <1>1, <1>2, <1>3, Numbers

(* A client sends a further copy, or the first command of a call. *)
LEMMA SendCopies ==
    ASSUME RInv, CreationInv, NEW c \in Clients, NEW m \in Command, Send(c, m),
           \/ m.token = sent + 1 /\ sent' = sent + 1
           \/ /\ m.token = cmd[c].token /\ m.copy = cmd[c].copy + 1
              /\ sent' \in {sent, sent + 1},
           UNCHANGED <<hash, creator>>
    PROVE  CreationInv'
<1>1. RTypeOK /\ net' = net \cup {m} /\ m.token # 0 /\ m.token \in Nat /\ m.copy \in Nat
  BY CommandFields DEF RInv, Send
<1>2. /\ cmd'[c] = m /\ reply'[c] = "none"
      /\ \A d \in Clients \ {c} : cmd'[d] = cmd[d] /\ reply'[d] = reply[d]
  BY <1>1, SendType
<1>3. \A n \in net : n.token = m.token => n.copy < m.copy
  BY <1>1, CopyNumbers DEF CreationInv, CopiesAreOwn, RInv, Granted, TokensAreOwn
<1>4. creator.token = m.token => creator.copy < m.copy
  BY <1>1, CopyNumbers DEF CreationInv, CopiesAreOwn
<1>5. \A d \in Clients \ {c} : cmd[d].token # m.token
  BY <1>1, CopyNumbers DEF RInv, Granted, TokensAreOwn
<1>6. CopiesAreOwn'
  BY <1>1, <1>2, <1>3, <1>4, <1>5, CopyNumbers DEF CreationInv, CopiesAreOwn
<1>7. CreatorOK'
  BY <1>1, <1>2, <1>4, CopyNumbers DEF CreationInv, CreatorOK
<1>8. QED
  BY <1>6, <1>7 DEF CreationInv

(* A client reads its reply, or forgets its command. *)
LEMMA ReadCopies ==
    ASSUME RInv, CreationInv, NEW c \in Clients,
           UNCHANGED <<hash, net, sent>>, reply'[c] = "none",
           cmd'[c] = cmd[c] \/ cmd'[c] = NoCommand(c),
           \A d \in Clients \ {c} : cmd'[d] = cmd[d] /\ reply'[d] = reply[d],
           \/ UNCHANGED creator
           \/ /\ reply[c] = "ok" /\ creator.token = cmd[c].token /\ creator.copy = cmd[c].copy
              /\ creator' = [creator EXCEPT !.reported = TRUE]
    PROVE  CreationInv'
<1>1. RTypeOK /\ \A n \in net : n.token # 0
  BY CopyNumbers DEF RInv
<1>2. /\ creator'.op = creator.op /\ creator'.token = creator.token
      /\ creator'.copy = creator.copy
      /\ hash.left = NoExpiry /\ creator.op = "hset+expire" => creator' = creator
  BY <1>1 DEF CreationInv, CreatorOK, RTypeOK
<1>3. \A d \in Clients : cmd'[d].token # 0 => cmd'[d] = cmd[d]
  BY NoCommandFields
<1>4. CopiesAreOwn'
  BY <1>1, <1>2, <1>3 DEF CreationInv, CopiesAreOwn
<1>5. CreatorOK'
  <2>1. ASSUME hash.left = NoExpiry, creator.op = "hset+expire", NEW d \in Clients,
               cmd'[d].token = creator.token, cmd'[d].copy = creator.copy
        PROVE  reply'[d] # "ok"
    BY <2>1 DEF CreationInv, CreatorOK
  <2>2. QED
    BY <1>2, <2>1 DEF CreationInv, CreatorOK
<1>6. QED
  BY <1>4, <1>5 DEF CreationInv

(* Time passes, or a command for a lock is executed or lost. *)
LEMMA LockCopies ==
    ASSUME RInv, CreationInv, NEW m \in net, ExecuteLock(m) \/ LoseCommand(m)
    PROVE  CreationInv'
<1>1. /\ RTypeOK /\ m \in Command
      /\ UNCHANGED <<hash, creator, cmd, sent>> /\ net' = net \ {m}
  BY DEF RInv, RTypeOK, ExecuteLock, LoseCommand, server
<1>2. \A d \in Clients : reply'[d] = reply[d] \/
           (ExecuteLock(m) /\ d = m.client /\ cmd[d].token = m.token /\ cmd[d].copy = m.copy)
  BY <1>1 DEF ExecuteLock, LoseCommand, ReplyTo, Awaits, RTypeOK
<1>3. CopiesAreOwn'
  BY <1>1, <1>2 DEF CreationInv, CopiesAreOwn
<1>4. CreatorOK'
  <2>1. ASSUME hash.left = NoExpiry, creator.op = "hset+expire", NEW d \in Clients,
               cmd[d].token = creator.token, cmd[d].copy = creator.copy
        PROVE  reply'[d] # "ok"
    <3>1. reply[d] # "ok"
      BY <2>1 DEF CreationInv, CreatorOK
    <3>2. CASE reply'[d] = reply[d]
      BY <3>1, <3>2
    <3>3. CASE ExecuteLock(m) /\ m.token = creator.token /\ m.copy = creator.copy
      <4>1. m.op = "expire"
        BY <2>1, <3>3 DEF CreationInv, CreatorOK
      <4>2. QED
        BY <3>3, <4>1 DEF ExecuteLock, LockOps
    <3>4. QED
      BY <1>2, <2>1, <3>2, <3>3
  <2>2. QED
    BY <1>1, <2>1 DEF CreationInv, CreatorOK
<1>5. QED
  BY <1>3, <1>4 DEF CreationInv

LEMMA TickCopies ==
    ASSUME RInv, CreationInv, Tick
    PROVE  CreationInv'
<1>1. /\ RTypeOK /\ UNCHANGED <<net, cmd, reply, sent>>
      /\ creator' = creator \/ (creator' = Nobody /\ hash' = NoHash)
      /\ hash \in [fields : SUBSET Fields, left : Int]
  BY DEF RInv, Tick, RTypeOK
<1>2. hash'.left = NoExpiry => hash.left = NoExpiry /\ creator' = creator
  BY <1>1 DEF Tick, Down, NoHash, NoExpiry
<1>3. Nobody.token = 0 /\ Nobody.op = "none" /\ sent \in Nat
  BY <1>1, CopyNumbers DEF Nobody
<1>4. CopiesAreOwn'
  BY <1>1, <1>3 DEF CreationInv, CopiesAreOwn
<1>5. CreatorOK'
  BY <1>1, <1>2, <1>3 DEF CreationInv, CreatorOK
<1>6. QED
  BY <1>4, <1>5 DEF CreationInv

(* The server executes a command for the hash: the one that matters is the  *)
(* second half of HSetWithTTL, the only one its client waits for.           *)
LEMMA HashCopies ==
    ASSUME RInv, CreationInv, NEW m \in net, ExecuteHash(m)
    PROVE  CreationInv'
<1> DEFINE n == [m EXCEPT !.op = "expire"]
<1>1. /\ RTypeOK /\ m \in Command /\ m.op \notin LockOps /\ hash' = HashAfter(m)
      /\ UNCHANGED <<cmd, sent>>
  BY DEF RInv, RTypeOK, ExecuteHash
<1>2. n.token = m.token /\ n.copy = m.copy /\ n.op = "expire"
  BY <1>1 DEF Command
<1> HIDE DEF n
<1>3. \/ m.op # "hset+expire" /\ net' = net \ {m}
      \/ m.op = "hset+expire" /\ net' = (net \ {m}) \cup {n} /\ reply' = reply
  BY DEF ExecuteHash, n
<1>4. \A d \in Clients : reply'[d] = reply[d] \/
           (m.op # "hset+expire" /\ cmd[d].token = m.token /\ cmd[d].copy = m.copy)
  BY <1>1 DEF ExecuteHash, ReplyTo, Awaits, RTypeOK
<1>5. \/ creator' = Nobody /\ hash' = NoHash
      \/ creator' = [op |-> m.op, token |-> m.token, copy |-> m.copy, reported |-> FALSE]
            /\ hash = NoHash /\ hash' # NoHash
      \/ creator' = creator /\ hash # NoHash /\ hash' # NoHash
  BY DEF ExecuteHash
<1>6. /\ Nobody.token = 0 /\ Nobody.op = "none" /\ NoHash.left # NoExpiry /\ sent \in Nat
      /\ m.token <= sent
  BY <1>1, CopyNumbers DEF Nobody, NoHash, NoExpiry, RInv, Granted, TokensAreOwn
<1>7. /\ \A k \in net : k.token = m.token /\ k.copy = m.copy => k = m
      /\ \A d \in Clients : cmd[d].token = m.token =>
            m.copy <= cmd[d].copy /\ (m.copy = cmd[d].copy => reply[d] = "none")
  BY DEF CreationInv, CopiesAreOwn
<1>8. CopiesAreOwn'
  <2>1. \A k, l \in net' : k.token = l.token /\ k.copy = l.copy => k = l
    BY <1>2, <1>3, <1>7 DEF CreationInv, CopiesAreOwn
  <2>2. ASSUME NEW k \in net', NEW d \in Clients, cmd[d].token = k.token
        PROVE  k.copy <= cmd[d].copy /\ (k.copy = cmd[d].copy => reply'[d] = "none")
    <3>1. CASE k \in net \ {m}
      BY <1>4, <1>7, <2>2, <3>1 DEF CreationInv, CopiesAreOwn
    <3>2. CASE k = n /\ reply' = reply
      BY <1>2, <1>7, <2>2, <3>2
    <3>3. QED
      BY <1>3, <2>2, <3>1, <3>2
  <2>3. /\ creator'.token <= sent
        /\ \A d \in Clients : cmd[d].token = creator'.token /\ creator'.token # 0 =>
              creator'.copy <= cmd[d].copy
    BY <1>5, <1>6, <1>7 DEF CreationInv, CopiesAreOwn
  <2>4. QED
    BY <1>1, <2>1, <2>2, <2>3 DEF CopiesAreOwn
<1>9. /\ hash'.left = NoExpiry =>
            \/ hash # NoHash /\ hash.left = NoExpiry
            \/ hash = NoHash /\ m.op \in {"hset", "hset+expire"}
      /\ m.op = "expire" => hash'.left # NoExpiry
  BY <1>1, HashFacts
<1>10. CreatorOK'
  <2>1. hash'.left = NoExpiry => creator'.op \in {"hset", "hset+expire"}
    BY <1>5, <1>6, <1>9 DEF CreationInv, CreatorOK
  <2>2. ASSUME hash'.left = NoExpiry, creator'.op = "hset+expire"
        PROVE  /\ ~creator'.reported
               /\ \A d \in Clients : cmd[d].token = creator'.token /\ cmd[d].copy = creator'.copy
                     => reply'[d] # "ok"
    <3>1. CASE creator' = creator /\ hash # NoHash
      <4>1. hash.left = NoExpiry
        BY <1>9, <2>2, <3>1
      <4>2. m.token = creator.token /\ m.copy = creator.copy => m.op = "expire"
        BY <2>2, <3>1 DEF CreationInv, CreatorOK
      <4>3. QED
        BY <1>4, <1>9, <2>2, <3>1, <4>1, <4>2 DEF CreationInv, CreatorOK
    <3>2. CASE creator' = [op |-> m.op, token |-> m.token, copy |-> m.copy, reported |-> FALSE]
      BY <1>3, <1>7, <2>2, <3>2
    <3>3. QED
      BY <1>5, <1>6, <2>2, <3>1, <3>2
  <2>3. ASSUME creator'.op = "hset+expire", NEW k \in net',
               k.token = creator'.token, k.copy = creator'.copy
        PROVE  k.op = "expire"
    BY <1>2, <1>3, <1>5, <1>6, <1>7, <2>3 DEF CreationInv, CreatorOK
  <2>4. QED
    BY <1>1, <2>1, <2>2, <2>3 DEF CreatorOK
<1>11. QED
  BY <1>8, <1>10 DEF CreationInv

(* The copy numbers of the commands a client sends. *)
LEMMA CopyOfAgain ==
    ASSUME NEW m \in Command, NEW op
    PROVE  [m EXCEPT !.op = op, !.copy = @ + 1].copy = m.copy + 1
<1> DEFINE n == [m EXCEPT !.op = op]
<1>1. [m EXCEPT !.op = op, !.copy = @ + 1] = [n EXCEPT !.copy = @ + 1] /\ n.copy = m.copy
  BY DEF Command
<1>2. [n EXCEPT !.copy = @ + 1].copy = n.copy + 1
  BY DEF Command
<1>3. QED
  BY <1>1, <1>2

LEMMA CreationStep == RInv /\ CreationInv /\ [RNext]_rvars => CreationInv'
<1> SUFFICES ASSUME RInv, CreationInv, [RNext]_rvars
             PROVE  CreationInv'
  OBVIOUS
<1>0. RTypeOK
  BY DEF RInv
<1>b. \A c \in Clients : pc[c] \notin Resting => cmd[c] \in Command
                                            /\ cmd[c].op \in LockOps \cup HashOps \cup {"expire"}
  BY CommandFields DEF RInv, Granted, BusyHasCommand
<1>1. ASSUME NEW c \in Clients, NEW op \in LockOps \cup HashOps, NEW f \in Fields,
             NEW e \in Expirations, CountSend, Send(c, NewCommand(c, op, f, e)),
             UNCHANGED <<hash, creator>>
      PROVE  CreationInv'
  <2>1. /\ NewCommand(c, op, f, e) \in Command /\ NewCommand(c, op, f, e).token = sent + 1
        /\ sent' = sent + 1
    BY <1>0, <1>1, NewCommandType DEF CountSend, NewCommand
  <2>2. QED
    BY <1>1, <2>1, SendCopies
<1>2. ASSUME NEW c \in Clients, NEW op \in LockOps \cup HashOps \cup {"expire"},
             pc[c] \notin Resting, SendAgain(c, op), sent' \in {sent, sent + 1},
             UNCHANGED <<hash, creator>>
      PROVE  CreationInv'
  <2> DEFINE m == [cmd[c] EXCEPT !.op = op, !.copy = @ + 1]
  <2>1. m \in Command /\ m.token = cmd[c].token /\ m.copy = cmd[c].copy + 1
    BY <1>b, <1>2, SendAgainCommand, CopyOfAgain
  <2>2. Send(c, m)
    BY <1>2 DEF SendAgain
  <2> HIDE DEF m
  <2>3. QED
    BY <1>2, <2>1, <2>2, SendCopies
<1>3. ASSUME NEW c \in Clients, GetLock(c) PROVE CreationInv'
  BY <1>1, <1>3, NoCommandFields DEF GetLock, LockOps, server
<1>4. ASSUME NEW c \in Clients, NEW op \in HashOps, NEW f \in Fields, NEW e \in Expirations,
             WriteHash(c, op, f, e)
      PROVE  CreationInv'
  BY <1>1, <1>4 DEF WriteHash, server
<1>5. ASSUME NEW c \in Clients, Retry(c) \/ RefreshLock(c) \/ ReleaseLock(c) \/ Resend(c)
      PROVE  CreationInv'
  <2>1. /\ pc[c] \notin Resting /\ sent' \in {sent, sent + 1} /\ UNCHANGED <<hash, creator>>
        /\ \/ SendAgain(c, "obtain") \/ SendAgain(c, "refresh") \/ SendAgain(c, "release")
           \/ SendAgain(c, cmd[c].op)
    BY <1>5 DEF Retry, RefreshLock, ReleaseLock, Resend, Waiting, CountSend, Resting, server
  <2>2. QED
    BY <1>b, <1>2, <2>1 DEF LockOps
<1>6. ASSUME NEW c \in Clients, NEW l \in Controls, End(c, l), UNCHANGED <<hash, net, sent>>,
             \/ UNCHANGED creator
             \/ /\ reply[c] = "ok" /\ creator.token = cmd[c].token /\ creator.copy = cmd[c].copy
                /\ creator' = [creator EXCEPT !.reported = TRUE]
      PROVE  CreationInv'
  BY <1>0, <1>6, EndType, ReadCopies
<1>7. ASSUME NEW c \in Clients, NEW left \in 0 .. LockTTL, Hold(c, left),
             UNCHANGED <<hash, net, sent, creator>>
      PROVE  CreationInv'
  BY <1>0, <1>7, HoldType, ReadCopies
<1>c. "idle" \in Controls /\ "crashed" \in Controls
      /\ \A c \in Clients : window[c] \in 0 .. LockTTL /\ lease[c] \in 0 .. LockTTL
  BY <1>0 DEF Controls, RTypeOK
<1>8. ASSUME NEW c \in Clients, Returns(c) PROVE CreationInv'
  <2>1. CASE Obtained(c)
    BY <1>7, <1>c, <2>1 DEF Obtained, server
  <2>2. CASE NotObtained(c)
    <3>1. CASE tries[c] > 0
      <4>1. UNCHANGED <<hash, net, sent, cmd, creator>> /\ reply' = [reply EXCEPT ![c] = "none"]
        BY <2>2, <3>1 DEF NotObtained, Set, server
      <4>2. reply'[c] = "none" /\ \A d \in Clients \ {c} : reply'[d] = reply[d]
        BY <1>0, <4>1 DEF RTypeOK
      <4>3. QED
        BY <4>1, <4>2, ReadCopies
    <3>2. CASE ~(tries[c] > 0)
      BY <1>6, <1>c, <2>2, <3>2 DEF NotObtained, server
    <3>3. QED
      BY <3>1, <3>2
  <2>3. CASE Refreshed(c)
    BY <1>6, <1>7, <1>c, <2>3 DEF Refreshed, server
  <2>4. CASE Released(c)
    BY <1>6, <1>c, <2>4 DEF Released, server
  <2>5. CASE Written(c)
    BY <1>6, <1>c, <2>5 DEF Written
  <2>6. CASE GiveUp(c)
    BY <1>6, <1>7, <1>c, <2>6 DEF GiveUp, server
  <2>7. QED
    BY <1>8, <2>1, <2>2, <2>3, <2>4, <2>5, <2>6 DEF Returns
<1>9. ASSUME NEW c \in Clients, Crash(c) PROVE CreationInv'
  BY <1>6, <1>c, <1>9 DEF Crash, server
<1>10. CASE Tick
  BY <1>10, TickCopies
<1>11. ASSUME NEW m \in net, ExecuteLock(m) \/ ExecuteHash(m) \/ LoseCommand(m)
       PROVE  CreationInv'
  BY <1>11, LockCopies, HashCopies
<1>12. CASE UNCHANGED rvars
  BY <1>12 DEF rvars, CreationInv, CopiesAreOwn, CreatorOK
<1>13. ASSUME NEW c \in Clients, Client(c) PROVE CreationInv'
  <2>1. /\ {"hset", "hset+expire", "hsetnx", "del"} \subseteq HashOps
        /\ NoCommand(c).field \in Fields /\ NoCommand(c).exp \in Expirations
    BY NoCommandFields DEF HashOps
  <2>2. QED
    BY <1>3, <1>4, <1>5, <1>8, <1>9, <1>13, <2>1 DEF Client
<1>14. QED
  BY <1>10, <1>11, <1>12, <1>13 DEF RNext, Server

LEMMA CreationInit == RInit => CreationInv
BY NoCommandFields
DEF RInit, CreationInv, CopiesAreOwn, CreatorOK, Nobody, NoHash, NoExpiry

(* Once HSetWithTTL has reported success, the hash it created expires: the  *)
(* reply is that of its second half, whatever was executed in between.      *)
THEOREM CreatedHashesExpire == RSpec => []CreatedHashExpires
<1>1. RInit => RInv /\ CreationInv
  BY InvInit, CreationInit
<1>2. RInv /\ CreationInv /\ [RNext]_rvars => (RInv /\ CreationInv)'
  BY InvStep, CreationStep
<1>3. RInv /\ CreationInv => CreatedHashExpires
  BY DEF CreationInv, CreatorOK, CreatedHashExpires
<1>4. QED
  BY <1>1, <1>2, <1>3, PTL DEF RSpec

(* A field vanishes by expiry, by Del, or by a write whose expiration is     *)
(* over at once.                                                            *)
Vanishing ==
    \/ hash.fields \subseteq hash'.fields
    \/ hash.left = 1 /\ net' = net
    \/ \E m \in net \ net' :
          \/ m.op = "del"
          \/ m.op = "hsetnx" /\ m.exp < TicksPerSecond
          \/ m.op = "expire" /\ m.exp <= 0

LEMMA FieldsStep == RInv /\ [RNext]_rvars => [Vanishing]_rvars
<1> SUFFICES ASSUME RInv, [RNext]_rvars
             PROVE  Vanishing \/ UNCHANGED rvars
  OBVIOUS
<1>0. RTypeOK
  BY DEF RInv
<1>1. ASSUME NEW m \in net, ExecuteHash(m) PROVE Vanishing
  <2>1. m \in Command /\ m.op \notin LockOps /\ hash' = HashAfter(m)
    BY <1>0, <1>1 DEF ExecuteHash, RTypeOK
  <2>2. m.op # "hset+expire" => m \in net \ net'
    BY <1>1 DEF ExecuteHash
  <2>3. QED
    BY <1>0, <2>1, <2>2, HashFacts DEF Vanishing
<1>2. CASE Tick
  BY <1>0, <1>2 DEF Tick, Vanishing, RTypeOK
<1>3. CASE UNCHANGED hash
  BY <1>3 DEF Vanishing
<1>4. ASSUME NEW c \in Clients, Client(c) PROVE UNCHANGED hash
  BY <1>4 DEF Client, Returns, GetLock, Retry, RefreshLock, ReleaseLock, WriteHash, Resend,
     GiveUp, Obtained, NotObtained, Refreshed, Released, Written, Crash, server
<1>5. ASSUME NEW m \in net, ExecuteLock(m) \/ LoseCommand(m) PROVE UNCHANGED hash
  BY <1>5 DEF ExecuteLock, LoseCommand, server
<1>6. QED
  BY <1>1, <1>2, <1>3, <1>4, <1>5 DEF RNext, Server

(* Fields vanish by expiry, by Del, by an HSetNXWithTTL of less than a       *)
(* second or by an HSetWithTTL of zero or less, and for no other reason: no *)
(* bound is put on the expirations that callers pass.                       *)
THEOREM VanishingHasAReason == RSpec => FieldsVanishForAReason
BY InvAlways, FieldsStep, PTL DEF RSpec, FieldsVanishForAReason, Vanishing

=============================================================================
