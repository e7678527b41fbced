-------------------------- MODULE SessionDirectory --------------------------
(***************************************************************************)
(* The connection manager of the gateway as its callers see it, without    *)
(* its locks, its clock and its readers: the sessions, and what the two    *)
(* lookups by user and by room return.                                     *)
(*                                                                         *)
(* The lookups do not always agree with the sessions: a second login on    *)
(* one connection replaces its session and leaves the entries of the old   *)
(* one behind, and a room with the empty name is entered, never left.      *)
(*                                                                         *)
(* ConnectionManager is shown to implement this specification; Broadcaster *)
(* and Gateway are built on it.                                            *)
(***************************************************************************)
EXTENDS Naturals, FiniteSets, Functions

CONSTANTS
    Conns,     \* connections
    Users,     \* user ids
    Rooms,     \* room ids, the empty one included
    NoRoom,    \* the empty room id
    Capacity   \* how many sessions there may be

ASSUME NoRoomAssumption == NoRoom \in Rooms

VARIABLES
    sessions,  \* partial function: connection -> [user, room]
    contact,   \* by user: the connection GetConnection returns, if any
    roster,    \* by room: the connections GetRoomConnections returns
    relogged   \* history: connections that logged in again while logged in

directory == <<sessions, contact, roster, relogged>>

Present == DOMAIN sessions

(* Who is in a room, and who has logged in as a user: read off the sessions.*)
Members(r) == {c \in Present : sessions[c].room = r}

SessionsOf(u) == {c \in Present : sessions[c].user = u}

(* What GetConnection, GetRoomConnections and GetAllConnections return. *)
Found(kind, to) ==
    CASE kind = "user" -> contact[to]
      [] kind = "room" -> roster[to]
      [] kind = "all"  -> Present

DirectoryOK ==
    /\ Present \subseteq Conns
    /\ sessions \in [Present -> [user : Users, room : Rooms]]
    /\ contact \in [Users -> SUBSET Conns]
    /\ roster \in [Rooms -> SUBSET Conns]
    /\ relogged \subseteq Conns

-----------------------------------------------------------------------------
DirectoryInit ==
    /\ sessions = [c \in {} |-> c]
    /\ contact = [u \in Users |-> {}]
    /\ roster = [r \in Rooms |-> {}]
    /\ relogged = {}

(* A login, also a second one on the same connection: the new session is in *)
(* no room, and the room of the one before keeps its member.                *)
Enroll(c, u) ==
    /\ Cardinality(Present) < Capacity
    /\ sessions' = [d \in Present \cup {c} |->
                      IF d = c THEN [user |-> u, room |-> NoRoom] ELSE sessions[d]]
    /\ contact' = [contact EXCEPT ![u] = {c}]
    /\ relogged' = IF c \in Present THEN relogged \cup {c} ELSE relogged
    /\ UNCHANGED roster

(* The roster when c has left its room, which is no room if it is "". *)
RosterWithout(c) ==
    [r \in Rooms |-> IF r = sessions[c].room /\ r # NoRoom THEN roster[r] \ {c}
                     ELSE roster[r]]

(* A logout, a closed connection, or a dead one that is cleaned up: the     *)
(* entry of its user goes, whichever connection it leads to.                *)
Dismiss(c) ==
    /\ c \in Present
    /\ sessions' = Restrict(sessions, Present \ {c})
    /\ contact' = [contact EXCEPT ![sessions[c].user] = {}]
    /\ roster' = RosterWithout(c)
    /\ UNCHANGED relogged

(* Entering a room leaves the one before; "" is entered like any other. *)
Move(c, r) ==
    /\ c \in Present
    /\ sessions' = [sessions EXCEPT ![c].room = r]
    /\ roster' = [RosterWithout(c) EXCEPT ![r] = @ \cup {c}]
    /\ UNCHANGED <<contact, relogged>>

(* Leaving the room one is in. *)
Quit(c) ==
    /\ c \in Present /\ sessions[c].room # NoRoom
    /\ sessions' = [sessions EXCEPT ![c].room = NoRoom]
    /\ roster' = RosterWithout(c)
    /\ UNCHANGED <<contact, relogged>>

DirectoryNext ==
    \E c \in Conns :
        \/ \E u \in Users : Enroll(c, u)
        \/ Dismiss(c)
        \/ \E r \in Rooms : Move(c, r)
        \/ Quit(c)

DirectorySpec == DirectoryInit /\ [][DirectoryNext]_directory

-----------------------------------------------------------------------------
(* Property *)

(* Who is in a room is found there, and who is found in a room, or under a  *)
(* user id, belongs there, leftovers of second logins aside.  Hence a       *)
(* message to a room with a name reaches the right connections.             *)
LookupsAgree ==
    /\ \A r \in Rooms \ {NoRoom} :
          /\ Members(r) \subseteq roster[r]
          /\ roster[r] \ relogged \subseteq Members(r)
    /\ \A u \in Users : contact[u] \ relogged \subseteq SessionsOf(u)

=============================================================================
