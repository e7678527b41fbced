----------------------- MODULE SessionDirectoryProofs -----------------------
(***************************************************************************)
(* The directory of sessions keeps its type, and its lookups agree with    *)
(* the sessions, whatever logs in, again or not, moves and leaves.         *)
(***************************************************************************)
EXTENDS SessionDirectory, TLAPS

LEMMA DirectoryTypeInit == DirectoryInit => DirectoryOK
BY DEF DirectoryInit, DirectoryOK, Present

(* A roster without one connection is still a roster. *)
LEMMA RosterWithoutType ==
    ASSUME DirectoryOK, NEW c \in Present
    PROVE  /\ RosterWithout(c) \in [Rooms -> SUBSET Conns]
           /\ c \in Conns /\ sessions[c].user \in Users /\ sessions[c].room \in Rooms
BY DEF DirectoryOK, RosterWithout

(* Every step of the directory keeps its type. *)
LEMMA DirectoryTypeStep == DirectoryOK /\ [DirectoryNext]_directory => DirectoryOK'
<1> SUFFICES ASSUME DirectoryOK, [DirectoryNext]_directory
             PROVE  DirectoryOK'
  OBVIOUS
<1> USE DEF DirectoryOK, Present
<1>1. ASSUME NEW c \in Conns, NEW u \in Users, Enroll(c, u) PROVE DirectoryOK'
  BY <1>1, NoRoomAssumption DEF Enroll
<1>2. ASSUME NEW c \in Conns, Dismiss(c) PROVE DirectoryOK'
  BY <1>2, RosterWithoutType DEF Dismiss, Restrict
<1>3. ASSUME NEW c \in Conns, NEW r \in Rooms, Move(c, r) PROVE DirectoryOK'
  BY <1>3, RosterWithoutType DEF Move
<1>4. ASSUME NEW c \in Conns, Quit(c) PROVE DirectoryOK'
  BY <1>4, RosterWithoutType, NoRoomAssumption DEF Quit
<1>5. CASE UNCHANGED directory
  BY <1>5 DEF directory
<1>6. QED
  BY <1>1, <1>2, <1>3, <1>4, <1>5 DEF DirectoryNext

(* A lookup finds connections. *)
LEMMA FoundAreConns ==
    ASSUME DirectoryOK, NEW kind \in {"user", "room", "all"}, NEW to,
           kind = "user" => to \in Users, kind = "room" => to \in Rooms
    PROVE  Found(kind, to) \subseteq Conns
BY DEF Found, DirectoryOK

(* Type correctness of the directory on its own. *)
THEOREM DirectoryTypeCorrect == DirectorySpec => []DirectoryOK
BY DirectoryTypeInit, DirectoryTypeStep, PTL DEF DirectorySpec

-----------------------------------------------------------------------------
(* The lookups and the sessions *)

LEMMA LookupsInit == DirectoryInit => LookupsAgree
BY DEF DirectoryInit, LookupsAgree, Members, SessionsOf, Present

LEMMA LookupsStep ==
    DirectoryOK /\ LookupsAgree /\ [DirectoryNext]_directory => LookupsAgree'
<1> SUFFICES ASSUME DirectoryOK, LookupsAgree, [DirectoryNext]_directory
             PROVE  LookupsAgree'
  OBVIOUS
<1> USE DEF DirectoryOK, LookupsAgree, Members, SessionsOf, Present
<1>1. ASSUME NEW c \in Conns, NEW u \in Users, Enroll(c, u) PROVE LookupsAgree'
  BY <1>1 DEF Enroll
<1>2. ASSUME NEW c \in Conns, Dismiss(c) PROVE LookupsAgree'
  BY <1>2 DEF Dismiss, Restrict, RosterWithout
<1>3. ASSUME NEW c \in Conns, NEW r \in Rooms, Move(c, r) PROVE LookupsAgree'
  BY <1>3 DEF Move, RosterWithout
<1>4. ASSUME NEW c \in Conns, Quit(c) PROVE LookupsAgree'
  BY <1>4 DEF Quit, RosterWithout
<1>5. CASE UNCHANGED directory
  BY <1>5 DEF directory
<1>6. QED
  BY <1>1, <1>2, <1>3, <1>4, <1>5 DEF DirectoryNext

(* Rooms with a name and user ids are looked up rightly, leftovers of       *)
(* second logins aside (AddConnection, connection.go:84).                   *)
THEOREM LookupsAreRight == DirectorySpec => []LookupsAgree
BY DirectoryTypeInit, DirectoryTypeStep, LookupsInit, LookupsStep, PTL DEF DirectorySpec

=============================================================================
