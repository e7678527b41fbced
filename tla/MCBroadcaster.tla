--------------------------- MODULE MCBroadcaster ----------------------------
(* Small instances of Broadcaster for TLC. *)
EXTENDS Broadcaster, TLC

CONSTANTS c1, c2, u1, u2, r1, chat, push, all

ToRoom(excluded) == [kind |-> "room", to |-> r1, exclude |-> excluded]
ToUser(u)        == [kind |-> "user", to |-> u, exclude |-> NoUser]
ToAll(excluded)  == [kind |-> "all", to |-> NoRoom, exclude |-> excluded]

(* Connections are only ever compared for equality. *)
Interchangeable == Permutations(Conns)

(* A join push that excludes the joiner. *)
Push == push :> ToRoom(u1)

(* The same push, and a private message. *)
PushAndChat == Push @@ (chat :> ToUser(u1))

(* A world message and a private one. *)
WorldAndPrivate == (all :> ToAll(u1)) @@ (chat :> ToUser(u1))

=============================================================================
