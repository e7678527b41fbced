----------------------------- MODULE MCGateway ------------------------------
(* Small instances of Gateway for TLC. *)
EXTENDS Gateway, TLC

CONSTANTS c1, c2, u1, r1, r2

Ask(type, user, room) == [type |-> type, user |-> user, room |-> room, to |-> u1]

(* One user id for all, as handleLogin gives out; a client may leave it out *)
(* of its headers.                                                          *)
WellFormed ==
    {Ask(t, u1, r1) : t \in Types \ {"malformed"}}
        \cup {Ask("join", NoUser, r1), Ask("join", u1, r2), Ask("join", u1, NoRoom)}

Everything == WellFormed \cup {Ask("malformed", u1, r1)}

Interchangeable == Permutations(Conns)

=============================================================================
