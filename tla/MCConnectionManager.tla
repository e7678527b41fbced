------------------------ MODULE MCConnectionManager ------------------------
(* Small instances of ConnectionManager for TLC. *)
EXTENDS ConnectionManager, TLC

(* Connections, users and named rooms are only ever compared for equality. *)
Symmetry ==
    Permutations(Conns) \cup Permutations(Users) \cup Permutations(Rooms \ {NoRoom})

=============================================================================
