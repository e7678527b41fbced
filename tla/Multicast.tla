----------------------------- MODULE Multicast ------------------------------
(***************************************************************************)
(* What the broadcaster promises of one message: it is accepted or dropped *)
(* when it is posted; an accepted one goes at most once to each            *)
(* connection, until it is finished; a dropped or finished one goes        *)
(* nowhere any more.  Nothing is said of the order of two messages, and a  *)
(* message may be finished without having reached anyone.                  *)
(***************************************************************************)
EXTENDS Sequences, Functions

CONSTANTS
    Posts,   \* messages handed to Broadcast
    Conns    \* connections

VARIABLES
    status,    \* each message: "new", "pending", "dropped" or "finished"
    received   \* each message: the connections it was written to, in order

MulticastInit ==
    /\ status = [p \in Posts |-> "new"]
    /\ received = [p \in Posts |-> <<>>]

Accept(p) ==
    /\ status[p] = "new"
    /\ status' = [status EXCEPT ![p] = "pending"]
    /\ UNCHANGED received

Drop(p) ==
    /\ status[p] = "new"
    /\ status' = [status EXCEPT ![p] = "dropped"]
    /\ UNCHANGED received

Deliver(p, c) ==
    /\ status[p] = "pending"
    /\ c \notin Range(received[p])
    /\ received' = [received EXCEPT ![p] = Append(@, c)]
    /\ UNCHANGED status

Finish(p) ==
    /\ status[p] = "pending"
    /\ status' = [status EXCEPT ![p] = "finished"]
    /\ UNCHANGED received

MulticastNext ==
    \E p \in Posts :
        \/ Accept(p)
        \/ Drop(p)
        \/ \E c \in Conns : Deliver(p, c)
        \/ Finish(p)

MulticastSpec == MulticastInit /\ [][MulticastNext]_<<status, received>>

=============================================================================
