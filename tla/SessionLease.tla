------------------------------ MODULE SessionLease -----------------------------
(***************************************************************************)
(* The lifetime of a connection's resources, as do_decoder and remove_hdl   *)
(* of the websocket servers need it.  A connection serves from on_open to   *)
(* its end; while it serves, jobs take leases on its entry; once it drains  *)
(* no new lease is given, and the entry is freed when the last lease is     *)
(* returned.  How the code counts the leases is no part of this module.     *)
(***************************************************************************)
EXTENDS Naturals

CONSTANT Conns

VARIABLES
    phase,   \* the stage of each connection's entry
    leases   \* the jobs that refer to it

vars == <<phase, leases>>

Moves(c, from, to) == phase[c] = from /\ phase' = [phase EXCEPT ![c] = to]

Init ==
    /\ phase = [c \in Conns |-> "absent"]
    /\ leases = [c \in Conns |-> 0]

\* on_open puts an entry in, or fails.
Open(c)   == Moves(c, "absent", "serving") /\ UNCHANGED leases
Refuse(c) == Moves(c, "absent", "over") /\ UNCHANGED leases

\* A job is accepted only while the connection serves.
Take(c) ==
    /\ phase[c] = "serving"
    /\ leases' = [leases EXCEPT ![c] = @ + 1]
    /\ UNCHANGED phase

Return(c) ==
    /\ leases[c] > 0
    /\ leases' = [leases EXCEPT ![c] = @ - 1]
    /\ UNCHANGED phase

\* is_eof is set.
Drain(c) == Moves(c, "serving", "draining") /\ UNCHANGED leases

\* The entry goes, with everything it owns.
Free(c) == leases[c] = 0 /\ Moves(c, "draining", "over") /\ UNCHANGED leases

Next ==
    \E c \in Conns :
        Open(c) \/ Refuse(c) \/ Take(c) \/ Return(c) \/ Drain(c) \/ Free(c)

Spec == Init /\ [][Next]_vars
=============================================================================
