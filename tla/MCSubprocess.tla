--------------------------- MODULE MCSubprocess ---------------------------
(* Values of the constants of Subprocess for TLC. *)
EXTENDS SubprocessInv

\* With Capacity = 1, arguments and values that fit into the socket buffer and
\* ones that do not.
MCJobs == {[args |-> 1, out |-> 2, unit |-> FALSE], [args |-> 3, out |-> 2, unit |-> TRUE]}
=============================================================================
