----------------------------- MODULE MCPassing -----------------------------
(* Small instances of Passing for TLC. *)
EXTENDS Passing, TLC

CONSTANTS t1, t2, k1, k2, k3

Symmetry == Permutations({t1, t2})

\* A thread's arguments matter only during its call.
View == <<counts, buffer, pipe_lock, open, destroyed, pc,
          [t \in Threads |-> IF pc[t] = "idle" THEN <<>> ELSE <<on[t], what[t], channel[t]>>],
          assertion>>

=============================================================================
