------------------------------- MODULE MCPipe -------------------------------
(* Small instances of Pipe for TLC. *)
EXTENDS Pipe, TLC

CONSTANTS r1, r2, w1, w2

Symmetry == Permutations({r1, r2}) \cup Permutations({w1, w2})

\* The free cells of the ring do not distinguish states.
View == <<[i \in 1..buffer_used |-> ReadBuffer(i - 1)], buffer_offset,
          buffer_size, last_header_position, sent, ends, pledges, conds, threads>>

=============================================================================
