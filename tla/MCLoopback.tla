----------------------------- MODULE MCLoopback -----------------------------
(* Small instances of Loopback for TLC. *)
EXTENDS Loopback, TLC

CONSTANTS s1, y1, w, j1, recv

=============================================================================
