----------------------------- MODULE MCKThread -----------------------------
(* Small instances of KThread for TLC. *)
EXTENDS KThread, TLC

CONSTANTS t1, t2, t3

Symmetry == Permutations(Threads)

\* Local variables whose frame is gone do not distinguish states.
LiveLocals ==
  [t \in Threads |->
    <<IF HasElem(t) THEN woken[t] ELSE 0,
      IF Locking(t) THEN desired[t] ELSE LOCKED,
      IF pc[t] = "wake_elem" THEN elem[t] ELSE t,
      IF pc[t] \in {"test_value", "yield"} THEN timer_woken[t] ELSE FALSE>>]

View == <<mutex, cond, kutex_address, kutex_woken, state, signal_pending, pc,
          call, LiveLocals>>

=============================================================================
