------------------------------ MODULE JobQueue ------------------------------
(***************************************************************************)
(* What the worker thread's ring of jobs (kernel/worker.cpp) promises: a   *)
(* bounded queue, first in, first out.                                     *)
(***************************************************************************)
EXTENDS Naturals, Sequences

CONSTANTS Jobs, JobsLen

VARIABLE queue

Init == queue = <<>>

Put(job) == Len(queue) < JobsLen /\ queue' = Append(queue, job)

Get == queue # <<>> /\ queue' = Tail(queue)

Next == Get \/ \E job \in Jobs : Put(job)

Spec == Init /\ [][Next]_queue

=============================================================================
