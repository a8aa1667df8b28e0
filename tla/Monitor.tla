------------------------------ MODULE Monitor ------------------------------
(***************************************************************************)
(* What a kthread mutex with a condition variable promises its callers: at *)
(* most one thread inside; waiting gives the monitor up and joins a FIFO   *)
(* queue in one step; a notification takes the first waiter out of the     *)
(* queue for good; a waiter that is interrupted stays in the queue until   *)
(* it is back inside.  KThread implements this specification.              *)
(***************************************************************************)
EXTENDS Sequences, Naturals

CONSTANTS Threads

VARIABLES inside,  \* the set of threads inside the monitor
          queue,   \* the waiters not notified yet
          status   \* where each thread is

vars == <<inside, queue, status>>

Statuses == {"out", "entering", "in", "waiting", "reentering"}

Move(t, s) == status' = [status EXCEPT ![t] = s]

Queued(t) == \E i \in 1..Len(queue) : queue[i] = t

\* The queue after t has left it; nobody is in it twice.
Without(t) ==
  IF Queued(t)
  THEN LET i == CHOOSE i \in 1..Len(queue) : queue[i] = t
       IN SubSeq(queue, 1, i - 1) \o SubSeq(queue, i + 1, Len(queue))
  ELSE queue

Init ==
  /\ inside = {}
  /\ queue = <<>>
  /\ status = [t \in Threads |-> "out"]

Enter(t) == status[t] = "out" /\ Move(t, "entering") /\ UNCHANGED <<inside, queue>>

\* An interruptible lock gives up.
GiveUp(t) == status[t] = "entering" /\ Move(t, "out") /\ UNCHANGED <<inside, queue>>

Acquire(t) ==
  /\ inside = {}
  /\ status[t] \in {"out", "entering", "reentering"}
  /\ inside' = {t}
  /\ queue' = Without(t)
  /\ Move(t, "in")

Leave(t) ==
  /\ t \in inside
  /\ inside' = inside \ {t}
  /\ Move(t, "out")
  /\ UNCHANGED queue

Wait(t) ==
  /\ t \in inside
  /\ inside' = inside \ {t}
  /\ queue' = Append(queue, t)
  /\ Move(t, "waiting")

\* The first waiter, interrupted meanwhile or not, is let go.
Notify(t) ==
  /\ t \in inside
  /\ queue # <<>>
  /\ queue' = Tail(queue)
  /\ Move(Head(queue), "reentering")
  /\ UNCHANGED inside

Interrupt(t) ==
  /\ status[t] = "waiting"
  /\ Move(t, "reentering")
  /\ UNCHANGED <<inside, queue>>

Next ==
  \E t \in Threads :
    \/ Enter(t) \/ GiveUp(t) \/ Acquire(t) \/ Leave(t)
    \/ Wait(t) \/ Notify(t) \/ Interrupt(t)

Spec == Init /\ [][Next]_vars

=============================================================================
