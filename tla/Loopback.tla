------------------------------ MODULE Loopback ------------------------------
(***************************************************************************)
(* The loopback network interface (kernel/net/lo/lo.cpp) on the worker     *)
(* thread: Send queues a packet and schedules one Recv job for all of      *)
(* them; the job takes the whole queue, handles it, and schedules itself   *)
(* again if more arrived meanwhile.  The loopback path of the IP layer     *)
(* (SendLoopback and ReceiveLoopback in kernel/net/ip.cpp) is the same     *)
(* code on variables of its own.                                           *)
(*                                                                         *)
(* Packets are numbered in the order they are sent.  A critical section of *)
(* socket_lock, with the TrySchedule inside it, is one step.               *)
(***************************************************************************)
EXTENDS Worker

CONSTANTS RecvJob,   \* the job Loopback__Recv(this)
          MaxSent    \* bound: how many packets are sent

ASSUME LoopbackAssumption == RecvJob \in Jobs /\ MaxSent \in Nat

VARIABLES packets,           \* first_packet to last_packet
          worker_scheduled,
          batch,             \* Recv's local chain of packets, next_packet on
          taken,             \* whether Recv has taken its batch
          sent,              \* number of packets sent
          handled            \* number of packets given to Ether::Handle

packetVars == <<packets, worker_scheduled, batch, taken, sent, handled>>

OtherJobs == Jobs \ {RecvJob}

LoopbackInit ==
  /\ Init
  /\ packets = <<>>
  /\ worker_scheduled = FALSE
  /\ batch = <<>>
  /\ taken = FALSE
  /\ sent = 0
  /\ handled = 0

\* Loopback::Send by thread t, which goes on at next.
Send(t, next) ==
  /\ sent < MaxSent
  /\ sent' = sent + 1
  /\ packets' = Append(packets, sent + 1)
  /\ \/ /\ ~worker_scheduled
        /\ TrySchedule(t, RecvJob, next)
        /\ worker_scheduled' = TRUE
     \/ /\ worker_scheduled \/ Full
        /\ UNCHANGED <<worker_scheduled, vars>>

Receiving == pc[WorkerThread] = "perform" /\ job[WorkerThread] = RecvJob

\* Mutant: first_packet is not reset.
RecvTake_KeepsQueue ==
  /\ Receiving /\ ~taken
  /\ batch' = packets
  /\ taken' = TRUE
  /\ UNCHANGED <<packets, worker_scheduled, sent, handled, vars>>

\* Recv takes the queue.
RecvTake ==
  /\ Receiving /\ ~taken
  /\ batch' = packets
  /\ packets' = <<>>
  /\ taken' = TRUE
  /\ UNCHANGED <<worker_scheduled, sent, handled, vars>>

\* Recv handles a packet; handling it may send one through the interface
\* again (an answer to a ping, an acknowledgement).
RecvHandle ==
  /\ Receiving /\ taken /\ batch # <<>>
  /\ handled' = handled + 1
  /\ batch' = Tail(batch)
  /\ \/ Send(WorkerThread, "perform")
     \/ UNCHANGED <<packets, worker_scheduled, sent, vars>>
  /\ UNCHANGED taken

\* Mutant: the queue is not looked at again.
RecvEnd_NoRecheck ==
  /\ Receiving /\ taken /\ batch = <<>>
  /\ taken' = FALSE
  /\ WorkerPerform
  /\ worker_scheduled' = FALSE
  /\ UNCHANGED <<packets, batch, sent, handled>>

\* The end of Recv: schedule another job if packets came meanwhile.
RecvEnd ==
  /\ Receiving /\ taken /\ batch = <<>>
  /\ taken' = FALSE
  /\ \/ /\ packets # <<>>
        /\ TrySchedule(WorkerThread, RecvJob, "get")
        /\ UNCHANGED worker_scheduled
     \/ /\ packets = <<>> \/ Full
        /\ WorkerPerform
        /\ worker_scheduled' = FALSE
  /\ UNCHANGED <<packets, batch, sent, handled>>

Recv == RecvTake \/ RecvHandle \/ RecvEnd

\* The worker's other steps, and the other users of the worker thread.
WorkerOnly ==
  /\ \/ WorkerGet
     \/ WorkerWait
     \/ ~Receiving /\ (WorkerPerform \/ WorkerReschedule)
  /\ UNCHANGED packetVars

OtherUsers ==
  /\ \/ \E t \in Waiters : ScheduleResume(t)
     \/ \E t \in Schedulers, j \in OtherJobs : Schedule(t, j)
     \/ \E t \in TrySchedulers, j \in OtherJobs : TrySchedule(t, j, "idle")
  /\ UNCHANGED packetVars

LoopbackNext ==
  \/ Recv
  \/ WorkerOnly
  \/ OtherUsers
  \/ \E t \in TrySchedulers : Send(t, "idle") /\ UNCHANGED <<batch, taken, handled>>

allVars == <<vars, packetVars>>

LoopbackSpec == LoopbackInit /\ [][LoopbackNext]_allVars

\* The scheduler runs the worker and every signalled thread again and again,
\* and a job's function returns.
LoopbackFairSpec ==
  /\ LoopbackSpec
  /\ WF_allVars(WorkerOnly)
  /\ WF_allVars(Recv)
  /\ \A t \in Waiters : WF_allVars(ScheduleResume(t) /\ UNCHANGED packetVars)

-----------------------------------------------------------------------------
(* Properties.                                                             *)

LoopbackTypeOK ==
  /\ TypeOK
  /\ packets \in Seq(1..MaxSent)
  /\ worker_scheduled \in BOOLEAN
  /\ batch \in Seq(1..MaxSent)
  /\ taken \in BOOLEAN
  /\ sent \in 0..MaxSent
  /\ handled \in 0..MaxSent

\* worker_scheduled tells whether the interface has a Recv job, in the ring
\* or running, and it never has two, so that no two batches are handled at
\* the same time.
RecvScheduledOnce ==
  LET waiting == {i \in 1..jobsused : Pending[i] = RecvJob}
  IN IF worker_scheduled
     THEN \/ Receiving /\ waiting = {}
          \/ ~Receiving /\ \E i \in waiting : waiting = {i}
     ELSE ~Receiving /\ waiting = {}

\* No packet is lost, handled twice or overtaken: the batch and the queue
\* hold exactly the packets not handled yet, in the order they were sent,
\* also those that the handling of earlier ones sends.  The ring, the Recv job
\* and the sleeping worker are as they must be for that.
InOrderOnce ==
  /\ batch \o packets = [i \in 1..sent - handled |-> handled + i]
  /\ LoopbackTypeOK /\ WorkerAwake /\ RecvScheduledOnce

\* Once a Recv job is scheduled every packet queued is handled, also one
\* that arrives when Recv has taken its batch and not yet finished, unless
\* the ring of jobs fills up: then the packet stays until another is sent.
EveryPacketHandled ==
  \A n \in 1..MaxSent :
    worker_scheduled /\ sent >= n ~> handled >= n \/ Full

=============================================================================
