--------------------------- MODULE LoopbackProofs ---------------------------
(***************************************************************************)
(* Proofs about the worker thread's ring of jobs and about the loopback    *)
(* interface on it, for every set of threads and jobs, every size of the   *)
(* ring and every number of packets.                                       *)
(***************************************************************************)
EXTENDS Loopback, Integers, TLAPS

-----------------------------------------------------------------------------
(* Facts about sequences and about indices that wrap around.               *)

\* A sequence is determined by its length and its entries.
LEMMA SameEntries ==
  ASSUME NEW S, NEW a \in Seq(S), NEW b \in Seq(S), Len(a) = Len(b),
         \A i \in 1..Len(a) : a[i] = b[i]
  PROVE  a = b
OBVIOUS

\* A function on 1..n is a sequence of length n.
LEMMA FunctionIsSequence ==
  ASSUME NEW S, NEW n \in Nat, NEW f \in [1..n -> S]
  PROVE  f \in Seq(S) /\ Len(f) = n
OBVIOUS

\* What Append and Tail do to the length and the entries.
LEMMA AppendEntries ==
  ASSUME NEW S, NEW s \in Seq(S), NEW e \in S
  PROVE  /\ Append(s, e) \in Seq(S)
         /\ Len(Append(s, e)) = Len(s) + 1
         /\ \A i \in 1..Len(s) : Append(s, e)[i] = s[i]
         /\ Append(s, e)[Len(s) + 1] = e
OBVIOUS

LEMMA TailEntries ==
  ASSUME NEW S, NEW s \in Seq(S), s # <<>>
  PROVE  /\ Head(s) = s[1]
         /\ Len(s) \in Nat \ {0}
         /\ Tail(s) \in Seq(S)
         /\ Len(Tail(s)) = Len(s) - 1
         /\ \A i \in 1..Len(s) - 1 : Tail(s)[i] = s[i + 1]
OBVIOUS

-----------------------------------------------------------------------------
(* The ring of jobs as a queue.                                            *)

\* The pending jobs are a sequence as long as the ring has entries in use.
LEMMA PendingType ==
  ASSUME TypeOK
  PROVE  /\ Pending \in Seq(Jobs)
         /\ Len(Pending) = jobsused
         /\ \A i \in 1..jobsused : Pending[i] = jobs[(jobsoff + i - 1) % JobsLen]
<1>1. \A i \in 1..jobsused : (jobsoff + i - 1) % JobsLen \in 0..JobsLen - 1
  BY WorkerAssumption DEF TypeOK
<1>2. Pending \in [1..jobsused -> Jobs]
  BY Zenon, <1>1 DEF Pending, TypeOK
<1>3. jobsused \in Nat
  BY WorkerAssumption DEF TypeOK
<1>4. Pending \in Seq(Jobs) /\ Len(Pending) = jobsused
  BY <1>2, <1>3
<1> QED
  BY Zenon, <1>4 DEF Pending

\* The end of _Schedule appends the job to the pending ones: it never writes
\* to an entry in use.
LEMMA PutAppends ==
  ASSUME TypeOK, ~Full, NEW t, NEW j \in Jobs, NEW next, Put(t, j, next)
  PROVE  /\ jobs' \in [0..JobsLen - 1 -> Jobs]
         /\ jobsoff' \in 0..JobsLen - 1
         /\ jobsused' \in 1..JobsLen
         /\ Pending' = Append(Pending, j)
<1> DEFINE k == (jobsoff + jobsused) % JobsLen
           q == Append(Pending, j)
<1>1. /\ jobs \in [0..JobsLen - 1 -> Jobs]
      /\ jobsoff \in 0..JobsLen - 1
      /\ jobsused \in 0..JobsLen - 1
      /\ JobsLen \in Nat \ {0}
  BY WorkerAssumption DEF TypeOK, Full
<1>2. k = IF jobsoff + jobsused < JobsLen THEN jobsoff + jobsused
                                          ELSE jobsoff + jobsused - JobsLen
  BY <1>1
<1>3. /\ jobs' = [jobs EXCEPT ![k] = j]
      /\ jobsoff' = jobsoff
      /\ jobsused' = jobsused + 1
  BY Zenon DEF Put
<1>4. k \in 0..JobsLen - 1
  BY <1>1, <1>2
<1> HIDE DEF k
<1>5. jobs' \in [0..JobsLen - 1 -> Jobs] /\ jobsused' \in 1..JobsLen
  BY <1>1, <1>3, <1>4
<1>6. /\ q \in Seq(Jobs)
      /\ Len(q) = jobsused + 1
      /\ \A i \in 1..jobsused : q[i] = Pending[i]
      /\ q[jobsused + 1] = j
  BY PendingType, AppendEntries
<1>7. Pending' = [i \in 1..jobsused + 1 |->
                    jobs'[(jobsoff + i - 1) % JobsLen]]
  BY <1>3 DEF Pending
<1>8. ASSUME NEW i \in 1..jobsused
      PROVE  jobs'[(jobsoff + i - 1) % JobsLen] = q[i]
  <2>1. (jobsoff + i - 1) % JobsLen =
          IF jobsoff + i - 1 < JobsLen THEN jobsoff + i - 1
                                       ELSE jobsoff + i - 1 - JobsLen
    BY <1>1
  <2>2. /\ (jobsoff + i - 1) % JobsLen \in 0..JobsLen - 1
        /\ (jobsoff + i - 1) % JobsLen # k
    BY <1>1, <1>2, <2>1
  <2> QED
    BY Zenon, <1>1, <1>3, <1>6, <2>2, PendingType
<1>9. jobs'[(jobsoff + (jobsused + 1) - 1) % JobsLen] = j
  <2>1. (jobsoff + (jobsused + 1) - 1) % JobsLen = k
    BY <1>1 DEF k
  <2> QED
    BY Zenon, <1>1, <1>3, <1>4, <2>1
<1>10. /\ Pending' \in Seq(Jobs)
       /\ Len(Pending') = jobsused + 1
       /\ \A i \in 1..jobsused + 1 : Pending'[i] = q[i]
  <2>1. \A i \in 1..jobsused + 1 :
          jobs'[(jobsoff + i - 1) % JobsLen] \in Jobs
    BY <1>1, <1>5
  <2>2. Pending' \in [1..jobsused + 1 -> Jobs]
    BY Zenon, <1>7, <2>1
  <2>3. ASSUME NEW i \in 1..jobsused + 1 PROVE Pending'[i] = q[i]
    <3>1. CASE i = jobsused + 1
      BY Zenon, <1>6, <1>7, <1>9, <3>1
    <3>2. CASE i # jobsused + 1
      <4>1. i \in 1..jobsused
        BY <1>1, <3>2
      <4> QED
        BY Zenon, <1>7, <1>8, <4>1
    <3> QED
      BY Zenon, <3>1, <3>2
  <2> QED
    BY SMTT(30), <1>1, <2>2, <2>3
<1> QED
  BY Zenon, <1>1, <1>3, <1>5, <1>6, <1>10, SameEntries

\* The worker takes the oldest pending job.
LEMMA GetRemoves ==
  ASSUME TypeOK, WorkerGet
  PROVE  /\ jobsoff' \in 0..JobsLen - 1
         /\ jobsused' \in 0..JobsLen - 1
         /\ jobs' = jobs
         /\ Pending # <<>>
         /\ job' = [job EXCEPT ![WorkerThread] = Pending[1]]
         /\ Pending' = Tail(Pending)
<1>1. /\ jobs \in [0..JobsLen - 1 -> Jobs]
      /\ jobsoff \in 0..JobsLen - 1
      /\ jobsused \in 1..JobsLen
      /\ JobsLen \in Nat \ {0}
      /\ jobs' = jobs
      /\ jobsused' = jobsused - 1
      /\ jobsoff' = (jobsoff + 1) % JobsLen
  BY WorkerAssumption DEF TypeOK, WorkerGet
<1>2. jobsoff' = IF jobsoff + 1 < JobsLen THEN jobsoff + 1 ELSE 0
  BY <1>1
<1>3. jobsoff' \in 0..JobsLen - 1 /\ jobsused' \in 0..JobsLen - 1
  BY <1>1, <1>2
<1>4. Pending # <<>> /\ Pending[1] = jobs[jobsoff]
  <2>1. (jobsoff + 1 - 1) % JobsLen = jobsoff
    BY <1>1
  <2> QED
    BY <1>1, <2>1, PendingType
<1>5. job' = [job EXCEPT ![WorkerThread] = Pending[1]]
  BY Zenon, <1>4 DEF WorkerGet
<1>6. /\ Tail(Pending) \in Seq(Jobs)
      /\ Len(Tail(Pending)) = jobsused - 1
      /\ \A i \in 1..jobsused - 1 : Tail(Pending)[i] = Pending[i + 1]
  BY Zenon, <1>4, PendingType, TailEntries
<1>7. Pending' = [i \in 1..jobsused - 1 |->
                    jobs[(jobsoff' + i - 1) % JobsLen]]
  BY Zenon, <1>1 DEF Pending
<1>8. ASSUME NEW i \in 1..jobsused - 1
      PROVE  /\ (jobsoff' + i - 1) % JobsLen \in 0..JobsLen - 1
             /\ (jobsoff' + i - 1) % JobsLen = (jobsoff + (i + 1) - 1) % JobsLen
  <2>1. (jobsoff' + i - 1) % JobsLen =
          IF jobsoff' + i - 1 < JobsLen THEN jobsoff' + i - 1
                                        ELSE jobsoff' + i - 1 - JobsLen
    BY SMTT(30), <1>1, <1>3
  <2>2. (jobsoff + (i + 1) - 1) % JobsLen =
          IF jobsoff + (i + 1) - 1 < JobsLen THEN jobsoff + (i + 1) - 1
                                             ELSE jobsoff + (i + 1) - 1 - JobsLen
    BY <1>1
  <2> QED
    BY SMTT(30), <1>1, <1>2, <2>1, <2>2
<1>9. /\ Pending' \in Seq(Jobs)
      /\ Len(Pending') = jobsused - 1
      /\ \A i \in 1..jobsused - 1 : Pending'[i] = Tail(Pending)[i]
  <2>1. Pending' \in [1..jobsused - 1 -> Jobs]
    BY Zenon, <1>1, <1>7, <1>8
  <2>2. ASSUME NEW i \in 1..jobsused - 1 PROVE Pending'[i] = Tail(Pending)[i]
    <3>1. Pending[i + 1] = jobs[(jobsoff + (i + 1) - 1) % JobsLen]
      BY <1>1, PendingType
    <3> QED
      BY Zenon, <1>6, <1>7, <1>8, <3>1
  <2>3. Pending' \in Seq(Jobs) /\ Len(Pending') = jobsused - 1
    BY <1>1, <2>1, FunctionIsSequence
  <2> QED
    BY Zenon, <2>2, <2>3
<1> QED
  BY Zenon, <1>1, <1>3, <1>4, <1>5, <1>6, <1>9, SameEntries

-----------------------------------------------------------------------------
(* The worker thread and the threads that wait for room.                   *)

\* The worker waits for room in the ring only at its own call of _Schedule,
\* so that a signal for jobsfree never hits it while it takes a job.
WorkerQueued ==
  \A i \in 1..Len(jobsfree) :
    jobsfree[i] = WorkerThread => pc[WorkerThread] = "wait_free"

\* The inductive invariant of the worker thread.
WorkerInv == TypeOK /\ WorkerAwake /\ WorkerQueued

LEMMA WorkerInit ==
  ASSUME Init
  PROVE  WorkerInv /\ Pending = <<>>
<1>1. TypeOK /\ jobsused = 0
  BY WorkerAssumption DEF Init, TypeOK, Waiters
<1>2. WorkerAwake /\ WorkerQueued
  BY DEF Init, WorkerAwake, WorkerQueued, Waiters
<1>3. Pending = <<>>
  BY <1>1, PendingType
<1> QED
  BY Zenon, <1>1, <1>2, <1>3 DEF WorkerInv

\* Storing a job keeps the invariant, whoever does it and wherever it goes on.
LEMMA PutKeeps ==
  ASSUME WorkerInv, ~Full, NEW t, NEW j \in Jobs, NEW next \in {"idle", "get", "perform"},
         Put(t, j, next), UNCHANGED jobsfree, job' \in [Waiters -> Jobs],
         t = WorkerThread => pc[t] # "wait_free"
  PROVE  WorkerInv'
<1> USE DEF WorkerInv
<1>1. /\ jobs' \in [0..JobsLen - 1 -> Jobs]
      /\ jobsoff' \in 0..JobsLen - 1
      /\ jobsused' \in 1..JobsLen
  BY Zenon, PutAppends
<1>2. pc' \in [Waiters -> {"idle", "wait_free", "woken_free", "get",
                           "wait_ready", "perform"}]
  BY Zenon DEF TypeOK, Put
<1>3. TypeOK'
  BY <1>1, <1>2, WorkerAssumption DEF TypeOK
<1>4. /\ pc'[WorkerThread] # "wait_ready"
      /\ pc[WorkerThread] = "wait_free" => pc'[WorkerThread] = "wait_free"
  BY Zenon DEF Put, WorkerAwake, Waiters, TypeOK
<1>5. WorkerAwake'
  BY Zenon, <1>4 DEF WorkerAwake
<1>6. WorkerQueued'
  BY Zenon, <1>4 DEF WorkerQueued
<1> QED
  BY Zenon, <1>3, <1>5, <1>6

\* Waiting for room keeps it.
LEMMA WaitFreeKeeps ==
  ASSUME WorkerInv, NEW t \in Waiters, WaitFree(t), job' \in [Waiters -> Jobs]
  PROVE  WorkerInv'
<1> USE DEF WorkerInv
<1>1. /\ jobsfree' \in Seq(Waiters)
      /\ Len(jobsfree') = Len(jobsfree) + 1
      /\ \A i \in 1..Len(jobsfree) : jobsfree'[i] = jobsfree[i]
      /\ jobsfree'[Len(jobsfree) + 1] = t
      /\ Len(jobsfree) \in Nat
  BY AppendEntries DEF WaitFree, TypeOK
<1>2. TypeOK'
  BY Zenon, <1>1 DEF TypeOK, WaitFree
<1>3. WorkerAwake'
  BY Zenon DEF WorkerAwake, WaitFree, TypeOK, Waiters
<1>4. ASSUME NEW i \in 1..Len(jobsfree'), jobsfree'[i] = WorkerThread
      PROVE  pc'[WorkerThread] = "wait_free"
  <2>1. CASE i = Len(jobsfree) + 1
    BY Zenon, <1>1, <1>4, <2>1 DEF WaitFree, TypeOK
  <2>2. CASE i # Len(jobsfree) + 1
    <3>1. i \in 1..Len(jobsfree)
      BY <1>1, <2>2
    <3>2. pc[WorkerThread] = "wait_free"
      BY Zenon, <1>1, <1>4, <3>1 DEF WorkerQueued
    <3> QED
      BY Zenon, <3>2 DEF WaitFree, TypeOK, Waiters
  <2> QED
    BY Zenon, <2>1, <2>2
<1> QED
  BY Zenon, <1>2, <1>3, <1>4 DEF WorkerQueued

\* A round of _Schedule's loop.
LEMMA ScheduleLoopKeeps ==
  ASSUME WorkerInv, NEW t \in Waiters, NEW j \in Jobs, ScheduleLoop(t, j),
         job' \in [Waiters -> Jobs], t = WorkerThread => pc[t] # "wait_free"
  PROVE  /\ WorkerInv'
         /\ \/ ~Full /\ Put(t, j, Home(t)) /\ UNCHANGED jobsfree
            \/ Full /\ WaitFree(t) /\ UNCHANGED Pending
<1>1. CASE Full /\ WaitFree(t)
  BY Zenon, <1>1, WaitFreeKeeps DEF WaitFree, Pending
<1>2. CASE ~Full /\ Put(t, j, Home(t)) /\ UNCHANGED jobsfree
  BY Zenon, <1>2, PutKeeps DEF Home
<1> QED
  BY Zenon, <1>1, <1>2 DEF ScheduleLoop

\* The worker takes a job and may wake a thread that waits for room; that is
\* never the worker itself.
LEMMA WorkerGetKeeps ==
  ASSUME WorkerInv, WorkerGet
  PROVE  /\ WorkerInv'
         /\ pc'[WorkerThread] = "perform"
         /\ \A t \in Waiters \ {WorkerThread} :
              \/ pc'[t] = pc[t]
              \/ pc'[t] = "woken_free" /\ \E i \in 1..Len(jobsfree) : jobsfree[i] = t
         /\ \A i \in 1..Len(jobsfree') :
              \E k \in 1..Len(jobsfree) : jobsfree'[i] = jobsfree[k]
<1> USE DEF WorkerInv
<1>1. /\ jobs' \in [0..JobsLen - 1 -> Jobs]
      /\ jobsoff' \in 0..JobsLen - 1
      /\ jobsused' \in 0..JobsLen
  BY GetRemoves, WorkerAssumption DEF TypeOK
<1>2. job' \in [Waiters -> Jobs]
  BY Zenon, WorkerAssumption DEF WorkerGet, TypeOK
<1>3. WorkerThread \in Waiters /\ pc[WorkerThread] = "get"
  BY Zenon DEF WorkerGet, Waiters
<1>4. \A i \in 1..Len(jobsfree) : jobsfree[i] # WorkerThread
  BY Zenon, <1>3 DEF WorkerQueued
<1>5. CASE /\ jobsfree # <<>>
           /\ jobsfree' = Tail(jobsfree)
           /\ pc' = [pc EXCEPT ![WorkerThread] = "perform",
                               ![Head(jobsfree)] = "woken_free"]
  <2>1. /\ Head(jobsfree) = jobsfree[1]
        /\ Len(jobsfree) \in Nat \ {0}
        /\ jobsfree' \in Seq(Waiters)
        /\ Len(jobsfree') = Len(jobsfree) - 1
        /\ \A i \in 1..Len(jobsfree) - 1 : jobsfree'[i] = jobsfree[i + 1]
    BY Zenon, <1>5, TailEntries DEF TypeOK
  <2>2. Head(jobsfree) \in Waiters /\ Head(jobsfree) # WorkerThread
    BY <1>4, <2>1 DEF TypeOK
  <2>3. /\ pc' \in [Waiters -> {"idle", "wait_free", "woken_free", "get",
                                "wait_ready", "perform"}]
        /\ pc'[WorkerThread] = "perform"
        /\ \A t \in Waiters \ {WorkerThread} :
             pc'[t] = pc[t] \/ (pc'[t] = "woken_free" /\ t = Head(jobsfree))
    BY Zenon, <1>3, <1>5, <2>2 DEF TypeOK
  <2>4. TypeOK'
    BY Zenon, <1>1, <1>2, <2>1, <2>3 DEF TypeOK
  <2>5. \A i \in 1..Len(jobsfree') :
          \E k \in 1..Len(jobsfree) : jobsfree'[i] = jobsfree[k]
    BY <2>1
  <2>6. WorkerAwake' /\ WorkerQueued'
    BY Zenon, <1>4, <2>3, <2>5 DEF WorkerAwake, WorkerQueued
  <2> QED
    BY <2>1, <2>3, <2>4, <2>5, <2>6
<1>6. CASE UNCHANGED jobsfree /\ pc' = [pc EXCEPT ![WorkerThread] = "perform"]
  <2>1. TypeOK' /\ pc'[WorkerThread] = "perform"
    BY Zenon, <1>1, <1>2, <1>3, <1>6 DEF TypeOK
  <2>2. WorkerAwake' /\ WorkerQueued'
    BY Zenon, <1>4, <1>6, <2>1 DEF WorkerAwake, WorkerQueued
  <2> QED
    BY Zenon, <1>6, <2>1, <2>2 DEF TypeOK
<1> QED
  BY Zenon, <1>5, <1>6 DEF WorkerGet

\* The worker goes to sleep on the empty ring, or is done with a job.
LEMMA WorkerMovesKeep ==
  ASSUME WorkerInv, WorkerWait \/ WorkerPerform
  PROVE  WorkerInv' /\ UNCHANGED Pending
<1>1. TypeOK'
  BY Zenon DEF WorkerInv, TypeOK, WorkerWait, WorkerPerform
<1>2. WorkerAwake' /\ WorkerQueued'
  BY Zenon
     DEF WorkerInv, WorkerAwake, WorkerQueued, WorkerWait, WorkerPerform,
     TypeOK, Waiters
<1> QED
  BY Zenon, <1>1, <1>2 DEF WorkerInv, Pending, WorkerWait, WorkerPerform

\* Storing and taking a job are what the abstract queue does.
LEMMA PutIsQueuePut ==
  ASSUME TypeOK, ~Full, NEW t, NEW j \in Jobs, NEW next, Put(t, j, next)
  PROVE  Queue!Put(j)
<1>1. Len(Pending) < JobsLen
  BY PendingType, WorkerAssumption DEF TypeOK, Full
<1> QED
  BY Zenon, <1>1, PutAppends DEF Queue!Put

LEMMA GetIsQueueGet ==
  ASSUME TypeOK, WorkerGet
  PROVE  Queue!Get
BY Zenon, GetRemoves DEF Queue!Get

\* A step of the worker thread or of a thread that schedules keeps the
\* invariant and is a step of the abstract queue, or changes no pending job.
LEMMA WorkerNext ==
  ASSUME WorkerInv, Next
  PROVE  WorkerInv' /\ [Queue!Next]_Pending
<1> USE DEF WorkerInv
<1>1. CASE WorkerGet
  BY Zenon, <1>1, WorkerGetKeeps, GetIsQueueGet DEF Queue!Next
<1>2. CASE WorkerWait \/ WorkerPerform
  BY Zenon, <1>2, WorkerMovesKeep
<1>3. ASSUME NEW t \in Waiters, NEW j \in Jobs, ScheduleLoop(t, j),
             job' \in [Waiters -> Jobs], t = WorkerThread => pc[t] # "wait_free"
      PROVE  WorkerInv' /\ [Queue!Next]_Pending
  BY Zenon, <1>3, ScheduleLoopKeeps, PutIsQueuePut DEF Queue!Next
<1>4. CASE WorkerReschedule
  BY Zenon, <1>3, <1>4 DEF WorkerReschedule, TypeOK, Waiters
<1>5. ASSUME NEW t \in Waiters, ScheduleResume(t)
      PROVE  WorkerInv' /\ [Queue!Next]_Pending
  BY Zenon, <1>3, <1>5 DEF ScheduleResume, TypeOK
<1>6. ASSUME NEW t \in Schedulers, NEW j \in Jobs, Schedule(t, j)
      PROVE  WorkerInv' /\ [Queue!Next]_Pending
  <2>1. t \in Waiters /\ t # WorkerThread
    BY Zenon, WorkerAssumption DEF Waiters
  <2>2. job' \in [Waiters -> Jobs] /\ ScheduleLoop(t, j)
    BY Zenon, <1>6, <2>1 DEF Schedule, TypeOK
  <2> QED
    BY Zenon, <1>3, <2>1, <2>2
<1>7. ASSUME NEW t \in TrySchedulers, NEW j \in Jobs, TrySchedule(t, j, "idle")
      PROVE  WorkerInv' /\ [Queue!Next]_Pending
  <2>1. t # WorkerThread
    BY Zenon, WorkerAssumption
  <2>2. /\ ~Full /\ Put(t, j, "idle")
        /\ UNCHANGED jobsfree /\ job' \in [Waiters -> Jobs]
    BY Zenon, <1>7 DEF TrySchedule, TypeOK
  <2> QED
    BY Zenon, <2>1, <2>2, PutKeeps, PutIsQueuePut DEF Queue!Next
<1> QED
  BY Zenon, <1>1, <1>2, <1>4, <1>5, <1>6, <1>7 DEF Next, WorkerStep

\* The worker thread by itself, whoever uses it: the worker never sleeps while
\* the ring holds a job, because the producer that finds the ring empty in
\* _Schedule signals it under jobslock.
THEOREM WorkerCorrect == Spec => [](TypeOK /\ WorkerAwake)
<1>1. Init => WorkerInv
  BY Zenon, WorkerInit
<1>2. WorkerInv /\ [Next]_vars => WorkerInv'
  <2>1. CASE UNCHANGED vars
    BY Zenon, <2>1 DEF vars, WorkerInv, TypeOK, WorkerAwake, WorkerQueued
  <2> QED
    BY Zenon, <2>1, WorkerNext
<1>3. WorkerInv => TypeOK /\ WorkerAwake
  BY Zenon DEF WorkerInv
<1> QED
  BY <1>1, <1>2, <1>3, PTL DEF Spec

\* The ring of kernel/worker.cpp is a bounded first-in first-out queue, for
\* every size of the ring and every number of threads.
THEOREM RingIsQueue == Spec => ImplementsJobQueue
<1>1. Init => WorkerInv /\ Queue!Init
  BY Zenon, WorkerInit DEF Queue!Init
<1>2. WorkerInv /\ [Next]_vars => WorkerInv' /\ [Queue!Next]_Pending
  <2>1. CASE UNCHANGED vars
    BY Zenon, <2>1
       DEF vars, WorkerInv, TypeOK, WorkerAwake, WorkerQueued, Pending
  <2> QED
    BY Zenon, <2>1, WorkerNext
<1> QED
  BY <1>1, <1>2, PTL DEF Spec, ImplementsJobQueue, Queue!Spec

-----------------------------------------------------------------------------
(* The loopback interface.                                                 *)

\* The places of Recv jobs among the pending ones.
RecvWaiting == {i \in 1..jobsused : Pending[i] = RecvJob}

\* Nobody waits for room with a Recv job: Send and Recv use TrySchedule.
OthersWait ==
  /\ \A i \in 1..Len(jobsfree) : job[jobsfree[i]] # RecvJob
  /\ \A t \in Waiters : pc[t] \in {"wait_free", "woken_free"} => job[t] # RecvJob

\* A batch belongs to the Recv job that runs.
BatchRuns == IF taken THEN Receiving ELSE batch = <<>>

\* Batch b and queue p hold the packets after the first h, up to the n-th.
InOrder(b, p, h, n) ==
  /\ n = h + Len(b) + Len(p)
  /\ \A i \in 1..Len(b) : b[i] = h + i
  /\ \A i \in 1..Len(p) : p[i] = h + Len(b) + i

Numbered == InOrder(batch, packets, handled, sent)

\* The inductive invariant of the loopback interface.
LoopbackInv ==
  /\ LoopbackTypeOK
  /\ WorkerInv
  /\ RecvScheduledOnce
  /\ OthersWait
  /\ BatchRuns
  /\ Numbered


\* worker_scheduled in terms of RecvWaiting.
LEMMA RecvOnce ==
  RecvScheduledOnce <=>
    IF worker_scheduled
    THEN \/ Receiving /\ RecvWaiting = {}
         \/ ~Receiving /\ \E i \in RecvWaiting : RecvWaiting = {i}
    ELSE ~Receiving /\ RecvWaiting = {}
BY Zenon DEF RecvScheduledOnce, RecvWaiting

\* Storing a job adds one place exactly if it is a Recv job.
LEMMA PutWaiting ==
  ASSUME TypeOK, ~Full, NEW t, NEW j \in Jobs, NEW next, Put(t, j, next)
  PROVE  RecvWaiting' = IF j = RecvJob THEN RecvWaiting \cup {jobsused + 1}
                                       ELSE RecvWaiting
<1>1. /\ Pending' = Append(Pending, j)
      /\ jobsused' = jobsused + 1
      /\ jobsused \in Nat
  <2>1. Pending' = Append(Pending, j)
    BY Zenon, PutAppends
  <2>2. jobsused' = jobsused + 1 /\ jobsused \in Nat
    BY WorkerAssumption DEF Put, TypeOK
  <2> QED
    BY Zenon, <2>1, <2>2
<1>2. /\ \A i \in 1..jobsused : Pending'[i] = Pending[i]
      /\ Pending'[jobsused + 1] = j
  BY <1>1, PendingType, AppendEntries
<1>3. 1..jobsused' = 1..jobsused \cup {jobsused + 1}
  BY <1>1
<1>4. RecvWaiting' = {i \in 1..jobsused \cup {jobsused + 1} : Pending'[i] = RecvJob}
  BY Zenon, <1>3 DEF RecvWaiting
<1> QED
  BY Zenon, <1>2, <1>4 DEF RecvWaiting

\* Taking a job moves the places down by one.
LEMMA GetWaiting ==
  ASSUME TypeOK, WorkerGet
  PROVE  /\ \A i \in Nat : i \in RecvWaiting' <=> i > 0 /\ i + 1 \in RecvWaiting
         /\ 1 \in RecvWaiting <=> Pending[1] = RecvJob
         /\ RecvWaiting \subseteq Nat \ {0} /\ RecvWaiting' \subseteq Nat \ {0}
<1>1. /\ Pending' = Tail(Pending)
      /\ jobsused' = jobsused - 1
      /\ jobsused \in Nat \ {0}
      /\ Pending # <<>>
  BY GetRemoves, WorkerAssumption DEF WorkerGet, TypeOK
<1>2. \A i \in 1..jobsused - 1 : Pending'[i] = Pending[i + 1]
  BY Zenon, <1>1, PendingType, TailEntries
<1>3. RecvWaiting' = {i \in 1..jobsused - 1 : Pending[i + 1] = RecvJob}
  BY Zenon, <1>1, <1>2 DEF RecvWaiting
<1>4. ASSUME NEW i \in Nat
      PROVE  i \in RecvWaiting' <=> i > 0 /\ i + 1 \in RecvWaiting
  <2>1. i \in 1..jobsused - 1 <=> i > 0 /\ i + 1 \in 1..jobsused
    BY <1>1
  <2> QED
    BY Zenon, <1>3, <2>1 DEF RecvWaiting
<1>5. 1 \in RecvWaiting <=> Pending[1] = RecvJob
  BY <1>1 DEF RecvWaiting
<1>6. RecvWaiting \subseteq Nat \ {0} /\ RecvWaiting' \subseteq Nat \ {0}
  BY <1>1, <1>3 DEF RecvWaiting
<1> QED
  BY Zenon, <1>4, <1>5, <1>6

\* A step that has nothing to do with the interface.
LEMMA QuietKeeps ==
  ASSUME LoopbackInv, UNCHANGED packetVars, WorkerInv', OthersWait',
         RecvWaiting' = RecvWaiting, Receiving' <=> Receiving
  PROVE  LoopbackInv'
<1>1. LoopbackTypeOK'
  BY Zenon DEF LoopbackInv, LoopbackTypeOK, WorkerInv, packetVars
<1>2. RecvScheduledOnce'
  <2>1. worker_scheduled' = worker_scheduled
    BY Zenon DEF packetVars
  <2> QED
    BY Zenon, <2>1 DEF LoopbackInv, RecvScheduledOnce, RecvWaiting
<1>3. BatchRuns' /\ Numbered'
  BY Zenon DEF LoopbackInv, BatchRuns, Numbered, InOrder, packetVars
<1> QED
  BY Zenon, <1>1, <1>2, <1>3 DEF LoopbackInv


\* Another user of the worker thread stores its job.
LEMMA OtherPutKeeps ==
  ASSUME LoopbackInv, UNCHANGED packetVars, ~Full,
         NEW t, NEW j \in OtherJobs, NEW next \in {"idle", "get"},
         Put(t, j, next), UNCHANGED jobsfree, job' \in [Waiters -> Jobs],
         \A u \in Waiters : job'[u] = job[u] \/ (u = t /\ job'[u] # RecvJob),
         t = WorkerThread => pc[t] # "wait_free" /\ ~Receiving
  PROVE  LoopbackInv'
<1> USE DEF LoopbackInv, WorkerInv
<1>1. WorkerInv'
  BY Zenon, PutKeeps DEF OtherJobs
<1>2. RecvWaiting' = RecvWaiting
  BY Zenon, PutWaiting DEF OtherJobs
<1>3. WorkerThread \in Waiters
  BY Zenon DEF Waiters
<1>4. \A u \in Waiters : pc'[u] = pc[u] \/ pc'[u] \in {"idle", "get"}
  BY Zenon DEF Put
<1>5. Receiving' <=> Receiving
  <2>1. CASE t = WorkerThread
    BY Zenon, <1>3, <2>1 DEF Put, Receiving
  <2>2. CASE t # WorkerThread
    BY Zenon, <1>3, <2>2 DEF Put, Receiving
  <2> QED
    BY Zenon, <2>1, <2>2
<1>6. OthersWait'
  <2>1. \A i \in 1..Len(jobsfree') : job'[jobsfree'[i]] # RecvJob
    BY DEF OthersWait, TypeOK
  <2>2. \A u \in Waiters : pc'[u] \in {"wait_free", "woken_free"} => job'[u] # RecvJob
    BY Zenon, <1>4 DEF OthersWait
  <2> QED
    BY Zenon, <2>1, <2>2 DEF OthersWait
<1> QED
  BY Zenon, <1>1, <1>2, <1>5, <1>6, QuietKeeps

\* Another user of the worker thread waits for room.
LEMMA OtherWaitKeeps ==
  ASSUME LoopbackInv, UNCHANGED packetVars, NEW t \in Waiters, WaitFree(t),
         job' \in [Waiters -> Jobs], job'[t] # RecvJob,
         \A u \in Waiters : job'[u] = job[u] \/ u = t,
         t = WorkerThread => ~Receiving
  PROVE  LoopbackInv'
<1> USE DEF LoopbackInv, WorkerInv
<1>1. WorkerInv'
  BY Zenon, WaitFreeKeeps
<1>2. RecvWaiting' = RecvWaiting
  BY Zenon DEF WaitFree, RecvWaiting, Pending
<1>3. WorkerThread \in Waiters
  BY Zenon DEF Waiters
<1>4. \A u \in Waiters : pc'[u] = IF u = t THEN "wait_free" ELSE pc[u]
  BY Zenon DEF WaitFree, TypeOK
<1>5. Receiving' <=> Receiving
  BY Zenon, <1>3, <1>4 DEF Receiving
<1>6. OthersWait'
  <2>1. /\ Len(jobsfree') = Len(jobsfree) + 1
        /\ \A i \in 1..Len(jobsfree) : jobsfree'[i] = jobsfree[i]
        /\ jobsfree'[Len(jobsfree) + 1] = t
        /\ Len(jobsfree) \in Nat
        /\ \A i \in 1..Len(jobsfree) : jobsfree[i] \in Waiters
    BY AppendEntries DEF WaitFree, TypeOK
  <2>2. \A i \in 1..Len(jobsfree') : job'[jobsfree'[i]] # RecvJob
    <3> SUFFICES ASSUME NEW i \in 1..Len(jobsfree')
                 PROVE  job'[jobsfree'[i]] # RecvJob
      BY Zenon
    <3>1. CASE i = Len(jobsfree) + 1
      BY Zenon, <2>1, <3>1
    <3>2. CASE i # Len(jobsfree) + 1
      <4>1. i \in 1..Len(jobsfree)
        BY <2>1, <3>2
      <4> QED
        BY Zenon, <2>1, <4>1 DEF OthersWait
    <3> QED
      BY Zenon, <3>1, <3>2
  <2>3. \A u \in Waiters : pc'[u] \in {"wait_free", "woken_free"} => job'[u] # RecvJob
    BY Zenon, <1>4 DEF OthersWait
  <2> QED
    BY Zenon, <2>2, <2>3 DEF OthersWait
<1> QED
  BY Zenon, <1>1, <1>2, <1>5, <1>6, QuietKeeps

LEMMA OtherLoopKeeps ==
  ASSUME LoopbackInv, UNCHANGED packetVars, NEW t \in Waiters, NEW j \in OtherJobs,
         ScheduleLoop(t, j), job' \in [Waiters -> Jobs], job'[t] = j,
         \A u \in Waiters : job'[u] = job[u] \/ u = t,
         t = WorkerThread => pc[t] # "wait_free" /\ ~Receiving
  PROVE  LoopbackInv'
<1>1. CASE Full /\ WaitFree(t)
  BY Zenon, <1>1, OtherWaitKeeps DEF OtherJobs
<1>2. CASE ~Full /\ Put(t, j, Home(t)) /\ UNCHANGED jobsfree
  <2>1. /\ Home(t) \in {"idle", "get"}
        /\ \A u \in Waiters : job'[u] = job[u] \/ (u = t /\ job'[u] # RecvJob)
    BY Zenon DEF Home, OtherJobs
  <2> QED
    BY Zenon, <1>2, <2>1, OtherPutKeeps
<1> QED
  BY Zenon, <1>1, <1>2 DEF ScheduleLoop

\* The steps of the other users of the worker thread.
LEMMA OtherUsersKeep ==
  ASSUME LoopbackInv, OtherUsers
  PROVE  LoopbackInv'
<1> USE DEF LoopbackInv, WorkerInv
<1>0. UNCHANGED packetVars
  BY Zenon DEF OtherUsers
<1>1. ASSUME NEW t \in Waiters, ScheduleResume(t)
      PROVE  LoopbackInv'
  <2>1. job[t] \in OtherJobs /\ ScheduleLoop(t, job[t]) /\ job' = job
    BY Zenon, <1>1 DEF ScheduleResume, OthersWait, OtherJobs, TypeOK
  <2>2. t = WorkerThread => pc[t] # "wait_free" /\ ~Receiving
    BY Zenon, <1>1 DEF ScheduleResume, Receiving
  <2>3. job' \in [Waiters -> Jobs]
    BY Zenon, <2>1 DEF TypeOK
  <2> QED
    BY Zenon, <1>0, <2>1, <2>2, <2>3, OtherLoopKeeps
<1>2. ASSUME NEW t \in Schedulers, NEW j \in OtherJobs, Schedule(t, j)
      PROVE  LoopbackInv'
  <2>1. t \in Waiters /\ t # WorkerThread
    BY Zenon, WorkerAssumption DEF Waiters
  <2>2. /\ job' \in [Waiters -> Jobs]
        /\ job'[t] = j
        /\ \A u \in Waiters : job'[u] = job[u] \/ u = t
        /\ ScheduleLoop(t, j)
    BY Zenon, <1>2, <2>1 DEF Schedule, TypeOK, OtherJobs
  <2> QED
    BY Zenon, <1>0, <2>1, <2>2, OtherLoopKeeps
<1>3. ASSUME NEW t \in TrySchedulers, NEW j \in OtherJobs, TrySchedule(t, j, "idle")
      PROVE  LoopbackInv'
  <2>1. t # WorkerThread
    BY Zenon, WorkerAssumption
  <2>2. /\ ~Full /\ Put(t, j, "idle") /\ UNCHANGED jobsfree
        /\ job' = job /\ job' \in [Waiters -> Jobs]
    BY Zenon, <1>3 DEF TrySchedule, TypeOK
  <2> QED
    BY Zenon, <1>0, <2>1, <2>2, OtherPutKeeps
<1> QED
  BY Zenon, <1>1, <1>2, <1>3 DEF OtherUsers

\* What sending, handling and taking the queue do to the packets' order.
LEMMA SendInOrder ==
  ASSUME NEW b \in Seq(1..MaxSent), NEW p \in Seq(1..MaxSent), NEW h \in 0..MaxSent,
         NEW n \in 0..MaxSent, InOrder(b, p, h, n), n < MaxSent
  PROVE  Append(p, n + 1) \in Seq(1..MaxSent) /\ InOrder(b, Append(p, n + 1), h, n + 1)
<1> DEFINE q == Append(p, n + 1)
<1>1. n + 1 \in 1..MaxSent /\ MaxSent \in Nat
  BY LoopbackAssumption
<1>2. /\ q \in Seq(1..MaxSent)
      /\ Len(q) = Len(p) + 1
      /\ \A i \in 1..Len(p) : q[i] = p[i]
      /\ q[Len(p) + 1] = n + 1
      /\ Len(p) \in Nat /\ Len(b) \in Nat
  BY <1>1, AppendEntries
<1> HIDE DEF q
<1>3. n + 1 = h + Len(b) + Len(q)
  BY <1>1, <1>2 DEF InOrder
<1>4. ASSUME NEW i \in 1..Len(q) PROVE q[i] = h + Len(b) + i
  <2>1. CASE i = Len(p) + 1
    BY Zenon, <1>2, <1>3, <2>1
  <2>2. CASE i # Len(p) + 1
    <3>1. i \in 1..Len(p)
      BY <1>2, <2>2
    <3> QED
      BY Zenon, <1>2, <3>1 DEF InOrder
  <2> QED
    BY Zenon, <2>1, <2>2
<1>5. InOrder(b, q, h, n + 1)
  BY Zenon, <1>3, <1>4 DEF InOrder
<1> QED
  BY Zenon, <1>2, <1>5 DEF q

LEMMA HandleInOrder ==
  ASSUME NEW b \in Seq(1..MaxSent), NEW p \in Seq(1..MaxSent), NEW h \in 0..MaxSent,
         NEW n \in 0..MaxSent, InOrder(b, p, h, n), b # <<>>
  PROVE  /\ Tail(b) \in Seq(1..MaxSent)
         /\ h + 1 \in 0..MaxSent
         /\ InOrder(Tail(b), p, h + 1, n)
<1> DEFINE c == Tail(b)
<1>1. /\ Len(b) \in Nat \ {0}
      /\ Len(p) \in Nat
      /\ c \in Seq(1..MaxSent)
      /\ Len(c) = Len(b) - 1
      /\ \A i \in 1..Len(b) - 1 : c[i] = b[i + 1]
      /\ MaxSent \in Nat
  BY TailEntries, LoopbackAssumption
<1> HIDE DEF c
<1>2. h + 1 \in 0..MaxSent /\ n = (h + 1) + Len(c) + Len(p)
  BY <1>1 DEF InOrder
<1>3. ASSUME NEW i \in 1..Len(c) PROVE c[i] = (h + 1) + i
  <2>1. i + 1 \in 1..Len(b) /\ c[i] = b[i + 1]
    BY <1>1
  <2> QED
    BY <2>1 DEF InOrder
<1>4. \A i \in 1..Len(p) : p[i] = (h + 1) + Len(c) + i
  BY <1>1 DEF InOrder
<1> QED
  BY Zenon, <1>1, <1>2, <1>3, <1>4 DEF InOrder, c

LEMMA TakeInOrder ==
  ASSUME NEW p \in Seq(1..MaxSent), NEW h \in 0..MaxSent, NEW n,
         InOrder(<<>>, p, h, n)
  PROVE  InOrder(p, <<>>, h, n)
<1>1. Len(p) \in Nat /\ Len(<<>>) = 0 /\ h \in Nat
  BY LoopbackAssumption
<1> QED
  BY <1>1 DEF InOrder

\* The concatenation that InOrderOnce states.
LEMMA InOrderConcat ==
  ASSUME NEW b \in Seq(1..MaxSent), NEW p \in Seq(1..MaxSent), NEW h \in 0..MaxSent,
         NEW n \in 0..MaxSent, InOrder(b, p, h, n)
  PROVE  b \o p = [i \in 1..n - h |-> h + i]
<1> DEFINE r == [i \in 1..n - h |-> h + i]
<1>1. /\ b \o p \in Seq(Nat)
      /\ Len(b \o p) = Len(b) + Len(p)
      /\ \A i \in 1..Len(b) + Len(p) :
           (b \o p)[i] = IF i <= Len(b) THEN b[i] ELSE p[i - Len(b)]
      /\ Len(b) \in Nat /\ Len(p) \in Nat /\ h \in Nat /\ n \in Nat
  BY LoopbackAssumption
<1>2. n - h = Len(b) + Len(p)
  BY <1>1 DEF InOrder
<1>3. r \in Seq(Nat) /\ Len(r) = n - h
  BY <1>1, <1>2, FunctionIsSequence
<1>4. ASSUME NEW i \in 1..n - h PROVE (b \o p)[i] = r[i]
  <2>1. CASE i <= Len(b)
    BY <1>1, <1>2, <2>1 DEF InOrder
  <2>2. CASE ~(i <= Len(b))
    <3>1. i - Len(b) \in 1..Len(p) /\ (b \o p)[i] = p[i - Len(b)]
      BY <1>1, <1>2, <2>2
    <3> QED
      BY <1>1, <3>1 DEF InOrder
  <2> QED
    BY Zenon, <2>1, <2>2
<1> QED
  BY Zenon, <1>1, <1>2, <1>3, <1>4, SameEntries

\* A step that leaves the worker thread and its ring alone.
LEMMA RingUnchanged ==
  ASSUME LoopbackInv, UNCHANGED vars
  PROVE  /\ WorkerInv' /\ OthersWait'
         /\ UNCHANGED <<Pending, RecvWaiting>>
         /\ Receiving' <=> Receiving
BY Zenon
   DEF vars, LoopbackInv, WorkerInv, TypeOK, WorkerAwake, WorkerQueued,
   OthersWait,
       Pending, RecvWaiting, Receiving

\* What Send does to the worker thread and to worker_scheduled: a Recv job is
\* stored only when the interface has none.
LEMMA SendSchedules ==
  ASSUME LoopbackInv, NEW t, NEW next \in {"idle", "perform"}, Send(t, next),
         t = WorkerThread => Receiving
  PROVE  /\ WorkerInv' /\ OthersWait' /\ RecvScheduledOnce'
         /\ Receiving' <=> Receiving
         /\ worker_scheduled' \in BOOLEAN
         /\ [Queue!Next]_Pending
<1> USE DEF LoopbackInv, WorkerInv
<1>1. CASE worker_scheduled' = worker_scheduled /\ UNCHANGED vars
  BY Zenon, <1>1, RingUnchanged
     DEF LoopbackTypeOK, RecvScheduledOnce, RecvWaiting
<1>2. CASE ~worker_scheduled /\ TrySchedule(t, RecvJob, next) /\ worker_scheduled' = TRUE
  <2>1. /\ ~Full /\ Put(t, RecvJob, next) /\ UNCHANGED <<jobsfree, job>>
        /\ RecvJob \in Jobs
    BY Zenon, <1>2, LoopbackAssumption DEF TrySchedule
  <2>2. ~Receiving /\ RecvWaiting = {} /\ t # WorkerThread
    BY Zenon, <1>2, RecvOnce
  <2>3. WorkerInv'
    BY Zenon, <2>1, <2>2, PutKeeps DEF TypeOK
  <2>4. RecvWaiting' = {jobsused + 1}
    BY Zenon, <2>1, <2>2, PutWaiting
  <2>5. ~Receiving'
    BY Zenon, <2>1, <2>2 DEF Put, Receiving, Waiters
  <2>6. OthersWait'
    BY Zenon, <2>1 DEF OthersWait, Put
  <2>7. RecvScheduledOnce'
    BY Zenon, <1>2, <2>4, <2>5 DEF RecvScheduledOnce, RecvWaiting
  <2> QED
    BY Zenon, <1>2, <2>1, <2>2, <2>3, <2>5, <2>6, <2>7, PutIsQueuePut
       DEF Queue!Next
<1> QED
  BY Zenon, <1>1, <1>2 DEF Send

\* A thread sends a packet.
LEMMA SendKeeps ==
  ASSUME LoopbackInv, NEW t \in TrySchedulers, Send(t, "idle"),
         UNCHANGED <<batch, taken, handled>>
  PROVE  LoopbackInv' /\ [Queue!Next]_Pending
<1>0. t # WorkerThread
  BY Zenon, WorkerAssumption
<1>1. /\ WorkerInv' /\ OthersWait' /\ RecvScheduledOnce'
      /\ Receiving' <=> Receiving
      /\ worker_scheduled' \in BOOLEAN
      /\ [Queue!Next]_Pending
  BY Zenon, <1>0, SendSchedules
<1>2. sent < MaxSent /\ sent' = sent + 1 /\ packets' = Append(packets, sent + 1)
  BY Zenon DEF Send
<1>3. packets' \in Seq(1..MaxSent) /\ Numbered'
  BY Zenon, <1>2, SendInOrder DEF LoopbackInv, LoopbackTypeOK, Numbered
<1>4. LoopbackTypeOK'
  BY <1>1, <1>2, <1>3, LoopbackAssumption DEF LoopbackInv, LoopbackTypeOK, WorkerInv
<1>5. BatchRuns'
  BY Zenon, <1>1 DEF LoopbackInv, BatchRuns
<1> QED
  BY Zenon, <1>1, <1>3, <1>4, <1>5 DEF LoopbackInv

\* Recv takes the queue, handles a packet, and ends.
LEMMA RecvTakeKeeps ==
  ASSUME LoopbackInv, RecvTake
  PROVE  LoopbackInv' /\ UNCHANGED Pending
<1>1. /\ WorkerInv' /\ OthersWait'
      /\ UNCHANGED <<Pending, RecvWaiting>>
      /\ Receiving' <=> Receiving
  BY Zenon, RingUnchanged DEF RecvTake
<1>2. /\ batch = <<>> /\ batch' = packets /\ packets' = <<>> /\ taken' = TRUE
      /\ UNCHANGED <<worker_scheduled, sent, handled>> /\ Receiving
  BY Zenon DEF RecvTake, LoopbackInv, BatchRuns
<1>3. LoopbackTypeOK'
  BY Zenon, <1>1, <1>2 DEF LoopbackInv, LoopbackTypeOK, WorkerInv
<1>4. RecvScheduledOnce'
  BY Zenon, <1>1, <1>2 DEF LoopbackInv, RecvScheduledOnce, RecvWaiting
<1>5. Numbered'
  BY Zenon, <1>2, TakeInOrder DEF LoopbackInv, LoopbackTypeOK, Numbered
<1>6. BatchRuns'
  BY Zenon, <1>1, <1>2 DEF BatchRuns
<1> QED
  BY Zenon, <1>1, <1>3, <1>4, <1>5, <1>6 DEF LoopbackInv

LEMMA RecvHandleKeeps ==
  ASSUME LoopbackInv, RecvHandle
  PROVE  LoopbackInv' /\ [Queue!Next]_Pending
<1> USE DEF LoopbackInv
<1>1. /\ Receiving /\ taken /\ batch # <<>>
      /\ handled' = handled + 1 /\ batch' = Tail(batch) /\ taken' = taken
  BY Zenon DEF RecvHandle
<1>2. /\ batch' \in Seq(1..MaxSent)
      /\ handled' \in 0..MaxSent
      /\ InOrder(batch', packets, handled', sent)
  BY Zenon, <1>1, HandleInOrder DEF LoopbackTypeOK, Numbered
<1>3. CASE Send(WorkerThread, "perform")
  <2>1. /\ WorkerInv' /\ OthersWait' /\ RecvScheduledOnce'
        /\ Receiving' <=> Receiving
        /\ worker_scheduled' \in BOOLEAN
        /\ [Queue!Next]_Pending
    BY Zenon, <1>1, <1>3, SendSchedules
  <2>2. sent < MaxSent /\ sent' = sent + 1 /\ packets' = Append(packets, sent + 1)
    BY Zenon, <1>3 DEF Send
  <2>3. packets' \in Seq(1..MaxSent) /\ Numbered'
    BY Zenon, <1>2, <2>2, SendInOrder DEF LoopbackTypeOK, Numbered
  <2>4. LoopbackTypeOK'
    BY <1>1, <1>2, <2>1, <2>2, <2>3, LoopbackAssumption DEF LoopbackTypeOK, WorkerInv
  <2>5. BatchRuns'
    BY Zenon, <1>1, <2>1 DEF BatchRuns
  <2> QED
    BY Zenon, <2>1, <2>3, <2>4, <2>5
<1>4. CASE UNCHANGED <<packets, worker_scheduled, sent, vars>>
  <2>1. /\ WorkerInv' /\ OthersWait'
        /\ UNCHANGED <<Pending, RecvWaiting>>
        /\ Receiving' <=> Receiving
    BY Zenon, <1>4, RingUnchanged
  <2>2. LoopbackTypeOK'
    BY Zenon, <1>1, <1>2, <1>4, <2>1 DEF LoopbackTypeOK, WorkerInv
  <2>3. RecvScheduledOnce'
    BY Zenon, <1>4, <2>1 DEF RecvScheduledOnce, RecvWaiting
  <2>4. Numbered' /\ BatchRuns'
    BY Zenon, <1>1, <1>2, <1>4, <2>1 DEF Numbered, BatchRuns
  <2> QED
    BY Zenon, <2>1, <2>2, <2>3, <2>4
<1> QED
  BY Zenon, <1>3, <1>4 DEF RecvHandle

LEMMA RecvEndKeeps ==
  ASSUME LoopbackInv, RecvEnd
  PROVE  LoopbackInv' /\ [Queue!Next]_Pending
<1> USE DEF LoopbackInv, WorkerInv
<1>1. /\ Receiving /\ taken /\ batch = <<>> /\ taken' = FALSE
      /\ UNCHANGED <<packets, batch, sent, handled>>
  BY Zenon DEF RecvEnd
<1>2. worker_scheduled /\ RecvWaiting = {}
  BY Zenon, <1>1, RecvOnce
<1>3. Numbered' /\ BatchRuns'
  BY Zenon, <1>1 DEF Numbered, BatchRuns
<1>4. CASE TrySchedule(WorkerThread, RecvJob, "get") /\ UNCHANGED worker_scheduled
  <2>1. /\ ~Full /\ Put(WorkerThread, RecvJob, "get") /\ UNCHANGED <<jobsfree, job>>
        /\ RecvJob \in Jobs
    BY Zenon, <1>4, LoopbackAssumption DEF TrySchedule
  <2>2. pc[WorkerThread] # "wait_free"
    BY Zenon, <1>1 DEF Receiving
  <2>3. WorkerInv'
    BY Zenon, <2>1, <2>2, PutKeeps DEF TypeOK
  <2>4. RecvWaiting' = {jobsused + 1}
    BY Zenon, <1>2, <2>1, PutWaiting
  <2>5. ~Receiving'
    BY Zenon, <2>1 DEF Put, Receiving, Waiters
  <2>6. OthersWait'
    BY Zenon, <2>1 DEF OthersWait, Put
  <2>7. RecvScheduledOnce'
    BY Zenon, <1>2, <1>4, <2>4, <2>5 DEF RecvScheduledOnce, RecvWaiting
  <2>8. LoopbackTypeOK'
    BY Zenon, <1>1, <1>4, <2>3 DEF LoopbackTypeOK
  <2> QED
    BY Zenon, <1>3, <2>1, <2>3, <2>6, <2>7, <2>8, PutIsQueuePut DEF Queue!Next
<1>5. CASE WorkerPerform /\ worker_scheduled' = FALSE
  <2>1. WorkerInv' /\ UNCHANGED Pending
    BY Zenon, <1>5, WorkerMovesKeep
  <2>2. RecvWaiting' = {} /\ ~Receiving'
    BY Zenon, <1>2, <1>5, <2>1
       DEF RecvWaiting, WorkerPerform, Receiving, TypeOK, Waiters
  <2>3. OthersWait'
    BY Zenon, <1>5 DEF OthersWait, WorkerPerform, TypeOK
  <2>4. RecvScheduledOnce'
    BY Zenon, <1>5, <2>2 DEF RecvScheduledOnce, RecvWaiting
  <2>5. LoopbackTypeOK'
    BY Zenon, <1>1, <1>5, <2>1 DEF LoopbackTypeOK
  <2> QED
    BY Zenon, <1>3, <2>1, <2>3, <2>4, <2>5
<1> QED
  BY Zenon, <1>4, <1>5 DEF RecvEnd

\* The worker takes a job, which may be the interface's Recv job.
LEMMA WorkerGetKeepsLoopback ==
  ASSUME LoopbackInv, WorkerGet, UNCHANGED packetVars
  PROVE  LoopbackInv'
<1> USE DEF LoopbackInv, WorkerInv
<1>1. /\ WorkerInv'
      /\ pc'[WorkerThread] = "perform"
      /\ \A t \in Waiters \ {WorkerThread} :
           \/ pc'[t] = pc[t]
           \/ pc'[t] = "woken_free" /\ \E i \in 1..Len(jobsfree) : jobsfree[i] = t
      /\ \A i \in 1..Len(jobsfree') :
           \E k \in 1..Len(jobsfree) : jobsfree'[i] = jobsfree[k]
  BY Zenon, WorkerGetKeeps
<1>2. pc[WorkerThread] = "get" /\ WorkerThread \in Waiters
  BY Zenon DEF WorkerGet, Waiters
<1>3. job' = [job EXCEPT ![WorkerThread] = Pending[1]]
  BY Zenon, GetRemoves
<1>4. /\ ~Receiving
      /\ Receiving' <=> Pending[1] = RecvJob
  BY Zenon, <1>1, <1>2, <1>3 DEF Receiving, TypeOK
<1>5. /\ \A i \in Nat : i \in RecvWaiting' <=> i > 0 /\ i + 1 \in RecvWaiting
      /\ 1 \in RecvWaiting <=> Pending[1] = RecvJob
      /\ RecvWaiting \subseteq Nat \ {0} /\ RecvWaiting' \subseteq Nat \ {0}
  BY Zenon, GetWaiting
<1>6. worker_scheduled' = worker_scheduled /\ worker_scheduled \in BOOLEAN
  BY Zenon DEF packetVars, LoopbackTypeOK
<1>7. RecvScheduledOnce'
  <2>1. CASE ~worker_scheduled
    <3>1. RecvWaiting = {} /\ RecvWaiting' = {} /\ ~Receiving'
      BY Zenon, <1>4, <1>5, <2>1, RecvOnce
    <3> QED
      BY Zenon, <1>6, <2>1, <3>1 DEF RecvScheduledOnce, RecvWaiting
  <2>2. CASE worker_scheduled
    <3>1. PICK i \in RecvWaiting : RecvWaiting = {i}
      BY Zenon, <1>4, <2>2, RecvOnce
    <3>2. CASE i = 1
      <4>1. Receiving' /\ RecvWaiting' = {}
        BY <1>4, <1>5, <3>1, <3>2
      <4> QED
        BY Zenon, <1>6, <2>2, <4>1 DEF RecvScheduledOnce, RecvWaiting
    <3>3. CASE i # 1
      <4>1. ~Receiving' /\ i - 1 \in Nat \ {0} /\ RecvWaiting' = {i - 1}
        <5>1. ~Receiving' /\ i \in Nat /\ i - 1 \in Nat \ {0}
          BY <1>4, <1>5, <3>1, <3>3
        <5>2. \A k \in Nat \ {0} : k + 1 \in RecvWaiting <=> k = i - 1
          BY <3>1, <5>1
        <5>3. \A k \in Nat \ {0} : k \in RecvWaiting' <=> k = i - 1
          BY <1>5, <5>2
        <5> QED
          BY Zenon, <1>5, <5>1, <5>3
      <4> QED
        BY Zenon, <1>6, <2>2, <4>1 DEF RecvScheduledOnce, RecvWaiting
    <3> QED
      BY Zenon, <3>2, <3>3
  <2> QED
    BY Zenon, <2>1, <2>2
<1>8. OthersWait'
  <2>0. \A i \in 1..Len(jobsfree) :
          jobsfree[i] \in Waiters \ {WorkerThread} /\ job[jobsfree[i]] # RecvJob
    BY <1>2 DEF WorkerQueued, OthersWait, TypeOK
  <2>1. \A t \in Waiters \ {WorkerThread} : job'[t] = job[t]
    BY Zenon, <1>3 DEF TypeOK
  <2>2. \A i \in 1..Len(jobsfree') : job'[jobsfree'[i]] # RecvJob
    BY <1>1, <2>0, <2>1
  <2>3. ASSUME NEW t \in Waiters, pc'[t] \in {"wait_free", "woken_free"}
        PROVE  job'[t] # RecvJob
    <3>1. t \in Waiters \ {WorkerThread}
      BY Zenon, <1>1, <2>3
    <3>2. CASE pc'[t] = pc[t]
      BY Zenon, <2>1, <2>3, <3>1, <3>2 DEF OthersWait
    <3>3. CASE \E i \in 1..Len(jobsfree) : jobsfree[i] = t
      BY Zenon, <2>0, <2>1, <3>1, <3>3
    <3> QED
      BY Zenon, <1>1, <3>1, <3>2, <3>3
  <2> QED
    BY Zenon, <2>2, <2>3 DEF OthersWait
<1>9. LoopbackTypeOK' /\ Numbered'
  BY Zenon, <1>1 DEF LoopbackTypeOK, Numbered, packetVars
<1>10. BatchRuns'
  BY Zenon, <1>4 DEF BatchRuns, packetVars
<1> QED
  BY Zenon, <1>1, <1>7, <1>8, <1>9, <1>10

\* The worker's other steps.
LEMMA WorkerOnlyKeeps ==
  ASSUME LoopbackInv, WorkerOnly
  PROVE  LoopbackInv'
<1> USE DEF LoopbackInv, WorkerInv
<1>0. UNCHANGED packetVars
  BY Zenon DEF WorkerOnly
<1>1. CASE WorkerGet
  BY Zenon, <1>0, <1>1, WorkerGetKeepsLoopback
<1>2. CASE WorkerWait \/ (~Receiving /\ WorkerPerform)
  <2>1. WorkerInv' /\ UNCHANGED Pending
    BY Zenon, <1>2, WorkerMovesKeep
  <2>2. RecvWaiting' = RecvWaiting /\ (Receiving' <=> Receiving)
    BY Zenon, <1>2, <2>1
       DEF RecvWaiting, Receiving, WorkerWait, WorkerPerform, TypeOK, Waiters
  <2>3. OthersWait'
    BY Zenon, <1>2 DEF OthersWait, WorkerWait, WorkerPerform, TypeOK, Waiters
  <2> QED
    BY Zenon, <1>0, <2>1, <2>2, <2>3, QuietKeeps
<1>3. CASE ~Receiving /\ WorkerReschedule
  <2>1. /\ pc[WorkerThread] = "perform" /\ job' = job
        /\ ScheduleLoop(WorkerThread, job[WorkerThread])
        /\ WorkerThread \in Waiters
    BY Zenon, <1>3 DEF WorkerReschedule, Waiters
  <2>2. job[WorkerThread] \in OtherJobs /\ job' \in [Waiters -> Jobs]
    BY Zenon, <1>3, <2>1 DEF Receiving, OtherJobs, TypeOK
  <2> QED
    BY Zenon, <1>0, <1>3, <2>1, <2>2, OtherLoopKeeps
<1> QED
  BY Zenon, <1>1, <1>2, <1>3 DEF WorkerOnly

\* Every step of the composition is a step of the worker thread's ring.
LEMMA LoopbackNextKeeps ==
  ASSUME LoopbackInv, [LoopbackNext]_allVars
  PROVE  LoopbackInv' /\ [Queue!Next]_Pending
<1>1. CASE UNCHANGED allVars
  <2>1. UNCHANGED vars /\ UNCHANGED packetVars
    BY Zenon, <1>1 DEF allVars
  <2> QED
    BY Zenon, <2>1, RingUnchanged, QuietKeeps
<1>2. CASE Recv
  BY Zenon, <1>2, RecvTakeKeeps, RecvHandleKeeps, RecvEndKeeps DEF Recv
<1>3. CASE WorkerOnly
  <2>1. Next
    BY Zenon, <1>3 DEF WorkerOnly, Next, WorkerStep
  <2> QED
    BY Zenon, <1>3, <2>1, WorkerOnlyKeeps, WorkerNext DEF LoopbackInv
<1>4. CASE OtherUsers
  <2>1. Next
    BY Zenon, <1>4 DEF OtherUsers, Next, OtherJobs
  <2> QED
    BY Zenon, <1>4, <2>1, OtherUsersKeep, WorkerNext DEF LoopbackInv
<1>5. CASE \E t \in TrySchedulers : Send(t, "idle") /\ UNCHANGED <<batch, taken, handled>>
  BY Zenon, <1>5, SendKeeps
<1> QED
  BY Zenon, <1>1, <1>2, <1>3, <1>4, <1>5 DEF LoopbackNext

LEMMA LoopbackInitOK ==
  ASSUME LoopbackInit
  PROVE  LoopbackInv /\ Queue!Init
<1> USE DEF LoopbackInit
<1>1. WorkerInv /\ Pending = <<>>
  BY Zenon, WorkerInit
<1>2. LoopbackTypeOK
  <2>1. <<>> \in Seq(1..MaxSent) /\ 0 \in 0..MaxSent
    BY LoopbackAssumption
  <2> QED
    BY Zenon, <1>1, <2>1 DEF LoopbackTypeOK, WorkerInv
<1>3. RecvScheduledOnce
  BY WorkerAssumption DEF RecvScheduledOnce, Receiving, Init, Waiters
<1>4. OthersWait /\ BatchRuns
  BY DEF OthersWait, BatchRuns, Init
<1>5. Numbered
  BY DEF Numbered, InOrder
<1> QED
  BY Zenon, <1>1, <1>2, <1>3, <1>4, <1>5 DEF LoopbackInv, Queue!Init

\* No packet is lost, handled twice or overtaken by the loopback interface,
\* however long the ring is, whoever fills it, and whatever the handling of a
\* packet sends.
THEOREM LoopbackInOrder == LoopbackSpec => []InOrderOnce
<1>1. LoopbackInit => LoopbackInv
  BY Zenon, LoopbackInitOK
<1>2. LoopbackInv /\ [LoopbackNext]_allVars => LoopbackInv'
  BY Zenon, LoopbackNextKeeps
<1>3. LoopbackInv => InOrderOnce
  BY InOrderConcat DEF LoopbackInv, InOrderOnce, LoopbackTypeOK, WorkerInv, Numbered
<1> QED
  BY <1>1, <1>2, <1>3, PTL DEF LoopbackSpec

\* The ring keeps its promise also when the interface uses it, which the
\* run checks for a ring of four entries.
THEOREM LoopbackRingIsQueue == LoopbackSpec => ImplementsJobQueue
<1>1. LoopbackInit => LoopbackInv /\ Queue!Init
  BY Zenon, LoopbackInitOK
<1>2. LoopbackInv /\ [LoopbackNext]_allVars => LoopbackInv' /\ [Queue!Next]_Pending
  BY Zenon, LoopbackNextKeeps
<1> QED
  BY <1>1, <1>2, PTL DEF LoopbackSpec, ImplementsJobQueue, Queue!Spec

=============================================================================
