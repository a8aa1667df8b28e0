------------------------------- MODULE Worker -------------------------------
(***************************************************************************)
(* The kernel worker thread and its ring of jobs (kernel/worker.cpp).      *)
(*                                                                         *)
(* Every critical section of jobslock is one step: KThread shows that the  *)
(* mutex and its condition variables are a monitor, in which a thread that *)
(* waits leaves and joins the condition's FIFO queue at once, and a signal *)
(* takes the first thread out of the queue for good.  Only the worker      *)
(* waits on jobsready, so that queue is the worker's own step.             *)
(*                                                                         *)
(* A timer job (Clock__FireTimer) whose timer went off again while its     *)
(* callback ran schedules itself once more, from the worker thread.        *)
(***************************************************************************)
EXTENDS Naturals, Sequences

CONSTANTS Schedulers,    \* the threads that call Schedule, which waits
          TrySchedulers, \* the threads that call TrySchedule, which does not
          WorkerThread,  \* the one worker thread
          Jobs,
          TimerJobs,     \* the jobs that may schedule themselves again
          JobsLen        \* the number of jobs the ring holds

ASSUME WorkerAssumption ==
  /\ JobsLen \in Nat \ {0}
  /\ TimerJobs \subseteq Jobs
  /\ Jobs # {}
  /\ WorkerThread \notin Schedulers \cup TrySchedulers

VARIABLES jobs, jobsoff, jobsused,
          jobsfree,  \* the threads waiting on the condition jobsfree, in order
          pc,        \* where each thread that may wait is
          job        \* the job each of them schedules; the one the worker runs

vars == <<jobs, jobsoff, jobsused, jobsfree, pc, job>>

Waiters == Schedulers \cup {WorkerThread}

Init ==
  /\ jobs \in [0..JobsLen - 1 -> Jobs]
  /\ jobsoff = 0
  /\ jobsused = 0
  /\ jobsfree = <<>>
  /\ pc = [t \in Waiters |-> IF t = WorkerThread THEN "get" ELSE "idle"]
  /\ job \in [Waiters -> Jobs]

Full == jobsused = JobsLen

\* What a thread does once its call of Schedule has returned.
Home(t) == IF t = WorkerThread THEN "get" ELSE "idle"

\* Mutant: the producer signals only when it finds the ring almost full.
Put_SignalLate(t, j, next) ==
  /\ jobs' = [jobs EXCEPT ![(jobsoff + jobsused) % JobsLen] = j]
  /\ jobsused' = jobsused + 1
  /\ pc' = [u \in Waiters |->
              IF u = t THEN next
              ELSE IF /\ u = WorkerThread /\ pc[u] = "wait_ready"
                      /\ jobsused + 1 = JobsLen
                   THEN "get"
              ELSE pc[u]]
  /\ UNCHANGED jobsoff

\* Mutant: the index is taken after the increment.
Put_OffByOne(t, j, next) ==
  /\ jobs' = [jobs EXCEPT ![(jobsoff + jobsused + 1) % JobsLen] = j]
  /\ jobsused' = jobsused + 1
  /\ pc' = [u \in Waiters |->
              IF u = t THEN next
              ELSE IF u = WorkerThread /\ pc[u] = "wait_ready" /\ jobsused = 0
                   THEN "get"
              ELSE pc[u]]
  /\ UNCHANGED jobsoff

\* The end of _Schedule, after which thread t goes on at next: signal
\* jobsready if the ring is empty, and store the job.
Put(t, j, next) ==
  /\ jobs' = [jobs EXCEPT ![(jobsoff + jobsused) % JobsLen] = j]
  /\ jobsused' = jobsused + 1
  /\ pc' = [u \in Waiters |->
              IF u = t THEN next
              ELSE IF u = WorkerThread /\ pc[u] = "wait_ready" /\ jobsused = 0
                   THEN "get"
              ELSE pc[u]]
  /\ UNCHANGED jobsoff

\* kthread_cond_wait(&jobsfree, &jobslock).
WaitFree(t) ==
  /\ jobsfree' = Append(jobsfree, t)
  /\ pc' = [pc EXCEPT ![t] = "wait_free"]
  /\ UNCHANGED <<jobs, jobsoff, jobsused>>

\* The loop of _Schedule: wait while the ring is full, then put.
ScheduleLoop(t, j) ==
  \/ Full /\ WaitFree(t)
  \/ ~Full /\ Put(t, j, Home(t)) /\ UNCHANGED jobsfree

\* A thread calls Schedule.
Schedule(t, j) ==
  /\ pc[t] = "idle"
  /\ job' = [job EXCEPT ![t] = j]
  /\ ScheduleLoop(t, j)

\* A thread that waited for a free entry was signalled and has jobslock.
ScheduleResume(t) ==
  /\ pc[t] = "woken_free"
  /\ ScheduleLoop(t, job[t])
  /\ UNCHANGED job

\* TrySchedule returns true; when the ring is full it changes nothing.
TrySchedule(t, j, next) ==
  /\ ~Full
  /\ Put(t, j, next)
  /\ UNCHANGED <<jobsfree, job>>

\* The worker takes the first job, and signals jobsfree if the ring was full.
WorkerGet ==
  /\ pc[WorkerThread] = "get"
  /\ jobsused # 0
  /\ job' = [job EXCEPT ![WorkerThread] = jobs[jobsoff]]
  /\ jobsoff' = (jobsoff + 1) % JobsLen
  /\ jobsused' = jobsused - 1
  /\ \/ /\ Full /\ jobsfree # <<>>
        /\ jobsfree' = Tail(jobsfree)
        /\ pc' = [pc EXCEPT ![WorkerThread] = "perform",
                            ![Head(jobsfree)] = "woken_free"]
     \/ /\ ~Full \/ jobsfree = <<>>
        /\ pc' = [pc EXCEPT ![WorkerThread] = "perform"]
        /\ UNCHANGED jobsfree
  /\ UNCHANGED jobs

\* kthread_cond_wait(&jobsready, &jobslock).
WorkerWait ==
  /\ pc[WorkerThread] = "get"
  /\ jobsused = 0
  /\ pc' = [pc EXCEPT ![WorkerThread] = "wait_ready"]
  /\ UNCHANGED <<jobs, jobsoff, jobsused, jobsfree, job>>

\* PerformJob returns.
WorkerPerform ==
  /\ pc[WorkerThread] = "perform"
  /\ pc' = [pc EXCEPT ![WorkerThread] = "get"]
  /\ UNCHANGED <<jobs, jobsoff, jobsused, jobsfree, job>>

\* The end of Clock__FireTimer when the timer fired again meanwhile.
WorkerReschedule ==
  /\ pc[WorkerThread] = "perform"
  /\ job[WorkerThread] \in TimerJobs
  /\ ScheduleLoop(WorkerThread, job[WorkerThread])
  /\ UNCHANGED job

WorkerStep == WorkerGet \/ WorkerWait \/ WorkerPerform \/ WorkerReschedule

Next ==
  \/ WorkerStep
  \/ \E t \in Waiters : ScheduleResume(t)
  \/ \E t \in Schedulers, j \in Jobs : Schedule(t, j)
  \/ \E t \in TrySchedulers, j \in Jobs : TrySchedule(t, j, "idle")

Spec == Init /\ [][Next]_vars

-----------------------------------------------------------------------------
(* Properties.                                                             *)

TypeOK ==
  /\ jobs \in [0..JobsLen - 1 -> Jobs]
  /\ jobsoff \in 0..JobsLen - 1
  /\ jobsused \in 0..JobsLen
  /\ jobsfree \in Seq(Waiters)
  /\ pc \in [Waiters -> {"idle", "wait_free", "woken_free", "get",
                         "wait_ready", "perform"}]
  /\ job \in [Waiters -> Jobs]

\* The worker sleeps only while the ring is empty: the producer that finds
\* it empty signals it, although the job is stored after the signal.
WorkerAwake == pc[WorkerThread] = "wait_ready" => jobsused = 0

\* The jobs in the ring, oldest first.
Pending == [i \in 1..jobsused |-> jobs[(jobsoff + i - 1) % JobsLen]]

Queue == INSTANCE JobQueue WITH queue <- Pending

\* The ring of jobs is a bounded FIFO queue: no job is lost, overwritten,
\* duplicated or overtaken when the indices wrap around, and a thread that
\* waited for room finds the ring as it must be.
ImplementsJobQueue == Queue!Spec

\* The worker itself waits for room in the ring, which nobody else makes.
WorkerStuck == pc[WorkerThread] = "wait_free"

\* A thread waits in Schedule forever only if others fill the ring again and
\* again before it runs, when no second thread waits with it: taking a job
\* out of the full ring wakes it, unless the worker is stuck.
SchedulerStarvesOnlyByOvertaking ==
  \A t \in Schedulers :
    <>[](pc[t] # "idle") => \/ []<>Full /\ []<>~Full
                            \/ <>[]WorkerStuck

\* Every job that got into the ring is performed, unless the worker is stuck.
EveryJobRuns ==
  \A j \in Jobs :
    (\E i \in 1..jobsused : Pending[i] = j) ~>
      \/ pc[WorkerThread] = "perform" /\ job[WorkerThread] = j
      \/ WorkerStuck

\* Both of these: neither the jobs nor the threads that schedule them are
\* left behind by the worker and the ring.
JobsProgress == SchedulerStarvesOnlyByOvertaking /\ EveryJobRuns

\* Clock__FireTimer: "We'll schedule another worker thread job and resume
\* there, so this worker thread can continue to do other important stuff."
WorkerContinues == ~WorkerStuck

=============================================================================
