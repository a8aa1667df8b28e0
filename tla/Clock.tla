------------------------------- MODULE Clock -------------------------------
(***************************************************************************)
(* A clock and its timers (kernel/clock.cpp, kernel/timer.cpp), the        *)
(* interrupt worker that runs their callbacks (kernel/interrupt.cpp), and  *)
(* the four ways in which the kernel uses a timer: a sleeping thread       *)
(* (Clock::SleepDelay, SleepUntil), sys_ppoll, the timers of a process     *)
(* (kernel/user-timer.cpp), and an object that its own timer may delete    *)
(* (TIMER_FUNC_MAY_DEALLOCATE_TIMER).                                      *)
(*                                                                         *)
(* Every clock is callable from interrupts, so LockClock disables them: a  *)
(* locked section, and the whole of the timer interrupt, is one step on    *)
(* the record kernel.  Callbacks run in the interrupt worker or, when the  *)
(* timer has fired again meanwhile, in the worker thread of Worker.tla,    *)
(* here a queue of jobs.  A timespec is a number of ticks.                 *)
(***************************************************************************)
EXTENDS Integers, Sequences, FiniteSets, SequencesExt

CONSTANTS Sleepers,   \* timers on the stack of a thread that sleeps
          Pollers,    \* timers on the stack of sys_ppoll
          Users,      \* timers of one process, in its user_timers
          Objects,    \* timers inside objects that their callback may delete
          Delays,     \* the times they are set to
          Intervals,  \* the periods of the timers of the process
          Durations,  \* by how much an interrupt advances the clock
          MaxTime,    \* bound: how far the clock advances
          SetTimes,   \* the times that the clock is set to
          Careful     \* whether the process sets a timer only when its
                      \* callback is not due or running

Timers == Sleepers \cup Pollers \cup Users \cup Objects
NULL == "null"
ExitJob == "exit"

ASSUME ClockAssumption ==
  /\ MaxTime \in Nat /\ Delays \subseteq Nat /\ Intervals \subseteq Nat
  /\ Durations \subseteq Nat \ {0}
  /\ {NULL, ExitJob} \cap Timers = {}

VARIABLES kernel,  \* what is accessed with interrupts disabled
          jobs,    \* the queue of the worker thread
          run,     \* the two threads that run callbacks
          client,  \* per timer, its owner
          user_timers_lock  \* who holds the process's lock: a timer or NULL

vars == <<kernel, jobs, run, client, user_timers_lock>>

\* due is not in the code: when a delay timer should fire.
BlankTimer ==
  [active |-> FALSE, firing |-> FALSE, absolute |-> FALSE, value |-> 0,
   interval |-> 0, num_firings_scheduled |-> 0, next |-> NULL, due |-> 0]

\* A timer that is not armed.  What nothing reads before Set writes it again is
\* not kept.
Idle(tm) ==
  [BlankTimer EXCEPT !.firing = tm.firing, !.next = tm.next,
                     !.num_firings_scheduled = tm.num_firings_scheduled]

TIMER_FUNC_INTERRUPT_HANDLER(t) == t \in Sleepers
TIMER_FUNC_MAY_DEALLOCATE_TIMER(t) == t \in Objects

Put(w, t, tm) == [w EXCEPT !.timer[t] = tm]
Check(w, holds) == [w EXCEPT !.panic = @ \/ ~holds]

-----------------------------------------------------------------------------
(* The lists of armed timers. *)

\* The time until the i-th timer of the delay list fires.
Until(w, i) ==
  FoldLeft(LAMBDA sum, t : sum + w.timer[t].value, 0,
           SubSeq(w.delay_timer, 1, i))

RegisterAbsolute(w, t) ==
  LET list == w.absolute_timer
      before == {i \in DOMAIN list :
                   w.timer[list[i]].value <= w.timer[t].value}
  IN [w EXCEPT !.absolute_timer = InsertAt(list, Cardinality(before) + 1, t),
               !.timer[t].active = TRUE]

\* The value becomes the delay since the timer before, and the delay of the
\* timer after is shortened.
RegisterDelay(w, t) ==
  LET list == w.delay_timer
      value == w.timer[t].value
      at == Cardinality({i \in DOMAIN list : Until(w, i) <= value})
      delta == value - Until(w, at)
  IN [w EXCEPT !.delay_timer = InsertAt(list, at + 1, t),
               !.timer = [x \in Timers |->
                 IF x = t THEN [w.timer[t] EXCEPT !.active = TRUE,
                                                  !.value = delta]
                 ELSE IF at < Len(list) /\ x = list[at + 1]
                 THEN [w.timer[x] EXCEPT !.value = @ - delta]
                 ELSE w.timer[x]]]

Register(w, t) ==
  Check(IF w.timer[t].absolute THEN RegisterAbsolute(w, t)
        ELSE RegisterDelay(w, t), ~w.timer[t].active)

Without(list, t) == SelectSeq(list, LAMBDA x : x # t)

UnlinkAbsolute(w, t) ==
  [w EXCEPT !.absolute_timer = Without(@, t), !.timer[t] = Idle(@)]

\* Mutant: the timer after does not get the delay that is left.
UnlinkDelay_DropsDelay(w, t) ==
  [w EXCEPT !.delay_timer = Without(@, t), !.timer[t] = Idle(@)]

\* The timer after gets the delay that is left.
UnlinkDelay(w, t) ==
  LET list == w.delay_timer
      After(x) == \E i \in 1..Len(list) - 1 : list[i] = t /\ list[i + 1] = x
  IN [w EXCEPT !.delay_timer = Without(list, t),
               !.timer = [x \in Timers |->
                 IF x = t THEN Idle(w.timer[t])
                 ELSE IF After(x)
                 THEN [w.timer[x] EXCEPT !.value = @ + w.timer[t].value]
                 ELSE w.timer[x]]]

Unlink(w, t) ==
  IF ~w.timer[t].active THEN w
  ELSE IF w.timer[t].absolute THEN UnlinkAbsolute(w, t)
  ELSE UnlinkDelay(w, t)

\* Timer::Set that arms the timer: the new flags replace the old ones, also
\* TIMER_FIRING.
Arm(w, t, value, interval, absolute) ==
  Register(Put(w, t, [w.timer[t] EXCEPT
                        !.active = FALSE, !.firing = FALSE,
                        !.absolute = absolute, !.value = value,
                        !.interval = interval,
                        !.due = IF absolute THEN 0
                                ELSE w.current_advancement + value]), t)

Set(w, t, value, interval, absolute) ==
  Arm(Unlink(w, t), t, value, interval, absolute)

\* Timer::Set with TIMER_DISARM.
Disarm(w, t) == Unlink(w, t)

-----------------------------------------------------------------------------
(* Firing. *)

\* Interrupt::ScheduleWork(&interrupt_work).
ScheduleWork(w) ==
  [w EXCEPT !.work = TRUE,
            !.futex_woken = @ \/ w.interrupt_worker_idle]

\* Append the timer to the list for the interrupt worker.
AppendInterruptTimer(w, t) ==
  [w EXCEPT !.first = IF w.last = NULL THEN t ELSE @,
            !.last = t,
            !.timer = [x \in Timers |->
              IF x = t THEN [w.timer[t] EXCEPT !.next = NULL]
              ELSE IF x = w.last THEN [w.timer[x] EXCEPT !.next = t]
              ELSE w.timer[x]],
            !.interrupt_work_scheduled = TRUE]

Forward(w, t) ==
  IF w.timer[t].firing
  THEN [w EXCEPT !.timer[t].num_firings_scheduled = @ + 1]
  ELSE AppendInterruptTimer(
         [(IF w.interrupt_work_scheduled THEN w ELSE ScheduleWork(w)) EXCEPT
            !.timer[t].firing = ~TIMER_FUNC_MAY_DEALLOCATE_TIMER(t)], t)

\* A periodic timer is armed again.
Rearm(w, t) ==
  LET tm == w.timer[t]
  IN IF TIMER_FUNC_MAY_DEALLOCATE_TIMER(t) \/ tm.interval = 0
     THEN Put(w, t, Idle(tm))
     ELSE Register(Put(w, t, [tm EXCEPT
            !.value = IF tm.absolute THEN @ + tm.interval ELSE tm.interval,
            !.due = IF tm.absolute THEN 0 ELSE @ + tm.interval]), t)

\* FireTimer, called with interrupts disabled.  The callback of a sleeping
\* thread is called at once and wakes it.
FireTimer(w, t) ==
  LET w1 == [w EXCEPT !.timer[t].active = FALSE]
  IN Rearm(IF TIMER_FUNC_INTERRUPT_HANDLER(t)
           THEN [w1 EXCEPT !.timer_woken = @ \cup {t}]
           ELSE Forward(w1, t), t)

RECURSIVE TriggerDelay(_, _)
TriggerDelay(w, unaccounted) ==
  IF w.delay_timer = <<>> THEN w
  ELSE LET t == Head(w.delay_timer)
           value == w.timer[t].value
       IN IF unaccounted < value
          THEN [w EXCEPT !.timer[t].value = @ - unaccounted]
          ELSE TriggerDelay(FireTimer([w EXCEPT !.timer[t].value = 0,
                                                !.delay_timer = Tail(@)], t),
                            unaccounted - value)

RECURSIVE TriggerAbsolute(_)
TriggerAbsolute(w) ==
  IF w.absolute_timer = <<>> THEN w
  ELSE LET t == Head(w.absolute_timer)
       IN IF w.current_time < w.timer[t].value THEN w
          ELSE TriggerAbsolute(
                 FireTimer([w EXCEPT !.absolute_timer = Tail(@)], t))

-----------------------------------------------------------------------------
(* Steps of the timer interrupt, and of the threads that run callbacks. *)

Runners == {"interrupt", "worker"}

Steps == {"top", "clear", "take", "sleep", "detach", "chain", "begin",
          "callback", "end", "finish", "idle", "delete", "cancel"}

Init ==
  /\ kernel = [current_time |-> 0, current_advancement |-> 0,
               delay_timer |-> <<>>, absolute_timer |-> <<>>,
               timer |-> [t \in Timers |-> BlankTimer],
               first |-> NULL, last |-> NULL,
               interrupt_work_scheduled |-> FALSE, work |-> FALSE,
               interrupt_worker_idle |-> FALSE, futex_woken |-> FALSE,
               timer_woken |-> {}, panic |-> FALSE]
  /\ jobs = <<>>
  /\ run = [r \in Runners |->
              [pc |-> IF r = "interrupt" THEN "top" ELSE "idle",
               timer |-> NULL, next |-> NULL]]
  /\ client = [t \in Timers |->
                 [pc |-> IF t \in Users THEN "attached" ELSE "idle",
                  armed |-> FALSE, doomed |-> FALSE]]
  /\ user_timers_lock = NULL

\* Clock::Advance, from the timer interrupt.
Advance(d) ==
  /\ kernel.current_advancement + d <= MaxTime
  /\ kernel' = TriggerAbsolute(TriggerDelay(
                 [kernel EXCEPT !.current_time = @ + d,
                                !.current_advancement = @ + d], d))
  /\ UNCHANGED <<jobs, run, client, user_timers_lock>>

\* Clock::Set.
SetTime(now) ==
  /\ kernel' = TriggerAbsolute([kernel EXCEPT !.current_time = now])
  /\ UNCHANGED <<jobs, run, client, user_timers_lock>>

At(r, pc) == run[r].pc = pc
Goto(r, pc) == run' = [run EXCEPT ![r].pc = pc]

\* Interrupt::WorkerThread.
WorkerTop ==
  /\ At("interrupt", "top")
  /\ kernel' = [kernel EXCEPT !.interrupt_worker_idle = FALSE]
  /\ Goto("interrupt", "clear")
  /\ UNCHANGED <<jobs, client, user_timers_lock>>

WorkerClear ==
  /\ At("interrupt", "clear")
  /\ kernel' = [kernel EXCEPT !.futex_woken = FALSE]
  /\ Goto("interrupt", "take")
  /\ UNCHANGED <<jobs, client, user_timers_lock>>

WorkerTake ==
  /\ At("interrupt", "take")
  /\ kernel' = [kernel EXCEPT !.work = FALSE,
                              !.interrupt_worker_idle = ~kernel.work]
  /\ Goto("interrupt", IF kernel.work THEN "detach" ELSE "sleep")
  /\ UNCHANGED <<jobs, client, user_timers_lock>>

\* kthread_wait_futex.
WorkerWake ==
  /\ At("interrupt", "sleep")
  /\ kernel.futex_woken
  /\ Goto("interrupt", "top")
  /\ UNCHANGED <<kernel, jobs, client, user_timers_lock>>

\* The timers that are linked from x by next_interrupt_timer.
RECURSIVE ChainFrom(_, _, _)
ChainFrom(w, x, n) ==
  IF x = NULL \/ n = 0 THEN <<>>
  ELSE <<x>> \o ChainFrom(w, w.timer[x].next, n - 1)

Linked(w, x) == ChainFrom(w, x, Cardinality(Timers) + 1)

\* A next_interrupt_timer that nothing reads before it is written is not kept.
Passed(w, t) ==
  IF t \in Range(Linked(w, w.first) \o Linked(w, w.timer[t].next)) THEN w
  ELSE [w EXCEPT !.timer[t].next = NULL]

\* Clock::InterruptWork: detach the list, then go through it.
Detach ==
  /\ At("interrupt", "detach")
  /\ kernel' = [kernel EXCEPT !.first = NULL, !.last = NULL]
  /\ run' = [run EXCEPT !["interrupt"] =
               [pc |-> "chain", timer |-> NULL, next |-> kernel.first]]
  /\ UNCHANGED <<jobs, client, user_timers_lock>>

Chain ==
  LET work == run["interrupt"].next
  IN /\ At("interrupt", "chain")
     /\ run' = [run EXCEPT !["interrupt"] =
                  IF work = NULL
                  THEN [pc |-> "finish", timer |-> NULL, next |-> NULL]
                  ELSE [pc |-> "begin", timer |-> work,
                        next |-> kernel.timer[work].next]]
     /\ kernel' = IF work = NULL THEN kernel ELSE Passed(kernel, work)
     /\ UNCHANGED <<jobs, client, user_timers_lock>>

\* Mutant: what was appended meanwhile is not looked at.
Finish_NoRecheck ==
  /\ At("interrupt", "finish")
  /\ kernel' = [kernel EXCEPT !.interrupt_work_scheduled = FALSE]
  /\ Goto("interrupt", "top")
  /\ UNCHANGED <<jobs, client, user_timers_lock>>

Finish ==
  /\ At("interrupt", "finish")
  /\ kernel' = IF kernel.first # NULL THEN ScheduleWork(kernel)
               ELSE [kernel EXCEPT !.interrupt_work_scheduled = FALSE]
  /\ Goto("interrupt", "top")
  /\ UNCHANGED <<jobs, client, user_timers_lock>>

\* Worker::Thread takes a job.
WorkerJob ==
  /\ At("worker", "idle")
  /\ jobs # <<>>
  /\ jobs' = Tail(jobs)
  /\ run' = [run EXCEPT !["worker"] =
               [pc |-> IF Head(jobs) = ExitJob THEN "delete" ELSE "begin",
                timer |-> IF Head(jobs) = ExitJob THEN NULL ELSE Head(jobs),
                next |-> NULL]]
  /\ UNCHANGED <<kernel, client, user_timers_lock>>

\* Where a thread goes on after Clock__FireTimer.
AfterFire(r) == IF r = "interrupt" THEN "chain" ELSE "idle"
LeaveTimer(r) ==
  run' = [run EXCEPT ![r].pc = AfterFire(r), ![r].timer = NULL]

\* Clock__FireTimer, its first locked section.
FireBegin(r) ==
  LET t == run[r].timer
  IN /\ At(r, "begin")
     /\ kernel' = Check([kernel EXCEPT !.timer[t].num_firings_scheduled = 0],
                        t \in Users => client[t].pc # "detached")
     /\ Goto(r, "callback")
     /\ UNCHANGED <<jobs, client, user_timers_lock>>

\* Mutant: an overrun is left to the next firing, and the flag with it.
FireEnd_NoJob(r) ==
  LET t == run[r].timer
      again == kernel.timer[t].num_firings_scheduled > 0
  IN /\ At(r, "end")
     /\ kernel' = IF again THEN kernel
                  ELSE [kernel EXCEPT !.timer[t].firing = FALSE]
     /\ LeaveTimer(r)
     /\ UNCHANGED <<jobs, client, user_timers_lock>>

\* The second one.
FireEnd(r) ==
  LET t == run[r].timer
      again == kernel.timer[t].num_firings_scheduled > 0
  IN /\ At(r, "end")
     /\ jobs' = IF again THEN Append(jobs, t) ELSE jobs
     /\ kernel' = IF again THEN kernel
                  ELSE [kernel EXCEPT !.timer[t].firing = FALSE]
     /\ LeaveTimer(r)
     /\ UNCHANGED <<client, user_timers_lock>>

\* poll_timeout_callback: sys_ppoll, if it still waits, may go on.
PollCallback(r) ==
  LET t == run[r].timer
  IN /\ At(r, "callback") /\ t \in Pollers
     /\ Goto(r, "end")
     /\ UNCHANGED <<kernel, jobs, client, user_timers_lock>>

\* timer_callback: it takes user_timers_lock and delivers a signal.
UserCallback(r) ==
  /\ At(r, "callback") /\ run[r].timer \in Users
  /\ user_timers_lock = NULL
  /\ Goto(r, "end")
  /\ UNCHANGED <<kernel, jobs, client, user_timers_lock>>

\* The callback of an object, under the object's lock: delete the object if
\* that was put off, or else perhaps arm the timer again.
ObjectCallback(r) ==
  LET t == run[r].timer
  IN /\ At(r, "callback") /\ t \in Objects
     /\ \/ /\ client[t].doomed
           /\ client' = [client EXCEPT ![t] =
                [pc |-> "idle", armed |-> FALSE, doomed |-> FALSE]]
           /\ UNCHANGED kernel
        \/ /\ ~client[t].doomed
           /\ client' = [client EXCEPT ![t].armed = FALSE]
           /\ UNCHANGED kernel
        \/ /\ ~client[t].doomed
           /\ \E v \in Delays : kernel' = Set(kernel, t, v, 0, FALSE)
           /\ UNCHANGED client
     /\ LeaveTimer(r)
     /\ UNCHANGED <<jobs, user_timers_lock>>

-----------------------------------------------------------------------------
(* Steps of the owners of timers. *)

Becomes(t, pc) == client' = [client EXCEPT ![t].pc = pc]

\* SleepDelay and SleepUntil up to the wait; sys_ppoll up to its wait.
Wait(t, v, absolute) ==
  /\ t \in Sleepers \/ (t \in Pollers /\ ~absolute /\ v > 0)
  /\ client[t].pc = "idle"
  /\ kernel' = Set(Put(kernel, t, BlankTimer), t, v, 0, absolute)
  /\ Becomes(t, "wait")
  /\ UNCHANGED <<jobs, run, user_timers_lock>>

\* The wait ends: the timer fired, a signal came, a descriptor was ready.
\* Cancel unlinks the timer ...
WaitEnds(t) ==
  /\ client[t].pc = "wait"
  /\ kernel' = [Unlink(kernel, t) EXCEPT !.timer_woken = @ \ {t}]
  /\ Becomes(t, "cancel")
  /\ UNCHANGED <<jobs, run, user_timers_lock>>

\* Mutant: Cancel does not wait for the callback.
CancelEnds_NoWait(t) ==
  /\ client[t].pc = "cancel" /\ t \notin Users
  /\ kernel' = Check(kernel, ~kernel.timer[t].active)
  /\ Becomes(t, "idle")
  /\ UNCHANGED <<jobs, run, user_timers_lock>>

\* ... and returns when it is not firing; then the stack frame goes away.
CancelEnds(t) ==
  /\ client[t].pc = "cancel" /\ t \notin Users
  /\ ~kernel.timer[t].firing
  /\ kernel' = Check(kernel, ~kernel.timer[t].active)
  /\ Becomes(t, "idle")
  /\ UNCHANGED <<jobs, run, user_timers_lock>>

\* Whether the process runs and its lock is free.
CanCall(t) ==
  /\ t \in Users
  /\ user_timers_lock = NULL
  /\ ~client[t].doomed

sys_timer_settime(t, v, i, absolute) ==
  /\ CanCall(t) /\ client[t].pc = "attached"
  /\ Careful => ~kernel.timer[t].firing
  /\ kernel' = IF v = 0 THEN Disarm(kernel, t)
               ELSE Set(kernel, t, v, i, absolute)
  /\ UNCHANGED <<jobs, run, client, user_timers_lock>>

sys_timer_delete(t) ==
  /\ CanCall(t) /\ client[t].pc = "attached"
  /\ user_timers_lock' = t
  /\ kernel' = Unlink(kernel, t)
  /\ Becomes(t, "cancel")
  /\ UNCHANGED <<jobs, run>>

DeleteEnds(t) ==
  /\ t \in Users /\ client[t].pc = "cancel"
  /\ ~kernel.timer[t].firing
  /\ kernel' = Check(kernel, ~kernel.timer[t].active)
  /\ user_timers_lock' = NULL
  /\ Becomes(t, "detached")
  /\ UNCHANGED <<jobs, run>>

sys_timer_create(t) ==
  /\ CanCall(t) /\ client[t].pc = "detached"
  /\ Becomes(t, "attached")
  /\ UNCHANGED <<kernel, jobs, run, user_timers_lock>>

\* The last thread of the process exits: ScheduleDeath.
ScheduleDeath ==
  /\ user_timers_lock = NULL
  /\ \A t \in Users : ~client[t].doomed
  /\ client' = [t \in Timers |-> [client[t] EXCEPT !.doomed = @ \/ t \in Users]]
  /\ jobs' = Append(jobs, ExitJob)
  /\ UNCHANGED <<kernel, run, user_timers_lock>>

\* DeleteTimers, in the worker thread: Cancel and Detach each timer.
DeleteTimer ==
  /\ At("worker", "delete")
  /\ IF \E t \in Users : client[t].pc = "attached"
     THEN \E t \in Users :
            /\ client[t].pc = "attached"
            /\ kernel' = Unlink(kernel, t)
            /\ run' = [run EXCEPT !["worker"] =
                         [pc |-> "cancel", timer |-> t, next |-> NULL]]
     ELSE Goto("worker", "idle") /\ UNCHANGED kernel
  /\ UNCHANGED <<jobs, client, user_timers_lock>>

TimerDeleted ==
  LET t == run["worker"].timer
  IN /\ At("worker", "cancel")
     /\ ~kernel.timer[t].firing
     /\ kernel' = Check(kernel, ~kernel.timer[t].active)
     /\ Becomes(t, "detached")
     /\ run' = [run EXCEPT !["worker"] =
                  [pc |-> "delete", timer |-> NULL, next |-> NULL]]
     /\ UNCHANGED <<jobs, user_timers_lock>>

\* An object is made and arms its timer.
ArmObject(t, v) ==
  /\ t \in Objects
  /\ ~client[t].armed
  /\ kernel' = Set(IF client[t].pc = "live" THEN kernel
                   ELSE Put(kernel, t, BlankTimer), t, v, 0, FALSE)
  /\ client' = [client EXCEPT ![t] =
                  [pc |-> "live", armed |-> TRUE, doomed |-> FALSE]]
  /\ UNCHANGED <<jobs, run, user_timers_lock>>

\* The object is given up: deleted now if its timer is not armed or TryCancel
\* succeeds, otherwise by the callback.
DropObject(t) ==
  LET safe == ~client[t].armed \/ kernel.timer[t].active
  IN /\ t \in Objects
     /\ client[t].pc = "live" /\ ~client[t].doomed
     /\ kernel' = Unlink(kernel, t)
     /\ client' = [client EXCEPT ![t] =
                     IF safe
                     THEN [pc |-> "idle", armed |-> FALSE, doomed |-> FALSE]
                     ELSE [@ EXCEPT !.doomed = TRUE]]
     /\ UNCHANGED <<jobs, run, user_timers_lock>>

-----------------------------------------------------------------------------
InterruptStep ==
  \/ WorkerTop \/ WorkerClear \/ WorkerTake \/ WorkerWake
  \/ Detach \/ Chain \/ Finish

RunnerStep(r) ==
  \/ FireBegin(r) \/ FireEnd(r)
  \/ PollCallback(r) \/ UserCallback(r) \/ ObjectCallback(r)

Owner(t) ==
  \/ \E v \in Delays, absolute \in BOOLEAN : Wait(t, v, absolute)
  \/ WaitEnds(t) \/ CancelEnds(t)
  \/ \E v \in Delays \cup {0}, i \in Intervals, absolute \in BOOLEAN :
       sys_timer_settime(t, v, i, absolute)
  \/ sys_timer_delete(t) \/ DeleteEnds(t) \/ sys_timer_create(t)
  \/ \E v \in Delays : ArmObject(t, v)
  \/ DropObject(t)

Next ==
  \/ \E d \in Durations : Advance(d)
  \/ \E now \in SetTimes : SetTime(now)
  \/ InterruptStep \/ WorkerJob
  \/ \E r \in Runners : RunnerStep(r)
  \/ \E t \in Timers : Owner(t)
  \/ ScheduleDeath \/ DeleteTimer \/ TimerDeleted

\* The two threads run again and again, and so does a thread in Cancel.  Each
\* of their steps leaves its place in the code, so that a thread does not stay
\* where it can go on is its weak fairness.
CanRun(r) ==
  /\ ~(At(r, "sleep") /\ ~kernel.futex_woken)
  /\ ~(At(r, "idle") /\ jobs = <<>>)
  /\ ~(At(r, "callback") /\ run[r].timer \in Users /\ user_timers_lock # NULL)
  /\ ~(At(r, "cancel") /\ kernel.timer[run[r].timer].firing)

Fairness ==
  /\ \A r \in Runners, pc \in Steps : []<>~(At(r, pc) /\ CanRun(r))
  /\ \A t \in Timers \ Objects :
       []<>~(client[t].pc = "cancel" /\ ~kernel.timer[t].firing)

Spec == Init /\ [][Next]_vars
FairSpec == Spec /\ Fairness

-----------------------------------------------------------------------------
(* Properties. *)

\* A timer is armed if it is in one of the lists, once.  The delays that
\* RegisterDelay, UnlinkDelay and TriggerDelay keep between neighbours add up
\* to the time that is really left, also for a periodic timer that fired late
\* or several times in one interrupt; absolute timers are in order.
ListsExact ==
  LET delay == kernel.delay_timer
      absolute == kernel.absolute_timer
      Times(t) == Cardinality({i \in DOMAIN delay : delay[i] = t})
                  + Cardinality({i \in DOMAIN absolute : absolute[i] = t})
  IN /\ \A t \in Timers :
          Times(t) = IF kernel.timer[t].active THEN 1 ELSE 0
     /\ \A i \in DOMAIN delay :
          Until(kernel, i)
            = kernel.timer[delay[i]].due - kernel.current_advancement
     /\ \A i, j \in DOMAIN absolute :
          i < j => kernel.timer[absolute[i]].value
                     <= kernel.timer[absolute[j]].value

\* In how many places the callback of t is due, or due or running.
In(r, t, steps) == IF run[r].timer = t /\ run[r].pc \in steps THEN 1 ELSE 0

PlacesDue(t) ==
  LET Times(seq) == Cardinality({i \in DOMAIN seq : seq[i] = t})
  IN Times(Linked(kernel, kernel.first))
     + Times(Linked(kernel, run["interrupt"].next))
     + Times(jobs) + In("interrupt", t, {"begin"}) + In("worker", t, {"begin"})

Places(t) ==
  PlacesDue(t) + In("interrupt", t, {"callback", "end"})
               + In("worker", t, {"callback", "end"})

\* TIMER_FIRING is set exactly while the callback is due or running, and it
\* is so in one place only: in the list for the interrupt worker, in the list
\* it has detached, in the worker thread's queue, or in Clock__FireTimer.
FiringPlaced ==
  \A t \in Timers :
    IF TIMER_FUNC_MAY_DEALLOCATE_TIMER(t) THEN Places(t) <= 1
    ELSE Places(t) = IF kernel.timer[t].firing THEN 1 ELSE 0

\* When Cancel has returned, or the object has been deleted, nothing refers to
\* the timer any more, so its memory may be used for something else: while the
\* callback is due, TIMER_FIRING says so, and it is due once only.  No assertion
\* of timer.cpp and clock.cpp fails.
SafeToFree ==
  /\ FiringPlaced
  /\ \A t \in Timers \ Users :
       client[t].pc = "idle" => ~kernel.timer[t].active /\ Places(t) = 0
  /\ \A t \in Users :
       client[t].pc = "detached" => ~kernel.timer[t].active /\ Places(t) = 0
  /\ ~kernel.panic

\* Two deadlocks that the code can reach.  sys_timer_delete holds
\* user_timers_lock and waits for a callback that has not taken it yet; and the
\* worker thread, that deletes the timers of a dead process, waits for a
\* callback that is in its own queue.
DeleteDeadlock ==
  \E t \in Users :
    /\ user_timers_lock = t
    /\ PlacesDue(t) > 0 \/ \E r \in Runners : run[r].timer = t /\ At(r, "callback")

ExitDeadlock ==
  At("worker", "cancel") /\ \E i \in DOMAIN jobs : jobs[i] = run["worker"].timer

Deadlocked == DeleteDeadlock \/ ExitDeadlock

\* A timer that has fired gets its callback called: no firing is lost between
\* the interrupt, the interrupt worker that may be about to sleep or to leave
\* InterruptWork, and the worker thread.
CallbacksRun ==
  \A t \in Timers \ Sleepers :
    PlacesDue(t) > 0 ~>
      (\E r \in Runners : run[r].timer = t /\ At(r, "callback")) \/ Deadlocked

\* Somebody is in Cancel: its owner, or the worker that deletes the timers.
Cancelling(t) ==
  client[t].pc = "cancel" \/ (At("worker", "cancel") /\ run["worker"].timer = t)

\* Cancel returns: "the timer is cancelled if pending, and if it's firing,
\* then waiting for it to complete".  The two deadlocks are the only reasons
\* why it may not.  (TryCancel does not wait.)
CancelsReturn ==
  \A t \in Timers \ Objects : Cancelling(t) ~> ~Cancelling(t) \/ Deadlocked

\* What the comment in timer.h promises holds neither in sys_timer_delete
\* nor, in spite of the warning in process.cpp that a function in a worker
\* thread must not wait for another, in the worker that deletes the timers of a
\* process.
DeleteCompletes ==
  \A t \in Timers : client[t].pc = "cancel" ~> client[t].pc # "cancel"

ExitCompletes == At("worker", "cancel") ~> ~At("worker", "cancel")

=============================================================================
