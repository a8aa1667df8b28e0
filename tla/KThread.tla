------------------------------ MODULE KThread ------------------------------
(***************************************************************************)
(* The kernel's sleeping mutex and condition variable (kernel/kthread.cpp) *)
(* on top of the kutex wait list and the scheduler's yield interrupt       *)
(* (kernel/scheduler.cpp).                                                 *)
(*                                                                         *)
(* One mutex and one condition variable used with it.  Different kthread   *)
(* objects meet only in the global kutex list, where every operation       *)
(* filters by address, so one of each shows every interaction.  The kernel *)
(* runs on one processor and is preemptible: each atomic instruction, each *)
(* stretch of code with interrupts disabled and each interrupt handler is  *)
(* one step, and between two steps of a thread any other thread may run.   *)
(*                                                                         *)
(* The kutex list is the set of threads whose kutex_address is not "none". *)
(* Its order never shows: a mutex wakes every waiter, and the address of a *)
(* condition variable element, which lives on its waiter's stack, has at   *)
(* most that waiter.                                                       *)
(***************************************************************************)
EXTENDS Naturals, Sequences

CONSTANTS Threads,      \* the kernel threads using the mutex
          TimerThreads  \* the threads that have armed a futex timeout

ASSUME ThreadsAssumption == TimerThreads \subseteq Threads

UNLOCKED == 0
LOCKED == 1
CONTENDED == 2

VARIABLES
  mutex,           \* the kthread_mutex_t
  cond,            \* the kthread_cond_t: threads whose elem is linked, in order
  woken,           \* woken[t]: elem.woken of the elem on t's stack
  kutex_address,   \* what t waits for in the kutex list, "none" if not in it
  kutex_woken,     \* Thread::kutex_woken
  timer_woken,     \* Thread::timer_woken
  state,           \* Thread::state
  signal_pending,  \* whether Signal::IsPending() would hold for t
  pc,              \* the next step of t
  call,            \* the call t is executing
  desired,         \* kthread_mutex_lock's local variable
  elem             \* kthread_cond_signal's local variable: the elem's owner

vars == <<mutex, cond, woken, kutex_address, kutex_woken, timer_woken, state,
          signal_pending, pc, call, desired, elem>>

lockVars == <<mutex, desired>>
condVars == <<cond, woken, elem>>
kutexVars == <<kutex_address, kutex_woken, timer_woken>>

Addresses == {"mutex", "elem"}
LockCalls == {"lock", "lock_signal"}
WaitCalls == {"cond_wait", "cond_wait_signal"}
NotifyCalls == {"cond_signal", "cond_broadcast"}
KutexSteps == {"test_value", "yield", "dequeue"}
Steps == KutexSteps \cup
         {"outside", "lock_cas", "contend_cas", "enqueue", "inside", "unlock",
          "wake_all", "test_woken", "enqueue_elem", "unlink", "pop", "wake_elem"}

\* Lists: whether e is linked, and the list with the i-th entry unlinked.
Contains(s, e) == \E i \in 1..Len(s) : s[i] = e
RemoveAt(s, i) == SubSeq(s, 1, i - 1) \o SubSeq(s, i + 1, Len(s))

Goto(t, step) == pc' = [pc EXCEPT ![t] = step]
Return(t) == call' = [call EXCEPT ![t] = "none"]

\* Entering kthread_mutex_lock, also from the end of kthread_cond_wait.
BeginLock(t) ==
  /\ desired' = [desired EXCEPT ![t] = LOCKED]
  /\ Goto(t, "lock_cas")

-----------------------------------------------------------------------------
(* The scheduler: waking and sleeping.                                     *)

\* SetThreadState(thread, RUNNABLE, true) for every thread of a set: only a
\* sleeping thread changes state.
WakeThreads(S) ==
  state' = [t \in Threads |-> IF t \in S THEN "RUNNABLE" ELSE state[t]]

\* Mutant: the handler forgets a wakeup that came before the interrupt.
InterruptYieldCPU_Blind(t, signal) ==
  state' = [state EXCEPT ![t] =
              IF \/ timer_woken[t]
                 \/ signal /\ signal_pending[t]
              THEN "RUNNABLE" ELSE "FUTEX_WAITING"]

\* int $129 with YIELD_OPERATION_WAIT_KUTEX or _WAIT_KUTEX_SIGNAL.
InterruptYieldCPU(t, signal) ==
  state' = [state EXCEPT ![t] =
              IF \/ kutex_woken[t] \/ timer_woken[t]
                 \/ signal /\ signal_pending[t]
              THEN "RUNNABLE" ELSE "FUTEX_WAITING"]

\* Scheduler::SetSignalPending(t, 1).
SetSignalPending(t) ==
  /\ ~signal_pending[t]
  /\ signal_pending' = [signal_pending EXCEPT ![t] = TRUE]
  /\ WakeThreads({t})
  /\ UNCHANGED <<lockVars, condVars, kutexVars, pc, call>>

\* The thread is back in user space and runs its signal handlers.
HandleSignals(t) ==
  /\ pc[t] = "outside"
  /\ signal_pending[t]
  /\ signal_pending' = [signal_pending EXCEPT ![t] = FALSE]
  /\ UNCHANGED <<lockVars, condVars, kutexVars, state, pc, call>>

\* The timeout of a futex wait fires while its thread is somewhere in the
\* kernel: futex_timeout.
FutexTimeout(t) ==
  /\ t \in TimerThreads
  /\ ~timer_woken[t]
  /\ timer_woken' = [timer_woken EXCEPT ![t] = TRUE]
  /\ WakeThreads({t})
  /\ UNCHANGED <<lockVars, condVars, kutex_address, kutex_woken,
                 signal_pending, pc, call>>

-----------------------------------------------------------------------------
(* kutex_wait and kutex_wake.                                              *)

\* The signal argument of the kutex_wait t is in.
KutexSignal(t) ==
  \/ call[t] = "lock_signal"
  \/ call[t] = "cond_wait_signal" /\ kutex_address[t] = "elem"

\* The first half of kutex_wait: join the list, forget an earlier timeout.
KutexEnqueue(t, address) ==
  /\ kutex_address' = [kutex_address EXCEPT ![t] = address]
  /\ kutex_woken' = [kutex_woken EXCEPT ![t] = FALSE]
  /\ timer_woken' = [timer_woken EXCEPT ![t] = FALSE]
  /\ Goto(t, "test_value")

\* Mutant: sleep without looking at the value again.
KutexTestValue_Skipped(t) ==
  /\ pc[t] = "test_value"
  /\ Goto(t, "yield")
  /\ UNCHANGED <<lockVars, condVars, kutexVars, state, signal_pending, call>>

\* The load that decides whether to sleep.
KutexTestValue(t) ==
  /\ pc[t] = "test_value"
  /\ IF \/ kutex_address[t] = "mutex" /\ mutex = CONTENDED
        \/ kutex_address[t] = "elem" /\ woken[t] = 0
     THEN Goto(t, "yield")
     ELSE Goto(t, "dequeue")
  /\ UNCHANGED <<lockVars, condVars, kutexVars, state, signal_pending, call>>

KutexYield(t) ==
  /\ pc[t] = "yield"
  /\ InterruptYieldCPU(t, KutexSignal(t))
  /\ Goto(t, "dequeue")
  /\ UNCHANGED <<lockVars, condVars, kutexVars, signal_pending, call>>

\* The second half of kutex_wait, and the caller's reaction to its result.
KutexDequeue(t) ==
  LET result == kutex_woken[t] \/ ~KutexSignal(t) \/ ~signal_pending[t]
      onMutex == kutex_address[t] = "mutex"
  IN /\ pc[t] = "dequeue"
     /\ state[t] = "RUNNABLE"
     /\ kutex_address' = [kutex_address EXCEPT ![t] = "none"]
     /\ kutex_woken' = [kutex_woken EXCEPT ![t] = FALSE]
     /\ \/ onMutex /\ result /\ Goto(t, "lock_cas") /\ UNCHANGED <<call, desired>>
        \/ onMutex /\ ~result /\ Goto(t, "outside") /\ Return(t)
             /\ UNCHANGED desired
        \/ ~onMutex /\ result /\ Goto(t, "test_woken") /\ UNCHANGED <<call, desired>>
        \/ ~onMutex /\ ~result /\ BeginLock(t) /\ UNCHANGED call
     /\ UNCHANGED <<mutex, condVars, timer_woken, state, signal_pending>>

\* kutex_wake with every thread of S in the list at the address.
KutexWake(S) ==
  /\ kutex_woken' = [t \in Threads |-> t \in S \/ kutex_woken[t]]
  /\ WakeThreads(S)

-----------------------------------------------------------------------------
(* The mutex.                                                              *)

\* kthread_mutex_lock or kthread_mutex_lock_signal is called.
MutexLock(t) ==
  /\ pc[t] = "outside"
  /\ \E c \in LockCalls : call' = [call EXCEPT ![t] = c]
  /\ BeginLock(t)
  /\ UNCHANGED <<mutex, condVars, kutexVars, state, signal_pending>>

\* Mutant: a plain store instead of the compare-and-exchange.
MutexTryLock_Store(t) ==
  /\ pc[t] = "outside"
  /\ mutex' = LOCKED
  /\ Goto(t, "inside")
  /\ UNCHANGED <<desired, condVars, kutexVars, state, signal_pending, call>>

\* kthread_mutex_trylock succeeds; when it fails it changes nothing.
MutexTryLock(t) ==
  /\ pc[t] = "outside"
  /\ mutex = UNLOCKED
  /\ mutex' = LOCKED
  /\ Goto(t, "inside")
  /\ UNCHANGED <<desired, condVars, kutexVars, state, signal_pending, call>>

\* The compare-and-exchange of the while condition.  The value it loads
\* when it fails decides what comes next.
MutexLockCas(t) ==
  /\ pc[t] = "lock_cas"
  /\ \/ /\ mutex = UNLOCKED
        /\ mutex' = desired[t]
        /\ IF call[t] \in WaitCalls
           THEN Goto(t, "unlink") /\ UNCHANGED call
           ELSE Goto(t, "inside") /\ Return(t)
     \/ /\ mutex = LOCKED
        /\ Goto(t, "contend_cas")
        /\ UNCHANGED <<mutex, call>>
     \/ /\ mutex = CONTENDED
        /\ Goto(t, "enqueue")
        /\ UNCHANGED <<mutex, call>>
  /\ UNCHANGED <<desired, condVars, kutexVars, state, signal_pending>>

\* Mutant: an atomic addition in place of the compare-and-exchange.
MutexContendCas_Add(t) ==
  /\ pc[t] = "contend_cas"
  /\ mutex' = mutex + LOCKED
  /\ Goto(t, "enqueue")
  /\ UNCHANGED <<desired, condVars, kutexVars, state, signal_pending, call>>

\* The compare-and-exchange from LOCKED to CONTENDED.
MutexContendCas(t) ==
  /\ pc[t] = "contend_cas"
  /\ \/ /\ mutex = LOCKED
        /\ mutex' = CONTENDED
        /\ Goto(t, "enqueue")
     \/ /\ mutex # LOCKED
        /\ Goto(t, "lock_cas")
        /\ UNCHANGED mutex
  /\ UNCHANGED <<desired, condVars, kutexVars, state, signal_pending, call>>

\* desired = CONTENDED and the call of kutex_wait(mutex, CONTENDED, signal).
MutexEnqueue(t) ==
  /\ pc[t] = "enqueue"
  /\ desired' = [desired EXCEPT ![t] = CONTENDED]
  /\ KutexEnqueue(t, "mutex")
  /\ UNCHANGED <<mutex, condVars, state, signal_pending, call>>

\* Where a thread goes when kthread_mutex_unlock returns.
AfterUnlock(t) == IF call[t] \in WaitCalls THEN "test_woken" ELSE "outside"

\* The exchange of kthread_mutex_unlock, called by the owner or by
\* kthread_cond_wait.
MutexUnlock(t) ==
  /\ pc[t] \in {"inside", "unlock"}
  /\ mutex' = UNLOCKED
  /\ Goto(t, IF mutex = CONTENDED THEN "wake_all" ELSE AfterUnlock(t))
  /\ UNCHANGED <<desired, condVars, kutexVars, state, signal_pending, call>>

\* kutex_wake(mutex, INT_MAX).
MutexWake(t) ==
  /\ pc[t] = "wake_all"
  /\ KutexWake({u \in Threads : kutex_address[u] = "mutex"})
  /\ Goto(t, AfterUnlock(t))
  /\ UNCHANGED <<lockVars, condVars, kutex_address, timer_woken,
                 signal_pending, call>>

-----------------------------------------------------------------------------
(* The condition variable; every caller in the kernel holds the mutex.     *)

\* kthread_cond_wait(_signal) up to its unlock: link an elem at the end.
CondWait(t) ==
  /\ pc[t] = "inside"
  /\ \E c \in WaitCalls :
       /\ c = "cond_wait_signal" => ~signal_pending[t]
       /\ call' = [call EXCEPT ![t] = c]
  /\ cond' = Append(cond, t)
  /\ woken' = [woken EXCEPT ![t] = 0]
  /\ Goto(t, "unlock")
  /\ UNCHANGED <<lockVars, elem, kutexVars, state, signal_pending>>

\* The condition of the wait loop: sleep again, or take the mutex back.
CondTestWoken(t) ==
  /\ pc[t] = "test_woken"
  /\ \/ woken[t] = 0 /\ Goto(t, "enqueue_elem") /\ UNCHANGED desired
     \/ woken[t] = 1 /\ BeginLock(t)
  /\ UNCHANGED <<mutex, condVars, kutexVars, state, signal_pending, call>>

\* The call of kutex_wait(&elem.woken, 0, signal).
CondEnqueue(t) ==
  /\ pc[t] = "enqueue_elem"
  /\ KutexEnqueue(t, "elem")
  /\ UNCHANGED <<lockVars, condVars, state, signal_pending, call>>

Position(t) == CHOOSE i \in 1..Len(cond) : cond[i] = t

\* Mutant: an interrupted waiter leaves its elem in the list.
CondUnlink_Forgotten(t) ==
  /\ pc[t] = "unlink"
  /\ Goto(t, "inside")
  /\ Return(t)
  /\ UNCHANGED <<lockVars, condVars, kutexVars, state, signal_pending>>

\* The end of kthread_cond_wait: an elem nobody woke is taken out.
CondUnlink(t) ==
  /\ pc[t] = "unlink"
  /\ cond' = IF woken[t] = 0 THEN RemoveAt(cond, Position(t)) ELSE cond
  /\ Goto(t, "inside")
  /\ Return(t)
  /\ UNCHANGED <<lockVars, woken, elem, kutexVars, state, signal_pending>>

\* kthread_cond_signal or kthread_cond_broadcast is called.
CondNotify(t) ==
  /\ pc[t] = "inside"
  /\ \E c \in NotifyCalls : call' = [call EXCEPT ![t] = c]
  /\ Goto(t, "pop")
  /\ UNCHANGED <<lockVars, condVars, kutexVars, state, signal_pending>>

\* kthread_cond_signal: take the first elem out and store 1 in its woken.
CondPop(t) ==
  /\ pc[t] = "pop"
  /\ \/ /\ cond = <<>>
        /\ Goto(t, "inside")
        /\ Return(t)
        /\ UNCHANGED condVars
     \/ /\ cond # <<>>
        /\ elem' = [elem EXCEPT ![t] = Head(cond)]
        /\ cond' = Tail(cond)
        /\ woken' = [woken EXCEPT ![Head(cond)] = 1]
        /\ Goto(t, "wake_elem")
        /\ UNCHANGED call
  /\ UNCHANGED <<lockVars, kutexVars, state, signal_pending>>

\* kutex_wake(&elem->woken, 1); a broadcast goes on with the next elem.
CondWake(t) ==
  /\ pc[t] = "wake_elem"
  /\ KutexWake({u \in {elem[t]} : kutex_address[u] = "elem"})
  /\ IF call[t] = "cond_broadcast"
     THEN Goto(t, "pop") /\ UNCHANGED call
     ELSE Goto(t, "inside") /\ Return(t)
  /\ UNCHANGED <<lockVars, condVars, kutex_address, timer_woken,
                 signal_pending>>

-----------------------------------------------------------------------------
Init ==
  /\ mutex = UNLOCKED
  /\ cond = <<>>
  /\ woken = [t \in Threads |-> 0]
  /\ kutex_address = [t \in Threads |-> "none"]
  /\ kutex_woken = [t \in Threads |-> FALSE]
  /\ timer_woken = [t \in Threads |-> FALSE]
  /\ state = [t \in Threads |-> "RUNNABLE"]
  /\ signal_pending = [t \in Threads |-> FALSE]
  /\ pc = [t \in Threads |-> "outside"]
  /\ call = [t \in Threads |-> "none"]
  /\ desired = [t \in Threads |-> LOCKED]
  /\ elem = [t \in Threads |-> t]

\* The steps of t inside a kthread call; a sleeping thread takes none.
CallStep(t) ==
  \/ KutexTestValue(t) \/ KutexYield(t) \/ KutexDequeue(t)
  \/ MutexLockCas(t) \/ MutexContendCas(t) \/ MutexEnqueue(t)
  \/ pc[t] = "unlock" /\ MutexUnlock(t)
  \/ MutexWake(t)
  \/ CondTestWoken(t) \/ CondEnqueue(t) \/ CondUnlink(t) \/ CondPop(t)
  \/ CondWake(t)

\* The owner gives the mutex up: it unlocks, or waits on the condition.
Leave(t) == pc[t] = "inside" /\ (MutexUnlock(t) \/ CondWait(t))

\* The calls a client may make.
ClientStep(t) == MutexLock(t) \/ MutexTryLock(t) \/ CondNotify(t) \/ Leave(t)

Environment(t) == SetSignalPending(t) \/ HandleSignals(t) \/ FutexTimeout(t)

Next == \E t \in Threads : CallStep(t) \/ ClientStep(t) \/ Environment(t)

Spec == Init /\ [][Next]_vars

\* The carousel runs every runnable thread again and again, so a thread
\* finishes its calls; and clients do not keep the mutex forever.
Fairness == \A t \in Threads : WF_vars(CallStep(t)) /\ SF_vars(Leave(t))

FairSpec == Spec /\ Fairness

-----------------------------------------------------------------------------
(* Properties.                                                             *)

TypeOK ==
  /\ mutex \in {UNLOCKED, LOCKED, CONTENDED}
  /\ cond \in Seq(Threads)
  /\ woken \in [Threads -> {0, 1}]
  /\ kutex_address \in [Threads -> Addresses \cup {"none"}]
  /\ kutex_woken \in [Threads -> BOOLEAN]
  /\ timer_woken \in [Threads -> BOOLEAN]
  /\ state \in [Threads -> {"RUNNABLE", "FUTEX_WAITING"}]
  /\ signal_pending \in [Threads -> BOOLEAN]
  /\ pc \in [Threads -> Steps]
  /\ call \in [Threads -> LockCalls \cup WaitCalls \cup NotifyCalls \cup {"none"}]
  /\ desired \in [Threads -> {LOCKED, CONTENDED}]
  /\ elem \in [Threads -> Threads]

\* t has the mutex: from a successful compare-and-exchange to the exchange.
Owns(t) == pc[t] \in {"inside", "unlock", "unlink", "pop", "wake_elem"}

\* Two threads never both own the mutex, whatever the order of the
\* compare-and-exchanges, wakeups, signals and timeouts.
MutualExclusion == \A t, u \in Threads : Owns(t) /\ Owns(u) => t = u

\* t has decided to sleep on its kutex and nothing has woken it yet.
Committed(t) ==
  /\ ~kutex_woken[t]
  /\ \/ pc[t] = "yield"
     \/ pc[t] = "dequeue" /\ state[t] = "FUTEX_WAITING"

\* A thread asleep in kthread_mutex_lock is always going to be woken: the
\* mutex is CONTENDED, so its owner's exchange will see it, or an owner has
\* seen it and is about to call kutex_wake.
NoLostMutexWakeup ==
  \A t \in Threads :
    Committed(t) /\ kutex_address[t] = "mutex" =>
      mutex = CONTENDED \/ \E u \in Threads : pc[u] = "wake_all"

\* A thread asleep in kthread_cond_wait either still has its elem in the
\* list, where a later signal finds it, or the thread that took the elem out
\* is about to call kutex_wake for it.
NoLostCondWakeup ==
  \A t \in Threads :
    Committed(t) /\ kutex_address[t] = "elem" =>
      \/ woken[t] = 0 /\ Contains(cond, t)
      \/ \E u \in Threads : pc[u] = "wake_elem" /\ elem[u] = t

Distinct(s) == \A i, j \in 1..Len(s) : s[i] = s[j] => i = j

\* t's stack frame in kthread_cond_wait holds an elem.
HasElem(t) ==
  \/ pc[t] = "unlink"
  \/ call[t] \in WaitCalls /\ ~Owns(t)
  \/ pc[t] = "unlock"

\* The condition variable's list links exactly the elems of the waiters not
\* yet signalled, each once: it never points into a stack frame that is gone,
\* and loses no waiter, also when waiters interrupted by a signal unlink
\* themselves while others are signalled.
CondListExact ==
  /\ Distinct(cond)
  /\ \A t \in Threads :
       Contains(cond, t) <=> HasElem(t) /\ woken[t] = 0

\* Which call a thread is in at each of its steps, and when it is in the
\* kutex list.
CallStructure ==
  \A t \in Threads :
    /\ kutex_address[t] = "none" <=> pc[t] \notin KutexSteps
    /\ kutex_address[t] = "elem" => call[t] \in WaitCalls
    /\ state[t] = "FUTEX_WAITING" => pc[t] = "dequeue"
    /\ pc[t] \in {"outside", "inside"} => call[t] = "none"
    /\ pc[t] \in {"unlock", "unlink", "test_woken", "enqueue_elem"} =>
         call[t] \in WaitCalls
    /\ pc[t] \in {"pop", "wake_elem"} => call[t] \in NotifyCalls
    /\ pc[t] = "wake_all" => call[t] \in WaitCalls \cup {"none"}
    /\ pc[t] \in KutexSteps \cup {"lock_cas", "contend_cas", "enqueue"} =>
         call[t] \in LockCalls \cup WaitCalls

\* The mutex word tells whether a thread owns the mutex.
LockedIffOwned == mutex # UNLOCKED <=> \E t \in Threads : Owns(t)

\* The inductive invariant of the proofs.
IInv ==
  /\ TypeOK
  /\ CallStructure
  /\ LockedIffOwned
  /\ MutualExclusion
  /\ CondListExact
  /\ NoLostMutexWakeup
  /\ NoLostCondWakeup

Locking(t) == \/ pc[t] \in {"lock_cas", "contend_cas", "enqueue"}
              \/ kutex_address[t] = "mutex"

\* A thread waits in kthread_mutex_lock forever only if it is overtaken
\* forever: some other thread takes and releases the mutex again and again.
LockStarvesOnlyByOvertaking ==
  \A t \in Threads :
    <>[]Locking(t) => \E u \in Threads \ {t} : []<>Owns(u) /\ []<>~Owns(u)

\* A waiter whose elem was signalled gets out of its sleep and goes on to
\* take the mutex back.
SignalledWaiterResumes ==
  \A t \in Threads :
    (HasElem(t) /\ woken[t] = 1) ~> (Locking(t) \/ Owns(t))

\* The monitor this module implements.  A thread is between its exchange and
\* its next entry "out" or "waiting", also while it still wakes others.
MonitorStatus(t) ==
  IF Owns(t) THEN "in"
  ELSE IF call[t] \in LockCalls THEN "entering"
  ELSE IF call[t] \notin WaitCalls THEN "out"
  ELSE IF Locking(t) \/ woken[t] = 1 THEN "reentering" ELSE "waiting"

\* A list without its entry in S, if it has one.
Unlinked(s, S) ==
  IF \E i \in 1..Len(s) : s[i] \in S
  THEN RemoveAt(s, CHOOSE i \in 1..Len(s) : s[i] \in S)
  ELSE s

Owners == {t \in Threads : Owns(t)}

\* The owner's elem is linked before the exchange and unlinked only after the
\* compare-and-exchange; the monitor's queue never has it.
M == INSTANCE Monitor WITH
       inside <- Owners,
       queue <- Unlinked(cond, Owners),
       status <- [t \in Threads |-> MonitorStatus(t)]

\* The compare-and-exchanges, the list and the wakeups together behave as a
\* monitor with a FIFO queue: waiting releases the mutex and joins the queue
\* in one step, and a signal is never given to two waiters or to none.
ImplementsMonitor == M!Spec

=============================================================================
