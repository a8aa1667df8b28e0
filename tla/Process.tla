------------------------------ MODULE Process ------------------------------
(***************************************************************************)
(* The process family (kernel/process.cpp): fork, exit, waitpid, process   *)
(* groups, sessions and nested inits, and the memory of Process objects.   *)
(*                                                                         *)
(* An object of class Process is its own process group, session and init   *)
(* as well: after the process has been waited for, it stays in limbo until *)
(* it has no member left, and then deletes itself.                         *)
(*                                                                         *)
(* process_family_lock protects all of it, so a locked section is one step *)
(* on the record family.  SessionRemoveMember releases the lock in the     *)
(* middle when the session has become empty, to talk to the terminal; what *)
(* its callers do afterwards is a step of its own.  LastPrayer runs in the *)
(* worker thread of Worker.tla, one process at a time; its jobs are a set  *)
(* here.  Signals other than SIGKILL only interrupt a wait.                *)
(***************************************************************************)
EXTENDS Naturals, Sequences, FiniteSets, SequencesExt

CONSTANTS system,     \* the kernel's process, pid 0
          init0,      \* the first process
          Children,   \* the other Process objects, in the order of their pids
          Exits,      \* the processes that exit
          Threaded,   \* the processes that make a second thread
          Waits,      \* how waitpid is called: a subset of Kinds
          Careful     \* whether a process whose pid other processes have as
                      \* their group does not call setsid and setinit

NULL == "null"
Kinds == {"any", "pid", "group"}
Procs == {system, init0} \cup Range(Children)
Threads == Procs \X {1, 2}

ASSUME ProcessAssumption ==
  /\ Waits \subseteq Kinds /\ Threaded \subseteq Procs
  /\ system # init0 /\ {system, init0} \cap Range(Children) = {}
  /\ NULL \notin Procs

VARIABLES family,  \* the objects, and whether an assertion failed
          thread,  \* the threads of processes
          jobs,    \* the processes whose LastPrayer is scheduled
          worker   \* the worker thread

vars == <<family, thread, jobs, worker>>

\* memory: "new", then "used", then "freed"; pid: whether ptable has it.
BlankProcess ==
  [memory |-> "new", pid |-> FALSE, parent |-> NULL,
   children |-> <<>>, zombies |-> <<>>,
   group |-> NULL, session |-> NULL, init |-> NULL,
   group_first |-> {}, session_first |-> {}, init_first |-> {},
   zombie_cond |-> {}, no_zombify |-> FALSE, limbo |-> FALSE,
   is_zombie |-> FALSE, is_init_exiting |-> FALSE, has_run_exec |-> FALSE]

NoThread == [pc |-> "none", killed |-> FALSE, arg |-> NULL, kind |-> NULL]
Running == [NoThread EXCEPT !.pc = "run"]
Idle == [pc |-> "idle", process |-> NULL, zombie |-> NULL, session |-> NULL]

Panic(w, cause) == [w EXCEPT !.panic = IF @ = NULL THEN cause ELSE @]
Check(w, holds, cause) == IF holds THEN w ELSE Panic(w, cause)
Without(list, p) == SelectSeq(list, LAMBDA q : q # p)

-----------------------------------------------------------------------------
(* Process objects, under process_family_lock. *)

Access(w, p) == Check(w, w.proc[p].memory = "used", "freed")

\* ~Process.
Delete(w, p) ==
  LET f == w.proc[p]
  IN [Check(w, /\ {f.parent, f.group, f.session, f.init} = {NULL}
               /\ f.children = <<>> /\ f.zombies = <<>>
               /\ f.group_first \cup f.session_first \cup f.init_first = {},
            "destructor")
      EXCEPT !.proc[p] = [BlankProcess EXCEPT !.memory = "freed"]]

HasMembers(f) == f.group_first \cup f.session_first \cup f.init_first # {}
IsLimboDone_NoSession(w, p) ==
  w.proc[p].limbo /\ w.proc[p].group_first = {}
IsLimboDone(w, p) == w.proc[p].limbo /\ ~HasMembers(w.proc[p])
DeleteIfLimboDone(w, p) == IF IsLimboDone(w, p) THEN Delete(w, p) ELSE w

GroupRemoveMember(w, c) ==
  LET g == w.proc[c].group
  IN IF g = NULL THEN w
     ELSE DeleteIfLimboDone(
            [Access(w, g) EXCEPT !.proc[g].group_first = @ \ {c},
                                 !.proc[c].group = NULL], g)

\* SessionRemoveMember up to where it may release the lock, and the rest.
SessionUnlink(w, c) ==
  LET s == w.proc[c].session
  IN IF s = NULL THEN w
     ELSE [Access(w, s) EXCEPT !.proc[s].session_first = @ \ {c},
                               !.proc[c].session = NULL]

SessionUnlinked(w, s) ==
  IF s = NULL THEN w ELSE DeleteIfLimboDone(Access(w, s), s)

\* Whether SessionRemoveMember releases the lock.
Releases(w, s) == s # NULL /\ w.proc[s].session_first = {}

InitRemoveMember(w, c) ==
  LET i == w.proc[c].init
  IN IF i = NULL THEN w
     ELSE DeleteIfLimboDone(
            [Access(w, i) EXCEPT !.proc[i].init_first = @ \ {c},
                                 !.proc[c].init = NULL], i)

\* WaitedFor in two parts: until the process is out of its session s, and
\* after that.
WaitedForBegin(w, z) == SessionUnlink(GroupRemoveMember(w, z), z)

Forget(w, z) ==
  IF HasMembers(w.proc[z])
  THEN [w EXCEPT !.proc[z].parent = NULL, !.proc[z].limbo = TRUE]
  ELSE Delete([w EXCEPT !.proc[z].parent = NULL], z)

WaitedForEnd(w, z, s) ==
  Forget(InitRemoveMember(SessionUnlinked(w, s), z), z)

NotifyChildExit_Silent(w, p, c, zombify) ==
  [Access(w, p) EXCEPT
     !.proc[p].children = Without(@, c),
     !.proc[p].zombies = IF zombify THEN <<c>> \o @ ELSE @,
     !.proc[p].zombie_cond = IF zombify THEN {} ELSE @]

NotifyChildExit(w, p, c, zombify) ==
  [Access(w, p) EXCEPT
     !.proc[p].children = Without(@, c),
     !.proc[p].zombies = IF zombify THEN <<c>> \o @ ELSE @,
     !.proc[p].zombie_cond =
        IF zombify \/ w.proc[p].is_init_exiting THEN {} ELSE @]

-----------------------------------------------------------------------------
(* Process::LastPrayer, in the worker thread. *)

\* Init raises the orphans; each is put in front of the others.
Reparent(w, d) ==
  LET i == w.proc[d].init
      orphans == w.proc[d].children
  IN IF orphans = <<>> THEN w
     ELSE [w EXCEPT !.proc = [p \in Procs |->
             IF p = d THEN [w.proc[d] EXCEPT !.children = <<>>]
             ELSE IF p = i
             THEN [w.proc[i] EXCEPT !.children = Reverse(orphans) \o @]
             ELSE IF p \in Range(orphans)
             THEN [w.proc[p] EXCEPT !.parent = i, !.no_zombify = TRUE]
             ELSE w.proc[p]]]

\* What the worker has done, and where it waits for the lock.
Released(w, d, z, s) ==
  [family |-> w,
   worker |-> [pc |-> "released", process |-> d, zombie |-> z, session |-> s]]

Reaped(w, d, s) ==
  IF Releases(w, s) THEN Released(w, d, d, s)
  ELSE [family |-> WaitedForEnd(w, d, s), worker |-> Idle]

\* The parent is told, or nobody waits for the process.
Depart(w, d) ==
  IF w.proc[d].no_zombify
  THEN Reaped(WaitedForBegin(w, d), d, w.proc[d].session)
  ELSE [family |-> w, worker |-> Idle]

Notify(w, d) ==
  IF w.proc[d].parent = NULL THEN w
  ELSE NotifyChildExit(w, w.proc[d].parent, d, ~w.proc[d].no_zombify)

\* The zombies that are left are collected first.
RECURSIVE Collect(_, _)
RECURSIVE Collected(_, _, _, _)
Collected(w, d, z, s) ==
  IF Releases(w, s) THEN Released(w, d, z, s)
  ELSE Collect(WaitedForEnd(w, z, s), d)

Collect(w, d) ==
  IF w.proc[d].zombies = <<>> THEN Depart(Notify(w, d), d)
  ELSE LET z == Head(w.proc[d].zombies)
       IN Collected(WaitedForBegin(
                      [w EXCEPT !.proc[d].zombies = Tail(@),
                                !.proc[z].no_zombify = TRUE], z),
                    d, z, w.proc[z].session)

PrayerAssertions(w, d) ==
  LET f == w.proc[d]
  IN Check(Check(w, f.init # NULL, "no init"),
           /\ ~f.is_zombie
           /\ f.init = d => f.is_init_exiting /\ f.children = <<>>,
           "prayer")

Becomes(after) == family' = after.family /\ worker' = after.worker

LastPrayer(d) ==
  LET w == PrayerAssertions(family, d)
  IN /\ family.panic = NULL /\ worker.pc = "idle" /\ d \in jobs
     /\ jobs' = jobs \ {d}
     /\ IF w.panic # NULL THEN family' = w /\ UNCHANGED worker
        ELSE Becomes(Collect(Reparent(
               [w EXCEPT !.proc[d].is_zombie = TRUE], d), d))
     /\ UNCHANGED thread

\* The worker has the lock again.
LastPrayerResume ==
  LET d == worker.process
      z == worker.zombie
  IN /\ family.panic = NULL /\ worker.pc = "released"
     /\ IF z = d
        THEN Becomes([family |-> WaitedForEnd(family, d, worker.session),
                      worker |-> Idle])
        ELSE Becomes(Collect(WaitedForEnd(family, z, worker.session), d))
     /\ UNCHANGED <<thread, jobs>>

-----------------------------------------------------------------------------
(* Threads. *)

Active(t) == thread[t].pc \notin {"none", "gone"}
ActiveThreads(p) == {t \in Threads : t[1] = p /\ Active(t)}
In(t, pc) == thread[t].pc = pc

\* A failed assertion stops the machine.
Up == family.panic = NULL
At(t, pc) == Up /\ In(t, pc)
Set(t, state) == thread' = [thread EXCEPT ![t] = [state EXCEPT !.killed = thread[t].killed]]

\* A system call may begin: no SIGKILL is pending.
CanCall(t) == At(t, "run") /\ ~thread[t].killed /\ t[1] # system

\* sys_tfork, which looks for signals first.
TforkBegin(t, kind) ==
  /\ CanCall(t)
  /\ IF kind = "clone" THEN t[1] \in Threaded /\ thread[<<t[1], 2>>].pc = "none"
     ELSE \E c \in Range(Children) : family.proc[c].memory = "new"
  /\ Set(t, [NoThread EXCEPT !.pc = kind])
  /\ UNCHANGED <<family, jobs, worker>>

\* A thread in the same process.
TforkThread(t) ==
  LET p == t[1]
      u == <<p, 2>>
  IN /\ At(t, "clone")
     /\ thread' = [thread EXCEPT
          ![t] = [Running EXCEPT !.killed = thread[t].killed],
          ![u] = IF family.proc[family.proc[p].init].is_init_exiting
                    \/ @.pc # "none"
                 THEN @ ELSE Running]
     /\ UNCHANGED <<family, jobs, worker>>

\* Process::Fork registers the new process: its object is made, it is p's
\* child and a member of p's group, session and init.
Register(w, p, c) ==
  LET f == w.proc[p]
  IN [w EXCEPT !.proc = [q \in Procs |->
        LET g == w.proc[q]
        IN IF q = c
           THEN [g EXCEPT !.memory = "used", !.pid = TRUE, !.parent = p,
                          !.group = f.group, !.session = f.session,
                          !.init = f.init]
           ELSE [g EXCEPT
                  !.children = IF q = p THEN <<c>> \o @ ELSE @,
                  !.group_first = IF q = f.group THEN @ \cup {c} ELSE @,
                  !.session_first = IF q = f.session THEN @ \cup {c} ELSE @,
                  !.init_first = IF q = f.init THEN @ \cup {c} ELSE @]]]

\* AbortConstruction.
Abort(w, c) == [w EXCEPT !.proc[c].memory = "used", !.proc[c].no_zombify = TRUE]

New == SelectSeq(Children, LAMBDA c : family.proc[c].memory = "new")

ForkRegister(t) ==
  LET p == t[1]
      f == family.proc[p]
      c == Head(New)
  IN /\ At(t, "fork")
     /\ IF New = <<>> THEN Set(t, Running) /\ UNCHANGED <<family, jobs>>
        ELSE IF family.proc[f.init].is_init_exiting
        THEN /\ family' = Abort(family, c)
             /\ jobs' = jobs \cup {c}
             /\ Set(t, Running)
        ELSE IF f.group = NULL
        THEN family' = Panic(family, "null group") /\ UNCHANGED <<thread, jobs>>
        ELSE /\ family' = Register(family, p, c)
             /\ Set(t, [NoThread EXCEPT !.pc = "forked", !.arg = c])
             /\ UNCHANGED jobs
     /\ UNCHANGED worker

\* There is no memory for the rest of Fork, or for the thread.
ForkFails(t) ==
  LET c == thread[t].arg
  IN /\ At(t, "forked")
     /\ family' = Abort(family, c)
     /\ jobs' = jobs \cup {c}
     /\ Set(t, Running)
     /\ UNCHANGED worker

\* sys_tfork makes the first thread of the new process, or gives up.
TforkProcess(t) ==
  LET c == thread[t].arg
  IN /\ At(t, "forked")
     /\ thread' = [thread EXCEPT
          ![t] = [Running EXCEPT !.killed = thread[t].killed],
          ![<<c, 1>>] = IF family.proc[family.proc[c].init].is_init_exiting
                        THEN @ ELSE Running]
     /\ UNCHANGED <<family, jobs, worker>>

-----------------------------------------------------------------------------
(* Exit. *)

\* ExitWithCode, called by exit or for a SIGKILL: all threads are killed.
ExitProcess(t) ==
  /\ At(t, "run") /\ (t[1] \in Exits \/ thread[t].killed)
  /\ thread' = [u \in Threads |->
       IF u = t THEN [NoThread EXCEPT !.pc = "exit"]
       ELSE IF u \in ActiveThreads(t[1]) THEN [thread[u] EXCEPT !.killed = TRUE]
       ELSE thread[u]]
  /\ UNCHANGED <<family, jobs, worker>>

\* sys_exit_thread, when there are others.
ExitThread(t) ==
  /\ CanCall(t) /\ ActiveThreads(t[1]) # {t}
  /\ Set(t, [NoThread EXCEPT !.pc = "exit"])
  /\ UNCHANGED <<family, jobs, worker>>

\* Which processes the walk of OnLastThreadExit reaches in a list of siblings:
\* it goes down to a first child and then on to the sibling after it.
RECURSIVE Walk(_, _)
Walk(w, list) ==
  UNION {{list[i]} \cup
           (IF w.proc[list[i]].children = <<>> THEN {}
            ELSE Walk(w, Tail(w.proc[list[i]].children))) : i \in DOMAIN list}

InitExiting(w, p, reached) ==
  [w EXCEPT !.proc = [q \in Procs |->
     [w.proc[q] EXCEPT !.is_init_exiting =
        @ \/ q = p \/ (q \in reached /\ w.proc[q].init = q)]]]

Sleep(w, t) == [w EXCEPT !.proc[t[1]].zombie_cond = @ \cup {t}]

\* kthread_exit, and OnLastThreadExit if the process is an init.
kthread_exit(t) ==
  LET p == t[1]
      f == family.proc[p]
      last == ActiveThreads(p) = {t}
      reached == Walk(family, f.children)
      w == InitExiting(family, p, reached)
  IN /\ At(t, "exit")
     /\ IF last /\ f.init = p /\ f.children # <<>>
        THEN /\ family' = Sleep(w, t)
             /\ thread' = [u \in Threads |->
                  IF u = t THEN [NoThread EXCEPT !.pc = "shutdown"]
                  ELSE IF u[1] \in reached /\ Active(u)
                  THEN [thread[u] EXCEPT !.killed = TRUE]
                  ELSE thread[u]]
             /\ UNCHANGED jobs
        ELSE /\ family' = IF last /\ f.init = p THEN w ELSE family
             /\ jobs' = IF last THEN jobs \cup {p} ELSE jobs
             /\ thread' = [thread EXCEPT ![t] = [NoThread EXCEPT !.pc = "gone"]]
     /\ UNCHANGED worker

OnLastThreadExitResume(t) ==
  LET p == t[1]
  IN /\ At(t, "shutdown") /\ t \notin family.proc[p].zombie_cond
     /\ IF family.proc[p].children # <<>>
        THEN family' = Sleep(family, t) /\ UNCHANGED <<thread, jobs>>
        ELSE /\ thread' = [thread EXCEPT ![t] = [NoThread EXCEPT !.pc = "gone"]]
             /\ jobs' = jobs \cup {p}
             /\ UNCHANGED family
     /\ UNCHANGED worker

-----------------------------------------------------------------------------
(* waitpid. *)

IsWaitedForProcess(w, c, kind, who) ==
  /\ ~w.proc[c].no_zombify
  /\ \/ kind = "any"
     \/ kind = "pid" /\ c = who
     \/ kind = "group" /\ w.proc[c].group = who

Matches(w, list, kind, who) ==
  SelectSeq(list, LAMBDA c : IsWaitedForProcess(w, c, kind, who))

\* The zombie z, that was in session s, has left its group and session.
WaitedFor(t, w, z, s) ==
  IF Releases(w, s)
  THEN family' = w /\ Set(t, [pc |-> "reap", killed |-> FALSE, arg |-> z, kind |-> s])
  ELSE family' = WaitedForEnd(w, z, s) /\ Set(t, Running)

\* The loop of Process::Wait, with the lock.
WaitLoop(t, kind, who) ==
  LET p == t[1]
      zombies == Matches(family, family.proc[p].zombies, kind, who)
      z == Head(zombies)
  IN /\ IF zombies # <<>>
        THEN WaitedFor(t, WaitedForBegin(
                            [family EXCEPT !.proc[p].zombies = Without(@, z)], z),
                       z, family.proc[z].session)
        ELSE IF Matches(family, family.proc[p].children, kind, who) = <<>>
        THEN Set(t, Running) /\ UNCHANGED family
        ELSE /\ family' = Sleep(family, t)
             /\ Set(t, [pc |-> "wait", killed |-> FALSE, arg |-> who, kind |-> kind])
     /\ UNCHANGED <<jobs, worker>>

Wait(t, kind, who) ==
  /\ CanCall(t) \/ (t[1] = system /\ At(t, "run") /\ kind = "pid" /\ who = init0)
  /\ kind = "any" => who = NULL
  /\ WaitLoop(t, kind, who)

WaitResume(t) ==
  /\ At(t, "wait") /\ t \notin family.proc[t[1]].zombie_cond
  /\ WaitLoop(t, thread[t].kind, thread[t].arg)

\* kthread_cond_wait_signal returns false.
WaitInterrupted(t) ==
  /\ At(t, "wait") /\ t[1] # system
  /\ family' = [family EXCEPT !.proc[t[1]].zombie_cond = @ \ {t}]
  /\ Set(t, Running)
  /\ UNCHANGED <<jobs, worker>>

\* Wait has the lock again.
WaitReaped(t) ==
  /\ At(t, "reap")
  /\ family' = WaitedForEnd(family, thread[t].arg, thread[t].kind)
  /\ Set(t, Running)
  /\ UNCHANGED <<jobs, worker>>

-----------------------------------------------------------------------------
(* Groups, sessions and inits. *)

\* zombie_cond of the process itself is broadcast.
WakeOwn(w, p) ==
  IF w.proc[p].no_zombify \/ w.proc[p].parent = NULL THEN w
  ELSE [w EXCEPT !.proc[p].zombie_cond = {}]

Join(w, c, g) ==
  WakeOwn([w EXCEPT !.proc[c].group = g,
                    !.proc[g].group_first = @ \cup {c}], c)

\* The conditions of sys_setpgid on the processes P.
MaySetpgid_AnySession(P, p, c, g) ==
  /\ P[c].pid /\ P[g].pid
  /\ c = p \/ P[c].parent = p
  /\ P[c].session = P[p].session
  /\ P[c].session_first = {}
  /\ P[g].group_first # {} \/ g = c
  /\ c = p \/ ~P[c].has_run_exec

MaySetpgid(P, p, c, g) ==
  /\ P[c].pid /\ P[g].pid
  /\ c = p \/ P[c].parent = p
  /\ P[c].session = P[p].session
  /\ P[g].session = P[c].session
  /\ P[c].session_first = {}
  /\ P[g].group_first # {} \/ g = c
  /\ c = p \/ ~P[c].has_run_exec

sys_setpgid(t, c, g) ==
  /\ CanCall(t) /\ MaySetpgid(family.proc, t[1], c, g)
  /\ family.proc[c].group # g
  /\ family' = Join(GroupRemoveMember(family, c), c, g)
  /\ UNCHANGED <<thread, jobs, worker>>

\* The list of the new session, group and init begins with the process.
Lead(w, p) ==
  WakeOwn([w EXCEPT !.proc[p].session = p, !.proc[p].session_first = {p},
                    !.proc[p].group = p, !.proc[p].group_first = {p}], p)

LeadInit(w, p) ==
  Lead([w EXCEPT !.proc[p].init = p, !.proc[p].init_first = {p}], p)

\* setsid and setinit after SessionRemoveMember.
SetEnd(w, p, call, s) ==
  IF call = "setsid" THEN Lead(SessionUnlinked(w, s), p)
  ELSE LeadInit(InitRemoveMember(SessionUnlinked(w, s), p), p)

\* sys_setsid and sys_setinit.
Detach(t, call) ==
  LET p == t[1]
      s == family.proc[p].session
      w == WaitedForBegin(family, p)
  IN /\ CanCall(t)
     /\ family.proc[p].group # p
     /\ Careful => family.proc[p].group_first = {}
     /\ IF Releases(w, s)
        THEN family' = w /\ Set(t, [pc |-> call, killed |-> FALSE, arg |-> NULL, kind |-> s])
        ELSE family' = SetEnd(w, p, call, s) /\ UNCHANGED thread
     /\ UNCHANGED <<jobs, worker>>

DetachEnd(t) ==
  /\ At(t, "setsid") \/ At(t, "setinit")
  /\ family' = SetEnd(family, t[1], thread[t].pc, thread[t].kind)
  /\ Set(t, Running)
  /\ UNCHANGED <<jobs, worker>>

\* Process::Execute of a process with one thread.
Execute(t) ==
  /\ CanCall(t) /\ ActiveThreads(t[1]) = {t}
  /\ family' = [family EXCEPT !.proc[t[1]].has_run_exec = TRUE]
  /\ UNCHANGED <<thread, jobs, worker>>

-----------------------------------------------------------------------------
Leader(p) ==
  [BlankProcess EXCEPT
     !.memory = "used", !.pid = TRUE, !.group = p, !.group_first = {p},
     !.session = p, !.session_first = {p}]

\* The kernel has made the first process and waits for it.
Init ==
  /\ family = [panic |-> NULL, proc |-> [p \in Procs |->
       IF p = system THEN [Leader(p) EXCEPT !.children = <<init0>>]
       ELSE IF p = init0
       THEN [Leader(p) EXCEPT !.parent = system, !.init = p, !.init_first = {p},
                              !.has_run_exec = TRUE]
       ELSE BlankProcess]]
  /\ thread = [t \in Threads |->
       IF t[1] \in {system, init0} /\ t[2] = 1 THEN Running ELSE NoThread]
  /\ jobs = {}
  /\ worker = Idle

Next ==
  \/ \E t \in Threads, kind \in {"fork", "clone"} : TforkBegin(t, kind)
  \/ \E t \in Threads : TforkThread(t)
  \/ \E t \in Threads : ForkRegister(t)
  \/ \E t \in Threads : ForkFails(t)
  \/ \E t \in Threads : TforkProcess(t)
  \/ \E t \in Threads : ExitProcess(t)
  \/ \E t \in Threads : ExitThread(t)
  \/ \E t \in Threads : kthread_exit(t)
  \/ \E t \in Threads : OnLastThreadExitResume(t)
  \/ \E t \in Threads, kind \in Waits, who \in Procs \cup {NULL} : Wait(t, kind, who)
  \/ \E t \in Threads : WaitResume(t)
  \/ \E t \in Threads : WaitInterrupted(t)
  \/ \E t \in Threads : WaitReaped(t)
  \/ \E t \in Threads, c, g \in Procs : sys_setpgid(t, c, g)
  \/ \E t \in Threads, call \in {"setsid", "setinit"} : Detach(t, call)
  \/ \E t \in Threads : DetachEnd(t)
  \/ \E t \in Threads : Execute(t)
  \/ \E d \in Procs : LastPrayer(d)
  \/ LastPrayerResume

Spec == Init /\ [][Next]_vars

-----------------------------------------------------------------------------
(* Properties. *)

Used == {p \in Procs : family.proc[p].memory = "used"}

\* Processes that a thread or the worker is just taking out of the family.
Leaving ==
  {thread[t].arg : t \in {u \in Threads : In(u, "reap")}}
    \cup {worker.zombie}
    \cup {t[1] : t \in {u \in Threads : thread[u].pc \in {"setsid", "setinit"}}}

\* Sessions that are being left by their last member.
Emptied ==
  {thread[t].kind : t \in {u \in Threads :
                             thread[u].pc \in {"reap", "setsid", "setinit"}}}
    \cup {worker.session}

\* The lists of children and members say what the pointers to parents, groups,
\* sessions and inits say; none of those points to a deleted object, although
\* a group or a session outlives its leader; and an object in limbo is kept
\* only while somebody is a member of it.  No assertion fails and no deleted
\* object is used, but for assert(init) in LastPrayer of a process that Fork
\* gave up before it was registered.
FamilyExact ==
  LET P == family.proc
  IN /\ family.panic \in {NULL, "no init"}
     /\ \A p \in Used :
          /\ P[p].group_first = {q \in Used : P[q].group = p}
          /\ P[p].session_first = {q \in Used : P[q].session = p}
          /\ P[p].init_first = {q \in Used : P[q].init = p}
          /\ Range(P[p].children \o P[p].zombies) \ Leaving
               = {q \in Used : P[q].parent = p} \ Leaving
          /\ {P[p].parent, P[p].group, P[p].session, P[p].init}
               \subseteq Used \cup {NULL}
          /\ P[p].limbo => HasMembers(P[p]) \/ p \in Emptied

\* A process group is part of one session, as the terminal relies on when it
\* lets a session choose the group in front; and a process that has a thread
\* has an init that has one, which only exits after all its processes.
Hierarchy ==
  /\ \A p, q \in Used :
       family.proc[p].group # NULL /\ family.proc[p].group = family.proc[q].group
         => family.proc[p].session = family.proc[q].session
  /\ \A t \in Threads :
       Active(t) /\ t[1] # system /\ family.panic = NULL
         => ActiveThreads(family.proc[t[1]].init) # {}

\* A thread that waits for any child or for a certain one sleeps only while it
\* is no zombie yet, and an init that exits only while it has a child.
WaitersAwake ==
  \A p \in Used : \A t \in family.proc[p].zombie_cond :
    IF In(t, "shutdown") THEN family.proc[p].children # <<>>
    ELSE thread[t].kind # "group" =>
           Matches(family, family.proc[p].zombies, thread[t].kind, thread[t].arg) = <<>>

(* What the comments say and the code does not keep. *)

\* A thread waits only while a child that it waits for is alive: it "needs to
\* be awoken and notice the process is no longer there" when the child changes
\* its group.  The condition variable of the child is broadcast instead, and
\* that of the parent is not when AbortConstruction takes the child away.
WaitersHaveChild ==
  \A t \in Threads :
    In(t, "wait") /\ t \in family.proc[t[1]].zombie_cond
      => Matches(family, family.proc[t[1]].children,
                 thread[t].kind, thread[t].arg) # <<>>

\* The loop of OnLastThreadExit "will always terminate": each child that an
\* exiting init waits for has been killed, exits, or is being made or buried.
ShutdownProceeds ==
  \A t \in Threads : In(t, "shutdown") /\ Up =>
    \A c \in Range(family.proc[t[1]].children) :
      \/ c \in jobs \cup {worker.process}
      \/ \E u \in ActiveThreads(c) :
            thread[u].killed \/ thread[u].pc \in {"exit", "shutdown"}
      \/ \E u \in Threads : In(u, "forked") /\ thread[u].arg = c

=============================================================================
