----------------------------- MODULE PipeProofs -----------------------------
(***************************************************************************)
(* The room that a thread counted on is there, a reader's copy of a header *)
(* stays right and nobody sleeps who could go on, for any threads, any size*)
(* of the buffer and any size of the messages.                             *)
(*                                                                         *)
(* The first lemmas show that every step keeps PipeInv, in which CountsOn  *)
(* says what a thread relies on at its step: one lemma per action.  They   *)
(* rest on what PipeRingProofs shows of the ring.  The last part adds who  *)
(* is awake.                                                               *)
(***************************************************************************)
EXTENDS PipeRingProofs

-----------------------------------------------------------------------------
(* The inductive invariant.                                                *)

RecvPledged == {"recv_first_yield", "recv_first_wait", "recv_normal_yield",
                "recv_normal_wait"}
SendPledged == {"send_normal_yield", "send_normal_wait"}
Unlocked == {"idle", "send_room_wait"} \cup RecvPledged \cup SendPledged

At(steps) == {t \in Threads : pc[t] \in steps}

\* S has n elements: f numbers them.
Numbers(f, n, S) ==
  /\ f \in [S -> 1..n]
  /\ \A k \in 1..n : \E s \in S : f[s] = k
  /\ \A s, t \in S : f[s] = f[t] => s = t

Counted(n, S) == n \in Nat /\ \E f : Numbers(f, n, S)

\* A thread works under the lock, a pledge is made by a thread that yields or
\* waits, and a thread sleeps where it waits.
Locked ==
  /\ \A t \in Threads : pc[t] \notin Unlocked => pipe_lock = t
  /\ Counted(pledged_read, At(RecvPledged))
  /\ Counted(pledged_write, At(SendPledged))
  /\ \A t \in read_cond : pc[t] \in {"recv_first_wait", "recv_normal_wait"}
  /\ \A t \in write_cond : pc[t] \in {"send_room_wait", "send_normal_wait"}

\* What a reader holds of the first segment's header is still right.
Receiving(step, l) ==
  /\ step = "recv_ancillary" /\ l.i + l.normal > 0 =>
       buffer_used > 0 /\ Cells[0] = Header(l.i, l.normal)
  /\ step = "recv_normal" /\ l.normal > 0 =>
       buffer_used > 0 /\ Cells[0] = Header(0, l.normal)

\* The room that a writer counts on: for the rest of its control data and a byte,
\* and for a header where it will need one.  A writer has put a byte when it finds
\* the buffer full, so it never sleeps there.
Reserved(step, l) ==
  LET free == buffer_size - buffer_used
  IN /\ step \in {"send_room", "send_room_wait"} => l.i = 0 /\ l.so_far = 0
     /\ step = "send_cmsg" =>
          /\ l.i = 0 /\ l.so_far = 0 /\ l.fds > 0
          /\ l.fds + 2 + (IF NeedsHeader(l.fds) THEN 1 ELSE 0) <= free
     /\ step \in {"send_fd", "send_undo"} =>
          l.so_far = 0 /\ l.i <= l.fds /\ l.fds - l.i + 1 <= free /\ ~l.need_header
     /\ step = "send_normal" =>
          /\ buffer_used = 0 => l.need_header
          /\ l.so_far = 0 /\ l.count > 0 => free > (IF l.need_header THEN 1 ELSE 0)
     /\ step = "send_normal_yield" => l.so_far > 0
     /\ step # "send_normal_wait"

\* While a writer puts control data, it is the end of the last segment.  If it
\* is all of that segment, saved is the position of the header before.
Undoable(step, l) ==
  step \in {"send_fd", "send_undo"} =>
    /\ buffer_used > 0
    /\ Cells[last_header_position].b = 0 /\ l.i + 1 <= Cells[last_header_position].a
    /\ Cells[last_header_position].a = l.i + 1 =>
         IF last_header_position = 0 THEN l.saved = 0
         ELSE /\ l.saved < last_header_position
              /\ IsHeader(Cells, l.saved)
              /\ End(Cells, l.saved) = last_header_position

\* What a thread counts on at a step of its call, with its locals l.
CountsOn(step, l) == Receiving(step, l) /\ Reserved(step, l) /\ Undoable(step, l)

PipeInv ==
  /\ Types /\ Locked
  /\ Parsed(Cells, buffer_used, last_header_position)
  /\ \A t \in Threads : CountsOn(pc[t], local[t])

-----------------------------------------------------------------------------
(* The steps of a thread.                                                  *)

\* The locals after an assignment to some of them.
LEMMA NoCallType == NoCall \in LocalType
BY Zenon DEF NoCall, LocalType

LEMMA RecvLocals ==
  ASSUME NEW n \in Nat, NEW waitall \in BOOLEAN, NEW nonblock \in BOOLEAN,
         NEW peek \in BOOLEAN
  PROVE  LET l == [NoCall EXCEPT !.count = n, !.waitall = waitall,
                                 !.nonblock = nonblock, !.peek = peek]
         IN l \in LocalType /\ l.i = 0 /\ l.so_far = 0
BY Zenon DEF NoCall, LocalType

LEMMA SendLocals ==
  ASSUME NEW n \in Nat, NEW fds \in Nat, NEW nonblock \in BOOLEAN
  PROVE  LET l == [NoCall EXCEPT !.count = n, !.fds = fds, !.nonblock = nonblock]
         IN l \in LocalType /\ l.i = 0 /\ l.so_far = 0
BY Zenon DEF NoCall, LocalType

LEMMA LocalFields ==
  ASSUME NEW l \in LocalType
  PROVE  /\ l.count \in Nat /\ l.so_far \in Nat /\ l.fds \in Nat /\ l.i \in Nat
         /\ l.normal \in Nat /\ l.saved \in Nat /\ l.need_header \in BOOLEAN
         /\ l.nonblock \in BOOLEAN
BY Zenon DEF LocalType

\* The assignments, each with the locals that matter after it.
LEMMA AssignI ==
  ASSUME NEW l \in LocalType, NEW a \in Nat, NEW m, m = [l EXCEPT !.i = a]
  PROVE  /\ m \in LocalType /\ m.i = a /\ m.normal = l.normal /\ m.fds = l.fds
         /\ m.so_far = l.so_far /\ m.count = l.count /\ m.saved = l.saved
         /\ m.need_header = l.need_header
BY Zenon DEF LocalType

LEMMA AssignNormal ==
  ASSUME NEW l \in LocalType, NEW b \in Nat, NEW m, m = [l EXCEPT !.normal = b]
  PROVE  m \in LocalType /\ m.normal = b
BY Zenon DEF LocalType

LEMMA AssignNeed ==
  ASSUME NEW l \in LocalType, NEW h \in BOOLEAN, NEW m, m = [l EXCEPT !.need_header = h]
  PROVE  /\ m \in LocalType /\ m.need_header = h /\ m.fds = l.fds /\ m.i = l.i
         /\ m.so_far = l.so_far /\ m.count = l.count
BY Zenon DEF LocalType

\* How much a thread at the step adds to a pledge that threads make at steps.
Pledge(step, steps) == IF step \in steps THEN 1 ELSE 0

LEMMA CountedNone == Counted(0, {})
<1>1. Numbers([s \in {} |-> 0], 0, {})
  BY DEF Numbers
<1> QED
  BY Zenon, <1>1 DEF Counted

LEMMA CountedMore ==
  ASSUME NEW n, NEW S, Counted(n, S), NEW t, t \notin S
  PROVE  Counted(n + 1, S \cup {t})
<1>1. PICK f : Numbers(f, n, S)
  BY Zenon DEF Counted
<1> DEFINE g == [s \in S \cup {t} |-> IF s = t THEN n + 1 ELSE f[s]]
<1>3. n \in Nat
  BY Zenon DEF Counted
<1>4. g \in [S \cup {t} -> 1..n + 1]
  <2>1. \A s \in S : f[s] \in 1..n
    BY Zenon, <1>1 DEF Numbers
  <2>2. n + 1 \in 1..n + 1 /\ \A k \in 1..n : k \in 1..n + 1
    BY <1>3
  <2> QED
    BY Zenon, <2>1, <2>2
<1>5. ASSUME NEW k \in 1..n + 1
      PROVE  \E s \in S \cup {t} : g[s] = k
  <2>1. CASE k = n + 1
    BY Zenon, <2>1
  <2>2. CASE k # n + 1
    <3>1. k \in 1..n
      BY <1>3, <2>2
    <3> QED
      BY Zenon, <1>1, <3>1 DEF Numbers
  <2> QED
    BY Zenon, <2>1, <2>2
<1>6. ASSUME NEW a \in S \cup {t}, NEW b \in S \cup {t}, g[a] = g[b]
      PROVE  a = b
  <2>1. \A s \in S : g[s] = f[s] /\ f[s] \in 1..n /\ s # t
    BY Zenon, <1>1 DEF Numbers
  <2>2. g[t] = n + 1
    BY Zenon
  <2> QED
    BY <1>1, <1>3, <1>6, <2>1, <2>2 DEF Numbers
<1>7. n + 1 \in Nat
  BY <1>3
<1> HIDE DEF g
<1>8. Numbers(g, n + 1, S \cup {t})
  BY Zenon, <1>4, <1>5, <1>6 DEF Numbers
<1> QED
  BY Zenon, <1>7, <1>8 DEF Counted

LEMMA CountedLess ==
  ASSUME NEW n, NEW S, Counted(n, S), NEW t \in S
  PROVE  Counted(n - 1, S \ {t})
<1>1. PICK f : Numbers(f, n, S)
  BY Zenon DEF Counted
<1> DEFINE g == [s \in S \ {t} |-> IF f[s] = n THEN f[t] ELSE f[s]]
<1>3. n \in Nat /\ f[t] \in 1..n /\ \A s \in S : f[s] \in 1..n
  BY Zenon, <1>1 DEF Counted, Numbers
<1>4. \A s \in S \ {t} : f[s] # f[t]
  BY Zenon, <1>1 DEF Numbers
<1>5. g \in [S \ {t} -> 1..n - 1]
  <2>1. ASSUME NEW s \in S \ {t}
        PROVE  (IF f[s] = n THEN f[t] ELSE f[s]) \in 1..n - 1
    <3>1. PICK a \in 1..n, b \in 1..n : a = f[s] /\ b = f[t] /\ a # b
      BY Zenon, <1>3, <1>4
    <3> QED
      BY <1>3, <3>1
  <2> QED
    BY Zenon, <2>1
<1>6. ASSUME NEW k \in 1..n - 1
      PROVE  \E s \in S \ {t} : g[s] = k
  <2>1. k \in 1..n /\ n \in 1..n /\ k # n
    BY <1>3
  <2>2. CASE k = f[t]
    <3>1. PICK s \in S : f[s] = n
      BY Zenon, <1>1, <2>1 DEF Numbers
    <3> QED
      BY Zenon, <2>1, <2>2, <3>1
  <2>3. CASE k # f[t]
    <3>1. PICK s \in S : f[s] = k
      BY Zenon, <1>1, <2>1 DEF Numbers
    <3> QED
      BY Zenon, <2>1, <2>3, <3>1
  <2> QED
    BY Zenon, <2>2, <2>3
<1>7. ASSUME NEW a \in S \ {t}, NEW b \in S \ {t}, g[a] = g[b]
      PROVE  a = b
  BY Zenon, <1>1, <1>4, <1>7 DEF Numbers
<1>8. n - 1 \in Nat
  BY <1>3
<1> HIDE DEF g
<1>9. Numbers(g, n - 1, S \ {t})
  BY Zenon, <1>5, <1>6, <1>7 DEF Numbers
<1> QED
  BY Zenon, <1>8, <1>9 DEF Counted

LEMMA PledgeStep ==
  ASSUME pc \in [Threads -> Steps], NEW steps, NEW n, Counted(n, At(steps)),
         NEW t \in Threads, NEW step, pc' = [pc EXCEPT ![t] = step],
         NEW m, m = n + Pledge(step, steps) - Pledge(pc[t], steps)
  PROVE  Counted(m, At(steps)')
<1>1. n \in Nat
  BY Zenon DEF Counted
<1>2. CASE pc[t] \in steps /\ step \in steps
  <2>1. At(steps)' = At(steps)
    BY Zenon, <1>2 DEF At
  <2> QED
    BY <1>1, <1>2, <2>1 DEF Pledge
<1>3. CASE pc[t] \notin steps /\ step \notin steps
  <2>1. At(steps)' = At(steps)
    BY Zenon, <1>3 DEF At
  <2> QED
    BY <1>1, <1>3, <2>1 DEF Pledge
<1>4. CASE pc[t] \notin steps /\ step \in steps
  <2>1. At(steps)' = At(steps) \cup {t} /\ t \notin At(steps)
    BY Zenon, <1>4 DEF At
  <2> QED
    BY <1>1, <1>4, <2>1, CountedMore DEF Pledge
<1>5. CASE pc[t] \in steps /\ step \notin steps
  <2>1. At(steps)' = At(steps) \ {t} /\ t \in At(steps)
    BY Zenon, <1>5 DEF At
  <2> QED
    BY <1>1, <1>5, <2>1, CountedLess DEF Pledge
<1> QED
  BY Zenon, <1>2, <1>3, <1>4, <1>5

\* The types and the shape of the ring.
RingOK ==
  /\ buffer_size \in Nat /\ buffer_size >= 2
  /\ buffer \in [0..buffer_size - 1 -> CellType]
  /\ buffer_offset \in 0..buffer_size - 1
  /\ buffer_used \in 0..buffer_size
  /\ sent \in Nat
  /\ Parsed(Cells, buffer_used, last_header_position)

LEMMA QuietRing ==
  ASSUME PipeInv, UNCHANGED ring
  PROVE  RingOK' /\ Cells' = Cells
<1>1. RingOK
  BY Zenon DEF PipeInv, Types, RingOK
<1>2. Cells' = Cells
  BY Zenon DEF ring, Cells, ReadBuffer
<1> QED
  BY Zenon, <1>1, <1>2 DEF ring, RingOK

\* A thread that works, or that finds the lock free, works alone.
LEMMA Alone ==
  ASSUME PipeInv, NEW t \in Threads, pc[t] \notin Unlocked \/ pipe_lock = NULL
  PROVE  \A s \in Threads \ {t} : pc[s] \in Unlocked
BY Zenon, PipeAssumption DEF PipeInv, Locked, Threads

\* One step of a thread keeps the invariant, if it leaves the ring right and the
\* thread has what it counts on.
LEMMA ThreadStep ==
  ASSUME PipeInv, NEW t \in Threads, NEW step \in Steps, NEW l \in LocalType,
         pc[t] \notin Unlocked \/ pipe_lock = NULL,
         pc' = [pc EXCEPT ![t] = step], local' = [local EXCEPT ![t] = l],
         pipe_lock' \in {t, NULL}, step \notin Unlocked => pipe_lock' = t,
         pledged_read' = pledged_read + Pledge(step, RecvPledged)
                           - Pledge(pc[t], RecvPledged),
         pledged_write' = pledged_write + Pledge(step, SendPledged)
                            - Pledge(pc[t], SendPledged),
         \A s \in read_cond' :
            IF s = t THEN t \in Readers /\ step \in {"recv_first_wait", "recv_normal_wait"}
            ELSE s \in read_cond,
         \A s \in write_cond' :
            IF s = t THEN t \in Writers /\ step \in {"send_room_wait", "send_normal_wait"}
            ELSE s \in write_cond,
         read_poll' \in BOOLEAN, write_poll' \in BOOLEAN,
         UNCHANGED ends, RingOK', CountsOn(step, l)'
  PROVE  PipeInv'
<1>0. /\ Types /\ Locked /\ t \in Threads
      /\ pc \in [Threads -> Steps] /\ local \in [Threads -> LocalType]
  BY Zenon DEF PipeInv, Types
<1>1. Types'
  BY Zenon, <1>0 DEF Types, RingOK, ends, Threads
<1>2. \A s \in Threads \ {t} : pc[s] \in Unlocked
  BY Zenon, Alone
<1>3. pc'[t] = step /\ \A s \in Threads \ {t} : pc'[s] = pc[s]
  BY Zenon, <1>0
<1>4. local'[t] = l /\ \A s \in Threads \ {t} : local'[s] = local[s]
  BY Zenon, <1>0
<1>5. Locked'
  <2>1. \A s \in Threads : pc'[s] \notin Unlocked => pipe_lock' = s
    BY Zenon, <1>2, <1>3
  <2>2. Counted(pledged_read', At(RecvPledged)')
    BY Zenon, <1>0, PledgeStep DEF Locked
  <2>3. Counted(pledged_write', At(SendPledged)')
    BY Zenon, <1>0, PledgeStep DEF Locked
  <2>4. \A s \in read_cond' : pc'[s] \in {"recv_first_wait", "recv_normal_wait"}
    BY Zenon, <1>0, <1>3 DEF Locked, Types, Threads
  <2>5. \A s \in write_cond' : pc'[s] \in {"send_room_wait", "send_normal_wait"}
    BY Zenon, <1>0, <1>3 DEF Locked, Types, Threads
  <2> QED
    BY Zenon, <2>1, <2>2, <2>3, <2>4, <2>5 DEF Locked
<1>6. ASSUME NEW s \in Threads
      PROVE  CountsOn(pc[s], local[s])'
  <2>1. CASE s = t
    BY Zenon, <1>3, <1>4, <2>1
  <2>2. CASE s # t
    <3>1. pc'[s] \in Unlocked /\ pc'[s] = pc[s] /\ local'[s] = local[s]
      BY Zenon, <1>2, <1>3, <1>4, <2>2
    <3>2. /\ pc[s] = "send_normal_yield" => local[s].so_far > 0
          /\ pc[s] # "send_normal_wait"
          /\ pc[s] = "send_room_wait" => local[s].i = 0 /\ local[s].so_far = 0
      BY Zenon DEF PipeInv, CountsOn, Reserved
    <3>3. Receiving(pc[s], local[s])' /\ Undoable(pc[s], local[s])'
      BY Zenon, <3>1 DEF Receiving, Undoable, Unlocked, RecvPledged, SendPledged
    <3>4. Reserved(pc[s], local[s])'
      BY Zenon, <3>1, <3>2 DEF Reserved, Unlocked, RecvPledged, SendPledged
    <3> QED
      BY Zenon, <3>3, <3>4 DEF CountsOn
  <2> QED
    BY Zenon, <2>1, <2>2
<1> QED
  BY Zenon, <1>1, <1>5, <1>6 DEF PipeInv, RingOK

\* A thread sleeps in a wait only.
LEMMA AwakeAt ==
  ASSUME PipeInv, NEW t, pc[t] \notin Waits
  PROVE  t \notin read_cond /\ t \notin write_cond
BY Zenon DEF PipeInv, Locked, Waits

\* Outside the steps that a thread counts on something, it counts on nothing.
LEMMA CountsOnNothing ==
  ASSUME NEW step, NEW l,
         step \in {"idle", "recv_first"} \cup RecvPledged
  PROVE  CountsOn(step, l)'
BY Zenon DEF CountsOn, Receiving, Reserved, Undoable, RecvPledged, SendPledged

\* A step between two steps without a pledge, that changes the ring rightly, or
\* not at all.
LEMMA PlainStep ==
  ASSUME PipeInv, NEW t \in Threads, NEW step \in Steps, NEW l \in LocalType,
         pc[t] \notin Unlocked \/ pipe_lock = NULL,
         pc[t] \notin RecvPledged \cup SendPledged,
         step \notin RecvPledged \cup SendPledged, step # "send_room_wait",
         t \notin read_cond, t \notin write_cond,
         pc' = [pc EXCEPT ![t] = step], local' = [local EXCEPT ![t] = l],
         pipe_lock' \in {t, NULL}, step # "idle" => pipe_lock' = t,
         UNCHANGED pledges, read_cond' \subseteq read_cond, write_cond' \subseteq write_cond,
         read_poll' \in BOOLEAN, write_poll' \in BOOLEAN,
         UNCHANGED ends, RingOK', CountsOn(step, l)'
  PROVE  PipeInv'
<1>1. /\ \A s \in read_cond' :
            IF s = t THEN t \in Readers /\ step \in {"recv_first_wait", "recv_normal_wait"}
            ELSE s \in read_cond
      /\ \A s \in write_cond' :
            IF s = t THEN t \in Writers /\ step \in {"send_room_wait", "send_normal_wait"}
            ELSE s \in write_cond
  BY Zenon
<1>2. pledged_read \in Nat /\ pledged_write \in Nat
  BY Zenon DEF PipeInv, Locked, Counted
<1>3. /\ pledged_read' = pledged_read + Pledge(step, RecvPledged)
                           - Pledge(pc[t], RecvPledged)
      /\ pledged_write' = pledged_write + Pledge(step, SendPledged)
                            - Pledge(pc[t], SendPledged)
  BY <1>2 DEF Pledge, pledges
<1>4. step \notin Unlocked => pipe_lock' = t
  BY Zenon DEF Unlocked
<1> QED
  BY Zenon, <1>1, <1>3, <1>4, ThreadStep

LEMMA QuietStep ==
  ASSUME PipeInv, NEW t \in Threads, NEW step \in Steps, NEW l \in LocalType,
         pc[t] \notin Unlocked \/ pipe_lock = NULL,
         pc[t] \notin RecvPledged \cup SendPledged,
         step \notin RecvPledged \cup SendPledged, step # "send_room_wait",
         t \notin read_cond, t \notin write_cond,
         pc' = [pc EXCEPT ![t] = step], local' = [local EXCEPT ![t] = l],
         pipe_lock' \in {t, NULL}, step # "idle" => pipe_lock' = t,
         UNCHANGED <<ring, ends, pledges, conds>>, CountsOn(step, l)'
  PROVE  PipeInv'
<1>1. RingOK'
  BY Zenon, QuietRing
<1>2. /\ read_cond' \subseteq read_cond /\ write_cond' \subseteq write_cond
      /\ read_poll' \in BOOLEAN /\ write_poll' \in BOOLEAN
  BY Zenon DEF conds, PipeInv, Types
<1> QED
  BY Zenon, <1>1, <1>2, PlainStep

\* The end of a call.
LEMMA QuietReturn ==
  ASSUME PipeInv, NEW t \in Threads, pc[t] \notin Unlocked, Return(t),
         UNCHANGED <<ring, ends, pledges, conds>>
  PROVE  PipeInv'
<1>1. PICK step \in Steps : step = "idle"
  BY Zenon DEF Steps
<1>2. PICK l \in LocalType : l = NoCall
  BY Zenon, NoCallType
<1>3. /\ pc[t] \notin RecvPledged \cup SendPledged
      /\ step \notin RecvPledged \cup SendPledged /\ step # "send_room_wait"
      /\ pc[t] \notin Waits
  BY Zenon, <1>1 DEF Unlocked, RecvPledged, SendPledged, Waits
<1>4. CountsOn(step, l)'
  BY Zenon, <1>1, CountsOnNothing
<1>5. /\ pc' = [pc EXCEPT ![t] = step] /\ local' = [local EXCEPT ![t] = l]
      /\ pipe_lock' \in {t, NULL}
  BY Zenon, <1>1, <1>2 DEF Return, Release
<1> QED
  BY Zenon, <1>1, <1>3, <1>4, <1>5, AwakeAt, QuietStep

\* The first step of a call.
LEMMA QuietEnter ==
  ASSUME PipeInv, NEW t \in Threads, NEW step \in {"recv_first", "send_room"},
         NEW l \in LocalType, l.i = 0 /\ l.so_far = 0, Enter(t, step, l)
  PROVE  PipeInv'
<1>1. /\ pc[t] = "idle" /\ pipe_lock = NULL /\ pipe_lock' = t
      /\ pc' = [pc EXCEPT ![t] = step] /\ local' = [local EXCEPT ![t] = l]
      /\ UNCHANGED <<ring, ends, pledges, conds>>
  BY Zenon DEF Enter
<1>2. /\ pc[t] \notin RecvPledged \cup SendPledged /\ step \in Steps
      /\ step \notin RecvPledged \cup SendPledged /\ step # "send_room_wait"
      /\ pc[t] \notin Waits
  BY Zenon, <1>1 DEF RecvPledged, SendPledged, Waits, Steps
<1>3. CountsOn(step, l)'
  BY Zenon DEF CountsOn, Receiving, Reserved, Undoable, SendPledged
<1> QED
  BY Zenon, <1>1, <1>2, <1>3, AwakeAt, QuietStep

LEMMA RecvKeeps ==
  ASSUME PipeInv, NEW r \in Readers, NEW n \in Nat, NEW waitall \in BOOLEAN,
         NEW nonblock \in BOOLEAN, NEW peek \in BOOLEAN,
         Recv(r, n, waitall, nonblock, peek)
  PROVE  PipeInv'
BY ZenonT(30), RecvLocals, QuietEnter DEF Recv, Threads

LEMMA SendKeeps ==
  ASSUME PipeInv, NEW w \in Writers, NEW n \in Nat, NEW fds \in Nat,
         NEW nonblock \in BOOLEAN, Send(w, n, fds, nonblock)
  PROVE  PipeInv'
BY Zenon, SendLocals, QuietEnter DEF Send, Threads

\* A reader pledges, and yields or sleeps.
LEMMA PledgeReadKeeps ==
  ASSUME PipeInv, NEW r \in Readers, pc[r] \notin Unlocked,
         NEW step \in RecvPledged,
         \/ YieldRead(r, step)
         \/ step \in {"recv_first_wait", "recv_normal_wait"} /\ WaitRead(r, step)
  PROVE  PipeInv'
<1>1. PICK l \in LocalType : l = local[r]
  BY Zenon DEF PipeInv, Types, Threads
<1>2. /\ r \in Threads /\ step \in Steps /\ step \in Unlocked
      /\ pc[r] \notin RecvPledged /\ pc[r] \notin SendPledged /\ step \notin SendPledged
      /\ pc[r] \notin Waits
  BY Zenon DEF Threads, RecvPledged, SendPledged, Steps, Unlocked, Waits
<1>3. r \notin read_cond /\ r \notin write_cond
  BY Zenon, <1>2, AwakeAt
<1>4. /\ pc' = [pc EXCEPT ![r] = step] /\ local' = [local EXCEPT ![r] = l]
      /\ pipe_lock' = NULL /\ pledged_read' = pledged_read + 1
      /\ UNCHANGED <<ring, ends, pledged_write, write_cond, read_poll, write_poll>>
  BY Zenon, <1>1 DEF YieldRead, WaitRead, Release, conds
<1>5. \A s \in read_cond' :
         IF s = r THEN r \in Readers /\ step \in {"recv_first_wait", "recv_normal_wait"}
         ELSE s \in read_cond
  BY <1>3 DEF YieldRead, WaitRead, conds
<1>6. \A s \in write_cond' :
         IF s = r THEN r \in Writers /\ step \in {"send_room_wait", "send_normal_wait"}
         ELSE s \in write_cond
  BY Zenon, <1>3, <1>4
<1>7. RingOK' /\ CountsOn(step, l)'
  BY Zenon, <1>4, QuietRing, CountsOnNothing
<1>8. pledged_read \in Nat /\ pledged_write \in Nat
  BY Zenon DEF PipeInv, Locked, Counted
<1>9. /\ pledged_read' = pledged_read + Pledge(step, RecvPledged)
                           - Pledge(pc[r], RecvPledged)
      /\ pledged_write' = pledged_write + Pledge(step, SendPledged)
                            - Pledge(pc[r], SendPledged)
  BY <1>2, <1>4, <1>8 DEF Pledge
<1>10. read_poll' \in BOOLEAN /\ write_poll' \in BOOLEAN
  BY Zenon, <1>4 DEF PipeInv, Types
<1> QED
  BY Zenon, <1>2, <1>4, <1>5, <1>6, <1>7, <1>9, <1>10, ThreadStep

\* The first cell is a header.
LEMMA FirstHeader ==
  ASSUME PipeInv, buffer_used > 0
  PROVE  /\ Cells[0] = ReadBuffer(0) /\ Cells[0].a \in Nat /\ Cells[0].b \in Nat
         /\ Cells[0] = Header(Cells[0].a, Cells[0].b)
         /\ Cells[0].a + Cells[0].b > 0
<1>1. /\ buffer_used \in Nat /\ IsRow(Cells, buffer_used)
      /\ 0 \in 0..buffer_used - 1
  BY RingCells DEF PipeInv
<1>2. IsHeader(Cells, 0) /\ Segment(Cells, buffer_used, 0)
  BY <1>1 DEF PipeInv, Parsed
<1>3. Cells[0] \in CellType
  BY Zenon, <1>1 DEF IsRow
<1>4. Cells[0] = Header(Cells[0].a, Cells[0].b)
  BY Zenon, <1>2, <1>3 DEF CellType, IsHeader, Header, Cell
<1>5. Cells[0] = ReadBuffer(0)
  BY Zenon, <1>1 DEF Cells
<1> QED
  BY Zenon, <1>1, <1>2, <1>4, <1>5, CellFields DEF Segment

\* What Dequeue does, with its effect on who sleeps.
LEMMA DequeueRing ==
  ASSUME PipeInv, buffer_used > 0, NEW n \in Nat \ {0},
         n <= IF Cells[0].a > 0 THEN Cells[0].a ELSE Cells[0].b, Dequeue(n)
  PROVE  /\ RingOK' /\ read_cond' \subseteq read_cond /\ write_cond' \subseteq write_cond
         /\ read_poll' \in BOOLEAN /\ write_poll' \in BOOLEAN
         /\ NonEmpty(Less(Cells[0], n)) =>
              buffer_used' > 0 /\ Cells'[0] = Less(Cells[0], n)
<1>1. Types /\ Parsed(Cells, buffer_used, last_header_position)
  BY Zenon DEF PipeInv
<1>2. /\ buffer' \in [0..buffer_size - 1 -> CellType]
      /\ buffer_offset' \in 0..buffer_size - 1
      /\ Shift(n) \in 1..buffer_used /\ buffer_used' = buffer_used - Shift(n)
      /\ Parsed(Cells', buffer_used', last_header_position')
      /\ NonEmpty(Less(Cells[0], n)) =>
           buffer_used' > 0 /\ Cells'[0] = Less(Cells[0], n)
  BY Zenon, <1>1, DequeueRow
<1>3. /\ buffer_size' = buffer_size /\ read_cond' = read_cond /\ sent' = sent
      /\ write_cond' = {} /\ read_poll' \in BOOLEAN /\ write_poll' \in BOOLEAN
  BY Zenon DEF Dequeue, SignalPolls
<1>4. /\ buffer_size \in Nat /\ buffer_size >= 2 /\ sent \in Nat
      /\ buffer_used \in 0..buffer_size
  BY Zenon, <1>1 DEF Types
<1>5. buffer_used' \in 0..buffer_size
  BY <1>2, <1>4
<1> QED
  BY Zenon, <1>2, <1>3, <1>4, <1>5 DEF RingOK

LEMMA RecvFirstKeeps ==
  ASSUME PipeInv, NEW r \in Readers, RecvFirst(r)
  PROVE  PipeInv'
<1>1. /\ r \in Threads /\ pc[r] = "recv_first" /\ pc[r] \notin Unlocked
      /\ pc[r] \notin RecvPledged \cup SendPledged /\ pc[r] \notin Waits
  BY Zenon DEF RecvFirst, Threads, Unlocked, RecvPledged, SendPledged, Waits
<1>2. CASE Return(r) /\ UNCHANGED <<ring, ends, pledges, conds>>
  BY Zenon, <1>1, <1>2, QuietReturn
<1>3. CASE YieldRead(r, "recv_first_yield")
  BY Zenon, <1>1, <1>3, PledgeReadKeeps DEF RecvPledged
<1>4. CASE WaitRead(r, "recv_first_wait")
  BY Zenon, <1>1, <1>4, PledgeReadKeeps DEF RecvPledged
<1>5. CASE /\ buffer_used > 0
           /\ Goto(r, "recv_ancillary", [local[r] EXCEPT !.normal = ReadBuffer(0).b,
                                                         !.i = ReadBuffer(0).a])
           /\ UNCHANGED <<ring, ends, pledges, conds>>
  <2>1. /\ Cells[0] = ReadBuffer(0) /\ Cells[0].a \in Nat /\ Cells[0].b \in Nat
        /\ Cells[0] = Header(Cells[0].a, Cells[0].b)
    BY Zenon, <1>5, FirstHeader
  <2>2. local[r] \in LocalType
    BY Zenon, <1>1 DEF PipeInv, Types
  <2>0. PICK l : l = [local[r] EXCEPT !.normal = Cells[0].b, !.i = Cells[0].a]
    BY Zenon
  <2>3. l \in LocalType /\ l.normal = Cells[0].b /\ l.i = Cells[0].a
    <3>1. PICK a \in Nat, b \in Nat : a = Cells[0].a /\ b = Cells[0].b
      BY Zenon, <2>1
    <3>2. l = [local[r] EXCEPT !.normal = b, !.i = a]
      BY Zenon, <2>0, <3>1
    <3> QED
      BY Zenon, <2>2, <3>1, <3>2 DEF LocalType
  <2>4. PICK step \in Steps : step = "recv_ancillary"
    BY Zenon DEF Steps
  <2>5. Cells' = Cells /\ buffer_used' = buffer_used
    BY Zenon, <1>5, QuietRing DEF ring
  <2>6. CountsOn(step, l)'
    BY Zenon, <1>5, <2>1, <2>3, <2>4, <2>5
    DEF CountsOn, Receiving, Reserved, Undoable, SendPledged
  <2>7. /\ step \notin RecvPledged \cup SendPledged /\ step # "send_room_wait"
        /\ pipe_lock' = r
        /\ pc' = [pc EXCEPT ![r] = step] /\ local' = [local EXCEPT ![r] = l]
    BY Zenon, <1>1, <1>5, <2>1, <2>0, <2>4
      DEF Goto, RecvPledged, SendPledged, PipeInv, Locked
  <2> QED
    BY Zenon, <1>1, <1>5, <2>3, <2>6, <2>7, AwakeAt, QuietStep
<1> QED
  BY Zenon, <1>2, <1>3, <1>4, <1>5 DEF RecvFirst

\* A thread takes its pledge back as it has the lock again.
LEMMA ResumeKeeps ==
  ASSUME PipeInv, NEW t \in Threads, NEW l \in LocalType, NEW step \in Steps,
         Reenter(t, RecvPledged) \/ Reenter(t, SendPledged),
         step \notin RecvPledged \cup SendPledged, step # "send_room_wait",
         pc' = [pc EXCEPT ![t] = step], local' = [local EXCEPT ![t] = l],
         pipe_lock' \in {t, NULL}, step # "idle" => pipe_lock' = t,
         pledged_read' = pledged_read - Pledge(pc[t], RecvPledged),
         pledged_write' = pledged_write - Pledge(pc[t], SendPledged),
         UNCHANGED <<ring, ends, conds>>, CountsOn(step, l)'
  PROVE  PipeInv'
<1>1. /\ pipe_lock = NULL /\ t \notin read_cond /\ t \notin write_cond
      /\ UNCHANGED <<read_cond, write_cond, read_poll, write_poll>>
  BY Zenon DEF Reenter, conds
<1>2. /\ \A s \in read_cond' :
            IF s = t THEN t \in Readers /\ step \in {"recv_first_wait", "recv_normal_wait"}
            ELSE s \in read_cond
      /\ \A s \in write_cond' :
            IF s = t THEN t \in Writers /\ step \in {"send_room_wait", "send_normal_wait"}
            ELSE s \in write_cond
  BY Zenon, <1>1
<1>3. pledged_read \in Nat /\ pledged_write \in Nat
  BY Zenon DEF PipeInv, Locked, Counted
<1>4. /\ pledged_read' = pledged_read + Pledge(step, RecvPledged)
                           - Pledge(pc[t], RecvPledged)
      /\ pledged_write' = pledged_write + Pledge(step, SendPledged)
                            - Pledge(pc[t], SendPledged)
  BY <1>3 DEF Pledge
<1>5. RingOK' /\ read_poll' \in BOOLEAN /\ write_poll' \in BOOLEAN
  BY Zenon, <1>1, QuietRing DEF PipeInv, Types
<1>6. step \notin Unlocked => pipe_lock' = t
  BY Zenon DEF Unlocked
<1> QED
  BY Zenon, <1>1, <1>2, <1>4, <1>5, <1>6, ThreadStep

LEMMA RecvFirstResumeKeeps ==
  ASSUME PipeInv, NEW r \in Readers, RecvFirstResume(r)
  PROVE  PipeInv'
<1>1. /\ r \in Threads /\ Reenter(r, RecvPledged) /\ local[r] \in LocalType
      /\ pc[r] \in RecvPledged /\ pc[r] \notin SendPledged
  BY Zenon
    DEF RecvFirstResume, Reenter, Threads, RecvPledged, SendPledged, PipeInv, Types
<1>2. pledged_read \in Nat /\ pledged_write \in Nat
  BY Zenon DEF PipeInv, Locked, Counted
<1>3. /\ pledged_read' = pledged_read - Pledge(pc[r], RecvPledged)
      /\ pledged_write' = pledged_write - Pledge(pc[r], SendPledged)
      /\ UNCHANGED <<ring, ends, conds>>
  BY <1>1, <1>2 DEF RecvFirstResume, Pledge
<1>4. PICK l \in LocalType, step \in {"idle", "recv_first"} :
        /\ pc' = [pc EXCEPT ![r] = step] /\ local' = [local EXCEPT ![r] = l]
        /\ pipe_lock' \in {r, NULL} /\ (step # "idle" => pipe_lock' = r)
  BY Zenon, <1>1, NoCallType
     DEF RecvFirstResume, Return, Release, PipeInv, Types
<1>5. /\ step \in Steps /\ step \notin RecvPledged \cup SendPledged
      /\ step # "send_room_wait" /\ CountsOn(step, l)'
  BY Zenon, CountsOnNothing DEF Steps, RecvPledged, SendPledged
<1> QED
  BY Zenon, <1>1, <1>3, <1>4, <1>5, ResumeKeeps

LEMMA RecvNormalResumeKeeps ==
  ASSUME PipeInv, NEW r \in Readers, RecvNormalResume(r)
  PROVE  PipeInv'
<1>1. /\ r \in Threads /\ Reenter(r, RecvPledged) /\ local[r] \in LocalType
      /\ pc[r] \in RecvPledged /\ pc[r] \notin SendPledged
      /\ local \in [Threads -> LocalType]
  BY
    DEF RecvNormalResume, Reenter, Threads, RecvPledged, SendPledged, PipeInv, Types
<1>2. pledged_read \in Nat /\ pledged_write \in Nat
  BY Zenon DEF PipeInv, Locked, Counted
<1>3. /\ pledged_read' = pledged_read - Pledge(pc[r], RecvPledged)
      /\ pledged_write' = pledged_write - Pledge(pc[r], SendPledged)
      /\ UNCHANGED <<ring, ends, conds>>
  BY <1>1, <1>2 DEF RecvNormalResume, Pledge
<1>4. CASE Return(r)
  <2>1. PICK l \in LocalType, step \in {"idle"} :
          /\ pc' = [pc EXCEPT ![r] = step] /\ local' = [local EXCEPT ![r] = l]
          /\ pipe_lock' \in {r, NULL}
    BY Zenon, <1>4, NoCallType DEF Return, Release
  <2>2. /\ step \in Steps /\ step \notin RecvPledged \cup SendPledged
        /\ step # "send_room_wait" /\ CountsOn(step, l)'
    BY Zenon, CountsOnNothing DEF Steps, RecvPledged, SendPledged
  <2> QED
    BY Zenon, <1>1, <1>3, <2>1, <2>2, ResumeKeeps
<1>5. CASE /\ ~(buffer_used > 0 /\ ReadBuffer(0).a > 0)
           /\ pipe_lock' = r /\ pc' = [pc EXCEPT ![r] = "recv_normal"]
           /\ local' = [local EXCEPT ![r].normal =
                          IF buffer_used > 0 THEN ReadBuffer(0).b ELSE 0]
  <2>1. PICK b : b = IF buffer_used > 0 THEN ReadBuffer(0).b ELSE 0
    BY Zenon
  <2>2. b \in Nat /\ (b > 0 => buffer_used > 0 /\ Cells[0] = Header(0, b))
    <3>1. CASE buffer_used > 0
      BY <1>5, <2>1, <3>1, FirstHeader
    <3>2. CASE ~(buffer_used > 0)
      BY <2>1, <3>2
    <3> QED
      BY Zenon, <3>1, <3>2
  <2>0. PICK l : l = [local[r] EXCEPT !.normal = b]
    BY Zenon
  <2>3. l \in LocalType /\ l.normal = b
    BY <1>1, <2>2, <2>0, AssignNormal
  <2>4. PICK step \in Steps : step = "recv_normal"
    BY Zenon DEF Steps
  <2>5. Cells' = Cells /\ buffer_used' = buffer_used
    BY Zenon, <1>3, QuietRing DEF ring
  <2>6. CountsOn(step, l)'
    BY Zenon, <2>2, <2>3, <2>4, <2>5
    DEF CountsOn, Receiving, Reserved, Undoable, SendPledged
  <2>7. /\ step \notin RecvPledged \cup SendPledged /\ step # "send_room_wait"
        /\ pipe_lock' = r /\ pc' = [pc EXCEPT ![r] = step]
    BY Zenon, <1>5, <2>4 DEF RecvPledged, SendPledged
  <2>8. local' = [local EXCEPT ![r] = l]
    BY Zenon, <1>1, <1>5, <2>1, <2>0
  <2> QED
    BY Zenon, <1>1, <1>3, <2>3, <2>6, <2>7, <2>8, ResumeKeeps
<1> QED
  BY Zenon, <1>4, <1>5 DEF RecvNormalResume

LEMMA RecvAncillaryKeeps ==
  ASSUME PipeInv, NEW r \in Readers, RecvAncillary(r)
  PROVE  PipeInv'
<1>1. /\ r \in Threads /\ pc[r] = "recv_ancillary" /\ pc[r] \notin Unlocked
      /\ pc[r] \notin RecvPledged \cup SendPledged /\ pc[r] \notin Waits
      /\ local[r] \in LocalType /\ UNCHANGED <<ends, pledges>>
  BY
    DEF RecvAncillary, Threads, Unlocked, RecvPledged, SendPledged, Waits, PipeInv, Types
<1>2. /\ pipe_lock = r /\ r \notin read_cond /\ r \notin write_cond
      /\ local[r].i \in Nat /\ local[r].normal \in Nat
      /\ local[r].i + local[r].normal > 0 =>
           buffer_used > 0 /\ Cells[0] = Header(local[r].i, local[r].normal)
  BY Zenon, <1>1, AwakeAt, LocalFields DEF PipeInv, Locked, CountsOn, Receiving
<1>3. ASSUME local[r].i > 0, Dequeue(1)
      PROVE  /\ RingOK' /\ read_cond' \subseteq read_cond /\ write_cond' \subseteq write_cond
             /\ read_poll' \in BOOLEAN /\ write_poll' \in BOOLEAN
             /\ local[r].i - 1 + local[r].normal > 0 =>
                  /\ buffer_used' > 0
                  /\ Cells'[0] = Header(local[r].i - 1, local[r].normal)
  <2>1. buffer_used > 0 /\ Cells[0] = Header(local[r].i, local[r].normal)
    BY <1>2, <1>3
  <2>2. Cells[0].a = local[r].i /\ Cells[0].b = local[r].normal
    BY <2>1, HeaderFields
  <2>3. Less(Cells[0], 1) = Header(local[r].i - 1, local[r].normal)
    BY Zenon, <1>3, <2>2 DEF Less
  <2>4. local[r].i - 1 + local[r].normal > 0 => NonEmpty(Less(Cells[0], 1))
    BY <1>2, <1>3, <2>3, HeaderFields DEF NonEmpty
  <2>5. 1 \in Nat \ {0} /\ 1 <= IF Cells[0].a > 0 THEN Cells[0].a ELSE Cells[0].b
    BY <1>2, <1>3, <2>2
  <2> QED
    BY Zenon, <1>3, <2>1, <2>3, <2>4, <2>5, DequeueRing
<1>4. CASE /\ local[r].i > 0 /\ Dequeue(1)
           /\ Goto(r, "recv_ancillary", [local[r] EXCEPT !.i = @ - 1])
  <2>1. PICK a \in Nat : a = local[r].i - 1
    BY <1>2, <1>4
  <2>0. PICK l : l = [local[r] EXCEPT !.i = a]
    BY Zenon
  <2>2. l \in LocalType /\ l.i = a /\ l.normal = local[r].normal
    BY <1>1, <2>0, AssignI
  <2>3. PICK step \in Steps : step = "recv_ancillary"
    BY Zenon DEF Steps
  <2>4. CountsOn(step, l)'
    BY Zenon, <1>3, <1>4, <2>1, <2>2, <2>3
    DEF CountsOn, Receiving, Reserved, Undoable, SendPledged
  <2>5. /\ step \notin RecvPledged \cup SendPledged /\ step # "send_room_wait"
        /\ pipe_lock' = r /\ pc' = [pc EXCEPT ![r] = step]
        /\ local' = [local EXCEPT ![r] = l]
    BY Zenon, <1>2, <1>4, <2>1, <2>0, <2>3 DEF Goto, RecvPledged, SendPledged
  <2> QED
    BY Zenon, <1>1, <1>2, <1>3, <1>4, <2>2, <2>4, <2>5, PlainStep
<1>5. CASE local[r].i > 0 /\ Dequeue(1) /\ Return(r)
  <2>1. PICK step \in Steps, l \in LocalType : step = "idle" /\ l = NoCall
    BY Zenon, NoCallType DEF Steps
  <2>2. /\ step \notin RecvPledged \cup SendPledged /\ step # "send_room_wait"
        /\ pipe_lock' = NULL /\ pc' = [pc EXCEPT ![r] = step]
        /\ local' = [local EXCEPT ![r] = l]
        /\ CountsOn(step, l)'
    BY Zenon, <1>5, <2>1, CountsOnNothing
      DEF Return, Release, RecvPledged, SendPledged
  <2> QED
    BY Zenon, <1>1, <1>2, <1>3, <1>5, <2>1, <2>2, PlainStep
<1>6. CASE /\ local[r].i = 0 /\ Goto(r, "recv_normal", local[r])
           /\ UNCHANGED <<ring, conds>>
  <2>1. PICK step \in Steps, l \in LocalType : step = "recv_normal" /\ l = local[r]
    BY Zenon, <1>1 DEF Steps
  <2>2. Cells' = Cells /\ buffer_used' = buffer_used
    BY Zenon, <1>6, QuietRing DEF ring
  <2>3. CountsOn(step, l)'
    BY <1>2, <1>6, <2>1, <2>2
    DEF CountsOn, Receiving, Reserved, Undoable, SendPledged
  <2>4. /\ step \notin RecvPledged \cup SendPledged /\ step # "send_room_wait"
        /\ pipe_lock' = r /\ pc' = [pc EXCEPT ![r] = step]
        /\ local' = [local EXCEPT ![r] = l]
    BY Zenon, <1>2, <1>6, <2>1 DEF Goto, RecvPledged, SendPledged
  <2> QED
    BY Zenon, <1>1, <1>2, <1>6, <2>1, <2>3, <2>4, QuietStep
<1> QED
  BY Zenon, <1>4, <1>5, <1>6 DEF RecvAncillary

LEMMA RecvNormalKeeps ==
  ASSUME PipeInv, NEW r \in Readers, RecvNormal(r)
  PROVE  PipeInv'
<1>1. /\ r \in Threads /\ pc[r] = "recv_normal" /\ pc[r] \notin Unlocked
      /\ pc[r] \notin RecvPledged \cup SendPledged /\ pc[r] \notin Waits
      /\ local[r] \in LocalType
  BY
    DEF RecvNormal, Threads, Unlocked, RecvPledged, SendPledged, Waits, PipeInv, Types
<1>2. /\ pipe_lock = r /\ r \notin read_cond /\ r \notin write_cond
      /\ local[r].count \in Nat /\ local[r].so_far \in Nat /\ local[r].normal \in Nat
      /\ local[r].normal > 0 =>
           buffer_used > 0 /\ Cells[0] = Header(0, local[r].normal)
  BY Zenon, <1>1, AwakeAt, LocalFields DEF PipeInv, Locked, CountsOn, Receiving
<1>3. CASE Return(r) /\ UNCHANGED <<ring, ends, pledges, conds>>
  BY Zenon, <1>1, <1>3, QuietReturn
<1>4. CASE YieldRead(r, "recv_normal_yield")
  BY Zenon, <1>1, <1>4, PledgeReadKeeps DEF RecvPledged
<1>5. CASE WaitRead(r, "recv_normal_wait")
  BY Zenon, <1>1, <1>5, PledgeReadKeeps DEF RecvPledged
<1> DEFINE amount == Smaller(local[r].count, local[r].normal)
<1>6. CASE /\ local[r].count > 0 /\ local[r].normal > 0 /\ Dequeue(amount)
           /\ Goto(r, "recv_normal",
                   [local[r] EXCEPT !.so_far = @ + amount, !.count = @ - amount,
                                    !.normal = @ - amount])
           /\ UNCHANGED <<ends, pledges>>
  <2>1. PICK n \in Nat \ {0} : n = amount
    BY <1>2, <1>6 DEF Smaller
  <2>2. PICK a \in Nat, c \in Nat, b \in Nat :
          /\ a = local[r].so_far + n /\ c = local[r].count - n
          /\ b = local[r].normal - n
    BY <1>2, <2>1 DEF Smaller
  <2>3. PICK l : l = [local[r] EXCEPT !.so_far = a, !.count = c, !.normal = b]
    BY Zenon
  <2>4. l \in LocalType /\ l.normal = b
    BY Zenon, <1>1, <2>3 DEF LocalType
  <2>5. local' = [local EXCEPT ![r] = l] /\ Dequeue(n) /\ pipe_lock' = r
    BY Zenon, <1>2, <1>6, <2>1, <2>2, <2>3 DEF Goto
  <2>6. /\ buffer_used > 0 /\ Cells[0] = Header(0, local[r].normal)
        /\ Cells[0].a = 0 /\ Cells[0].b = local[r].normal
    BY <1>2, <1>6, HeaderFields
  <2>7. Less(Cells[0], n) = Header(0, b)
    BY SMTT(30), <2>2, <2>6 DEF Less
  <2>8. /\ n <= IF Cells[0].a > 0 THEN Cells[0].a ELSE Cells[0].b
        /\ b > 0 => NonEmpty(Less(Cells[0], n))
    BY <1>2, <2>1, <2>2, <2>6, <2>7, HeaderFields DEF NonEmpty, Smaller
  <2>9. /\ RingOK' /\ read_cond' \subseteq read_cond /\ write_cond' \subseteq write_cond
        /\ read_poll' \in BOOLEAN /\ write_poll' \in BOOLEAN
        /\ b > 0 => buffer_used' > 0 /\ Cells'[0] = Header(0, b)
    BY Zenon, <2>5, <2>6, <2>7, <2>8, DequeueRing
  <2>10. PICK step \in Steps : step = "recv_normal"
    BY Zenon DEF Steps
  <2>11. CountsOn(step, l)'
    BY Zenon, <2>4, <2>9, <2>10
      DEF CountsOn, Receiving, Reserved, Undoable, SendPledged
  <2>12. /\ step \notin RecvPledged \cup SendPledged /\ step # "send_room_wait"
         /\ pc' = [pc EXCEPT ![r] = step]
    BY Zenon, <1>6, <2>10 DEF Goto, RecvPledged, SendPledged
  <2> QED
    BY Zenon, <1>1, <1>2, <1>6, <2>4, <2>5, <2>9, <2>11, <2>12, PlainStep
<1> QED
  BY Zenon, <1>3, <1>4, <1>5, <1>6 DEF RecvNormal

-----------------------------------------------------------------------------
(* The writer's steps.                                                     *)

\* The last header, where new data joins.
LEMMA LastHeader ==
  ASSUME PipeInv
  PROVE  /\ buffer_used \in Nat /\ last_header_position \in Nat
         /\ buffer_size \in Nat /\ buffer_used <= buffer_size
         /\ last_header_position < buffer_used <=> buffer_used > 0
         /\ buffer_used = 0 => last_header_position = 0
         /\ buffer_used > 0 =>
              /\ last_header_position \in 0..buffer_used - 1
              /\ Cells[last_header_position] = ReadBuffer(last_header_position)
              /\ Cells[last_header_position].a \in Nat
              /\ Cells[last_header_position].b \in Nat
              /\ Cells[last_header_position].a + Cells[last_header_position].b > 0
              /\ IsHeader(Cells, last_header_position)
              /\ End(Cells, last_header_position) = buffer_used
<1>1. /\ buffer_used \in Nat /\ IsRow(Cells, buffer_used)
      /\ buffer_size \in Nat /\ buffer_used <= buffer_size
  BY RingCells DEF PipeInv, RingType
<1>2. /\ last_header_position \in Nat
      /\ IF buffer_used = 0 THEN last_header_position = 0
         ELSE /\ last_header_position < buffer_used
              /\ IsHeader(Cells, last_header_position)
              /\ End(Cells, last_header_position) = buffer_used
      /\ \A p \in 0..buffer_used - 1 :
           IsHeader(Cells, p) => Segment(Cells, buffer_used, p)
  BY Zenon DEF PipeInv, Parsed
<1>3. ASSUME buffer_used > 0
      PROVE  /\ last_header_position \in 0..buffer_used - 1
             /\ Cells[last_header_position] = ReadBuffer(last_header_position)
             /\ Cells[last_header_position].a \in Nat
             /\ Cells[last_header_position].b \in Nat
             /\ Cells[last_header_position].a + Cells[last_header_position].b > 0
  <2>1. last_header_position \in 0..buffer_used - 1
    BY <1>1, <1>2, <1>3
  <2>2. Cells[last_header_position] = ReadBuffer(last_header_position)
    BY Zenon, <2>1 DEF Cells
  <2>3. Segment(Cells, buffer_used, last_header_position)
    BY <1>1, <1>2, <1>3, <2>1
  <2> QED
    BY Zenon, <1>1, <2>1, <2>2, <2>3, CellFields DEF Segment
<1> QED
  BY <1>1, <1>2, <1>3

LEMMA SendRoomKeeps ==
  ASSUME PipeInv, NEW w \in Writers, SendRoom(w)
  PROVE  PipeInv'
<1>1. /\ w \in Threads /\ pc[w] = "send_room" /\ pc[w] \notin Unlocked
      /\ pc[w] \notin RecvPledged /\ pc[w] \notin SendPledged /\ pc[w] \notin Waits
      /\ local[w] \in LocalType /\ UNCHANGED <<ring, ends, pledges>>
  BY
    DEF SendRoom, Threads, Unlocked, RecvPledged, SendPledged, Waits, PipeInv, Types
<1>2. /\ pipe_lock = w /\ w \notin read_cond /\ w \notin write_cond
      /\ Cells' = Cells
  BY Zenon, <1>1, AwakeAt, QuietRing DEF PipeInv, Locked
<1>3. CASE Return(w) /\ UNCHANGED conds
  BY Zenon, <1>1, <1>3, QuietReturn
<1>4. CASE /\ Release(w, "send_room_wait", local[w])
           /\ write_cond' = write_cond \cup {w}
           /\ UNCHANGED <<read_cond, read_poll, write_poll>>
  <2>1. PICK step \in Steps, l \in LocalType : step = "send_room_wait" /\ l = local[w]
    BY Zenon, <1>1 DEF Steps
  <2>2. /\ pc' = [pc EXCEPT ![w] = step] /\ local' = [local EXCEPT ![w] = l]
        /\ pipe_lock' = NULL /\ step \in Unlocked
        /\ step \notin RecvPledged /\ step \notin SendPledged
    BY Zenon, <1>4, <2>1 DEF Release, Unlocked, RecvPledged, SendPledged
  <2>3. /\ \A s \in read_cond' :
              IF s = w THEN w \in Readers /\ step \in {"recv_first_wait", "recv_normal_wait"}
              ELSE s \in read_cond
        /\ \A s \in write_cond' :
              IF s = w THEN w \in Writers /\ step \in {"send_room_wait", "send_normal_wait"}
              ELSE s \in write_cond
    BY Zenon, <1>2, <1>4, <2>1
  <2>4. pledged_read \in Nat /\ pledged_write \in Nat
    BY Zenon DEF PipeInv, Locked, Counted
  <2>5. /\ pledged_read' = pledged_read + Pledge(step, RecvPledged)
                             - Pledge(pc[w], RecvPledged)
        /\ pledged_write' = pledged_write + Pledge(step, SendPledged)
                              - Pledge(pc[w], SendPledged)
    BY <1>1, <2>2, <2>4 DEF Pledge, pledges
  <2>6. RingOK' /\ CountsOn(step, l)'
    <3>1. local[w].i = 0 /\ local[w].so_far = 0
      BY Zenon, <1>1 DEF PipeInv, CountsOn, Reserved
    <3> QED
      BY Zenon, <1>1, <2>1, <3>1, QuietRing
      DEF CountsOn, Receiving, Reserved, Undoable, SendPledged
  <2>7. read_poll' \in BOOLEAN /\ write_poll' \in BOOLEAN
    BY Zenon, <1>4 DEF PipeInv, Types
  <2> QED
    BY Zenon, <1>1, <2>2, <2>3, <2>5, <2>6, <2>7, ThreadStep
<1>5. CASE /\ HasRoom(local[w].fds)
           /\ Goto(w, IF local[w].fds > 0 THEN "send_cmsg" ELSE "send_normal",
                   [local[w] EXCEPT !.need_header = NeedsHeader(local[w].fds)])
           /\ UNCHANGED conds
  <2>1. PICK step \in Steps :
          step = IF local[w].fds > 0 THEN "send_cmsg" ELSE "send_normal"
    BY Zenon DEF Steps
  <2>2. PICK h \in BOOLEAN : h = NeedsHeader(local[w].fds)
    BY Zenon DEF NeedsHeader
  <2>3. PICK l : l = [local[w] EXCEPT !.need_header = h]
    BY Zenon
  <2>4. /\ l \in LocalType /\ l.need_header = h /\ l.fds = local[w].fds
        /\ l.i = local[w].i /\ l.so_far = local[w].so_far
    BY <1>1, <2>3, AssignNeed
  <2>5. CountsOn(step, l)'
    <3>1. /\ local[w].i = 0 /\ local[w].so_far = 0 /\ local[w].fds \in Nat
      BY Zenon, <1>1, LocalFields DEF PipeInv, CountsOn, Reserved
    <3>2. (IF local[w].fds > 0 THEN local[w].fds + 2 ELSE 1) + (IF h THEN 1 ELSE 0)
             <= buffer_size - buffer_used
      BY Zenon, <1>5, <2>2 DEF HasRoom, Required
    <3>3. buffer_used = 0 => h
      BY <2>2, LastHeader DEF NeedsHeader
    <3>4. /\ buffer_size' = buffer_size /\ buffer_used' = buffer_used
          /\ NeedsHeader(l.fds)' = h
      BY Zenon, <1>1, <2>2, <2>4 DEF NeedsHeader, ring, ReadBuffer
    <3>5. Reserved(step, l)'
      BY <2>1, <2>4, <3>1, <3>2, <3>3, <3>4, LastHeader DEF Reserved, SendPledged
    <3> QED
      BY Zenon, <2>1, <3>5 DEF CountsOn, Receiving, Undoable
  <2>6. /\ step \notin RecvPledged \cup SendPledged /\ step # "send_room_wait"
        /\ pipe_lock' = w /\ pc' = [pc EXCEPT ![w] = step]
        /\ local' = [local EXCEPT ![w] = l]
    BY Zenon, <1>2, <1>5, <2>1, <2>2, <2>3 DEF Goto, RecvPledged, SendPledged
  <2> QED
    BY Zenon, <1>1, <1>2, <1>5, <2>1, <2>4, <2>5, <2>6, QuietStep
<1> QED
  BY Zenon, <1>3, <1>4, <1>5 DEF SendRoom

LEMMA SendRoomResumeKeeps ==
  ASSUME PipeInv, NEW w \in Writers, SendRoomResume(w)
  PROVE  PipeInv'
<1>1. /\ w \in Threads /\ pc[w] = "send_room_wait" /\ pipe_lock = NULL
      /\ w \notin read_cond /\ w \notin write_cond
      /\ pc[w] \notin RecvPledged \cup SendPledged
      /\ local \in [Threads -> LocalType] /\ local[w] \in LocalType
      /\ UNCHANGED <<ring, ends, pledges, conds>>
  BY Zenon
    DEF SendRoomResume, Reenter, Threads, RecvPledged, SendPledged, PipeInv, Types
<1>2. local[w].i = 0 /\ local[w].so_far = 0
  BY Zenon, <1>1 DEF PipeInv, CountsOn, Reserved
<1>3. NoCall.i = 0 /\ NoCall.so_far = 0
  BY Zenon DEF NoCall
<1>4. PICK l \in LocalType, step \in {"idle", "send_room"} :
        /\ pc' = [pc EXCEPT ![w] = step] /\ local' = [local EXCEPT ![w] = l]
        /\ pipe_lock' \in {w, NULL} /\ (step # "idle" => pipe_lock' = w)
        /\ l.i = 0 /\ l.so_far = 0
  <2>1. CASE Return(w)
    BY Zenon, <1>3, <2>1, NoCallType DEF Return, Release
  <2>2. CASE /\ pipe_lock' = w /\ pc' = [pc EXCEPT ![w] = "send_room"]
             /\ UNCHANGED local
    BY Zenon, <1>1, <1>2, <2>2
  <2> QED
    BY Zenon, <2>1, <2>2 DEF SendRoomResume
<1>5. /\ step \in Steps /\ step \notin RecvPledged \cup SendPledged
      /\ step # "send_room_wait"
  BY Zenon DEF Steps, RecvPledged, SendPledged
<1>6. CountsOn(step, l)'
  BY Zenon, <1>4 DEF CountsOn, Receiving, Reserved, Undoable, SendPledged
<1> QED
  BY Zenon, <1>1, <1>4, <1>5, <1>6, QuietStep

\* What Enqueue does, with its effect on who sleeps.
LEMMA EnqueueRing ==
  ASSUME PipeInv, NEW cells \in Seq(CellType), Len(cells) > 0,
         NEW is_ancillary \in BOOLEAN,
         \A k \in 1..Len(cells) : IF is_ancillary THEN IsControl(cells, k)
                                  ELSE cells[k].kind = "byte",
         buffer_used + Len(cells) + (IF Joins(is_ancillary) THEN 0 ELSE 1)
           <= buffer_size,
         Enqueue(cells, is_ancillary), sent' \in Nat
  PROVE  /\ RingOK' /\ read_cond' \subseteq read_cond /\ write_cond' \subseteq write_cond
         /\ read_poll' \in BOOLEAN /\ write_poll' \in BOOLEAN
         /\ buffer_size' = buffer_size
<1>1. Types /\ Parsed(Cells, buffer_used, last_header_position)
  BY Zenon DEF PipeInv
<1>2. /\ buffer' \in [0..buffer_size - 1 -> CellType]
      /\ buffer_used' = buffer_used + Len(cells)
                          + (IF Joins(is_ancillary) THEN 0 ELSE 1)
      /\ Parsed(Cells', buffer_used', last_header_position')
  BY Zenon, <1>1, EnqueueRow
<1>3. /\ buffer_size' = buffer_size /\ read_cond' = {} /\ write_cond' = write_cond
      /\ buffer_offset' = buffer_offset
      /\ read_poll' \in BOOLEAN /\ write_poll' \in BOOLEAN
  BY Zenon DEF Enqueue, SignalPolls
<1>4. /\ buffer_size \in Nat /\ buffer_size >= 2 /\ buffer_used \in 0..buffer_size
      /\ buffer_offset \in 0..buffer_size - 1
  BY Zenon, <1>1 DEF Types
<1>5. buffer_used' \in 0..buffer_size
  BY <1>2, <1>4
<1> QED
  BY Zenon, <1>2, <1>3, <1>4, <1>5 DEF RingOK

\* The same for one control cell.
JoinsControl == buffer_used > 0 /\ ~(ReadBuffer(last_header_position).b > 0)

LEMMA EnqueueControl ==
  ASSUME PipeInv, NEW kind \in {"cmsg", "fd"}, NEW a \in Nat,
         NEW h \in Nat, h = IF JoinsControl THEN 0 ELSE 1,
         buffer_used + 1 + h <= buffer_size,
         NEW cells, cells = <<Cell(kind, a, 0)>>,
         Enqueue(cells, TRUE), sent' = sent
  PROVE  /\ RingOK' /\ read_cond' \subseteq read_cond /\ write_cond' \subseteq write_cond
         /\ read_poll' \in BOOLEAN /\ write_poll' \in BOOLEAN
         /\ buffer_size' = buffer_size /\ buffer_used' = buffer_used + 1 + h
         /\ last_header_position' = IF h = 0 THEN last_header_position ELSE buffer_used
         /\ \A q \in 0..buffer_used - 1 :
              q # last_header_position' => Cells'[q] = Cells[q]
         /\ Cells'[buffer_used + h] = Cell(kind, a, 0)
         /\ Cells'[last_header_position'].b = 0
         /\ Cells'[last_header_position'].a =
              IF h = 0 THEN Cells[last_header_position].a + 1 ELSE 1
<1>2. Cell(kind, a, 0) \in CellType /\ Cell(kind, a, 0).kind \in {"cmsg", "fd"}
  BY Zenon DEF Cell, CellType
<1>3. cells \in Seq(CellType) /\ Len(cells) = 1 /\ cells[1] = Cell(kind, a, 0)
  BY <1>2
<1>11. PICK is_ancillary \in BOOLEAN : is_ancillary = TRUE
  BY Zenon
<1>1. Enqueue(cells, is_ancillary)
  BY Zenon, <1>11
<1>17. Joins(is_ancillary) = JoinsControl
  BY Zenon, <1>11 DEF Joins, JoinsControl
<1>4. /\ \A k \in 1..Len(cells) : IF is_ancillary THEN IsControl(cells, k)
                                   ELSE cells[k].kind = "byte"
      /\ Len(cells) > 0
  BY <1>2, <1>3, <1>11 DEF IsControl
<1>5. /\ h = IF Joins(is_ancillary) THEN 0 ELSE 1
      /\ buffer_used + Len(cells) + (IF Joins(is_ancillary) THEN 0 ELSE 1)
           <= buffer_size
  BY Zenon, <1>3, <1>17
<1>12. /\ sent' \in Nat /\ Types /\ Parsed(Cells, buffer_used, last_header_position)
  BY Zenon DEF PipeInv, Types
<1>13. /\ RingOK' /\ read_cond' \subseteq read_cond /\ write_cond' \subseteq write_cond
       /\ read_poll' \in BOOLEAN /\ write_poll' \in BOOLEAN
       /\ buffer_size' = buffer_size
  BY Zenon, <1>1, <1>3, <1>4, <1>5, <1>12, EnqueueRing
<1>14. /\ buffer_used' = buffer_used + Len(cells)
                           + (IF Joins(is_ancillary) THEN 0 ELSE 1)
       /\ last_header_position' = IF Joins(is_ancillary) THEN last_header_position
                                  ELSE buffer_used
  BY Zenon, <1>1, <1>3, <1>4, <1>5, <1>12, EnqueueRow
<1>15. /\ \A q \in 0..buffer_used - 1 :
            q # last_header_position' => Cells'[q] = Cells[q]
       /\ \A k \in 1..Len(cells) : Cells'[buffer_used' - Len(cells) + k - 1] = cells[k]
  BY Zenon, <1>1, <1>3, <1>4, <1>5, <1>12, EnqueueRow
<1>16. Cells'[last_header_position'] =
         LET old == IF Joins(is_ancillary) THEN Cells[last_header_position]
                    ELSE Header(0, 0)
         IN IF is_ancillary THEN Header(old.a + Len(cells), old.b)
            ELSE Header(old.a, old.b + Len(cells))
  BY Zenon, <1>1, <1>3, <1>4, <1>5, <1>12, EnqueueRow
<1>7. buffer_used \in Nat /\ h \in Nat
  BY Zenon, LastHeader
<1>6. /\ buffer_used' = buffer_used + 1 + h
      /\ last_header_position' = IF h = 0 THEN last_header_position ELSE buffer_used
  <2>1. Len(cells) = 1 /\ h = IF Joins(is_ancillary) THEN 0 ELSE 1
    BY Zenon, <1>3, <1>5
  <2>2. CASE Joins(is_ancillary)
    BY Zenon, <1>7, <1>14, <2>1, <2>2
  <2>3. CASE ~Joins(is_ancillary)
    BY <1>7, <1>14, <2>1, <2>3
  <2> QED
    BY Zenon, <2>2, <2>3
<1>8. Cells'[buffer_used + h] = Cell(kind, a, 0)
  <2>1. /\ buffer_used' - Len(cells) + 1 - 1 = buffer_used + h
        /\ 1 \in 1..Len(cells)
    <3>1. Len(cells) = 1 /\ buffer_used' = buffer_used + 1 + h
      BY Zenon, <1>3, <1>6
    <3> QED
      BY <1>7, <3>1
  <2>2. Cells'[buffer_used' - Len(cells) + 1 - 1] = cells[1]
    BY Zenon, <1>15, <2>1
  <2> QED
    BY Zenon, <1>3, <2>1, <2>2
<1>9. h = 0 => /\ Cells[last_header_position].b = 0
               /\ Cells[last_header_position].a \in Nat
  BY LastHeader DEF JoinsControl
<1>10. /\ Cells'[last_header_position'].b = 0
       /\ Cells'[last_header_position'].a =
            IF h = 0 THEN Cells[last_header_position].a + 1 ELSE 1
  <2>1. CASE h = 0
    <3>1. PICK old : old = Cells[last_header_position]
      BY Zenon
    <3>2. Len(cells) = 1
      BY Zenon, <1>3
    <3>3. Joins(is_ancillary)
      BY <1>5, <2>1
    <3>4. PICK m \in Nat : m = old.a + 1
      BY <1>9, <2>1, <3>1
    <3>5. Cells'[last_header_position'] =
            IF is_ancillary THEN Header(m, old.b) ELSE Header(old.a, old.b + 1)
      BY Zenon, <1>16, <3>1, <3>2, <3>3, <3>4
    <3>6. Cells'[last_header_position'] = Header(m, 0)
      BY Zenon, <1>9, <1>11, <2>1, <3>1, <3>5
    <3> QED
      BY <2>1, <3>1, <3>4, <3>6, HeaderFields
  <2>2. CASE h # 0
    <3>1. ~Joins(is_ancillary) /\ Len(cells) = 1
      BY Zenon, <1>3, <1>5, <2>2
    <3>2. Cells'[last_header_position'] =
            IF is_ancillary THEN Header(Header(0, 0).a + 1, Header(0, 0).b)
            ELSE Header(Header(0, 0).a, Header(0, 0).b + 1)
      BY Zenon, <1>16, <3>1
    <3>3. Cells'[last_header_position'] = Header(1, 0)
      BY <1>11, <3>2, HeaderFields
    <3> QED
      BY <2>2, <3>3, HeaderFields
  <2> QED
    BY Zenon, <2>1, <2>2
<1> QED
  BY Zenon, <1>6, <1>8, <1>10, <1>13, <1>15

-----------------------------------------------------------------------------
(* The steps of the writers that send a control message.                   *)

LEMMA SendCmsgKeeps ==
  ASSUME PipeInv, NEW w \in Writers, SendCmsg(w)
  PROVE  PipeInv'
<1>1. /\ w \in Threads /\ pc[w] = "send_cmsg" /\ pc[w] \notin Unlocked
      /\ pc[w] \notin RecvPledged \cup SendPledged /\ pc[w] \notin Waits
      /\ local[w] \in LocalType /\ UNCHANGED <<sent, ends, pledges>>
  BY
    DEF SendCmsg, Threads, Unlocked, RecvPledged, SendPledged, Waits, PipeInv, Types
<1>2. /\ pipe_lock = w /\ w \notin read_cond /\ w \notin write_cond
      /\ local[w].fds \in Nat /\ local[w].i = 0 /\ local[w].so_far = 0
      /\ local[w].fds > 0
      /\ local[w].fds + 2 + (IF NeedsHeader(local[w].fds) THEN 1 ELSE 0)
           <= buffer_size - buffer_used
  BY Zenon, <1>1, AwakeAt, LocalFields DEF PipeInv, Locked, CountsOn, Reserved
<1>3. /\ buffer_used \in Nat /\ last_header_position \in Nat /\ buffer_size \in Nat
      /\ buffer_used <= buffer_size
  BY Zenon, LastHeader
<1>4. PICK h \in Nat : h = IF JoinsControl THEN 0 ELSE 1
  BY Zenon
<1>5. h = (IF NeedsHeader(local[w].fds) THEN 1 ELSE 0)
  BY <1>2, <1>4, LastHeader DEF JoinsControl, NeedsHeader
<1>6. local[w].fds + 2 + h <= buffer_size - buffer_used
  BY Zenon, <1>2, <1>5
<1>7. PICK a \in Nat, kind \in {"cmsg", "fd"} : a = local[w].fds /\ kind = "cmsg"
  BY Zenon, <1>2
<1>8. PICK cells : cells = <<Cell(kind, a, 0)>>
  BY Zenon
<1>9. Enqueue(cells, TRUE)
  BY Zenon, <1>7, <1>8 DEF SendCmsg
<1>10. buffer_used + 1 + h <= buffer_size
  BY <1>2, <1>3, <1>6
<1>11. /\ RingOK' /\ read_cond' \subseteq read_cond /\ write_cond' \subseteq write_cond
       /\ read_poll' \in BOOLEAN /\ write_poll' \in BOOLEAN
       /\ buffer_size' = buffer_size /\ buffer_used' = buffer_used + 1 + h
       /\ last_header_position' = IF h = 0 THEN last_header_position ELSE buffer_used
       /\ \A q \in 0..buffer_used - 1 :
            q # last_header_position' => Cells'[q] = Cells[q]
       /\ Cells'[last_header_position'].b = 0
       /\ Cells'[last_header_position'].a =
            IF h = 0 THEN Cells[last_header_position].a + 1 ELSE 1
  BY Zenon, <1>1, <1>4, <1>8, <1>9, <1>10, EnqueueControl
<1>12. PICK l : l = [local[w] EXCEPT !.need_header = FALSE, !.saved = last_header_position]
  BY Zenon
<1>13. /\ l \in LocalType /\ ~l.need_header /\ l.saved = last_header_position
       /\ l.fds = local[w].fds /\ l.i = local[w].i /\ l.so_far = local[w].so_far
  BY Zenon, <1>1, <1>3, <1>12 DEF LocalType
<1>14. PICK step \in Steps : step = "send_fd"
  BY Zenon DEF Steps
<1>15. Reserved(step, l)'
  <2>1. l.fds - l.i + 1 <= buffer_size' - buffer_used'
    BY <1>2, <1>3, <1>6, <1>11, <1>13
  <2> QED
    BY <1>2, <1>13, <1>14, <2>1 DEF Reserved, SendPledged
<1>16. Undoable(step, l)'
  <2>1. /\ buffer_used' > 0 /\ Cells'[last_header_position'].b = 0
        /\ l.i + 1 <= Cells'[last_header_position'].a
    BY SMTT(30), <1>2, <1>3, <1>4, <1>11, <1>13, LastHeader DEF JoinsControl
  <2>2. CASE h = 0
    <3>1. Cells'[last_header_position'].a > 1
      BY <1>4, <1>11, <2>2, LastHeader DEF JoinsControl
    <3> QED
      BY SMTT(30), <1>2, <1>13, <2>1, <3>1 DEF Undoable
  <2>3. CASE h # 0
    <3>1. /\ last_header_position' = buffer_used
          /\ l.saved = last_header_position
      BY Zenon, <1>11, <1>13, <2>3
    <3>2. CASE buffer_used = 0
      BY Zenon, <2>1, <3>1, <3>2, LastHeader DEF Undoable
    <3>3. CASE buffer_used > 0
      <4>1. /\ last_header_position \in 0..buffer_used - 1
            /\ last_header_position < buffer_used
            /\ IsHeader(Cells, last_header_position)
            /\ End(Cells, last_header_position) = buffer_used
        BY Zenon, <3>3, LastHeader
      <4>2. Cells'[last_header_position] = Cells[last_header_position]
        BY <1>11, <3>1, <4>1
      <4>3. /\ IsHeader(Cells', l.saved) /\ End(Cells', l.saved) = last_header_position'
        BY Zenon, <3>1, <4>1, <4>2 DEF IsHeader, End
      <4> QED
        BY <1>3, <2>1, <3>1, <3>3, <4>1, <4>3 DEF Undoable
    <3> QED
      BY <1>3, <3>2, <3>3
  <2> QED
    BY Zenon, <2>2, <2>3
<1>17. CountsOn(step, l)'
  BY Zenon, <1>14, <1>15, <1>16 DEF CountsOn, Receiving
<1>18. /\ step \notin RecvPledged \cup SendPledged /\ step # "send_room_wait"
       /\ pipe_lock' = w /\ pc' = [pc EXCEPT ![w] = step]
       /\ local' = [local EXCEPT ![w] = l]
  BY Zenon, <1>2, <1>12, <1>14 DEF SendCmsg, Goto, RecvPledged, SendPledged
<1> QED
  BY Zenon, <1>1, <1>2, <1>11, <1>13, <1>17, <1>18, PlainStep

LEMMA SendFdKeeps ==
  ASSUME PipeInv, NEW w \in Writers, SendFd(w)
  PROVE  PipeInv'
<1>1. /\ w \in Threads /\ pc[w] = "send_fd" /\ pc[w] \notin Unlocked
      /\ pc[w] \notin RecvPledged \cup SendPledged /\ pc[w] \notin Waits
      /\ local[w] \in LocalType /\ UNCHANGED <<sent, ends, pledges>>
  BY Zenon
    DEF SendFd, Threads, Unlocked, RecvPledged, SendPledged, Waits, PipeInv, Types
<1>2. /\ pipe_lock = w /\ w \notin read_cond /\ w \notin write_cond
      /\ local[w].fds \in Nat /\ local[w].i \in Nat /\ local[w].saved \in Nat
      /\ Reserved("send_fd", local[w]) /\ Undoable("send_fd", local[w])
  BY Zenon, <1>1, AwakeAt, LocalFields DEF PipeInv, Locked, CountsOn
<1>3. /\ buffer_used \in Nat /\ last_header_position \in Nat /\ buffer_size \in Nat
      /\ buffer_used <= buffer_size
  BY Zenon, LastHeader
<1>4. /\ local[w].so_far = 0 /\ local[w].i <= local[w].fds /\ ~local[w].need_header
      /\ local[w].fds - local[w].i + 1 <= buffer_size - buffer_used
  BY Zenon, <1>2 DEF Reserved
<1>5. /\ buffer_used > 0 /\ Cells[last_header_position].b = 0
      /\ local[w].i + 1 <= Cells[last_header_position].a
      /\ Cells[last_header_position].a = local[w].i + 1 =>
           IF last_header_position = 0 THEN local[w].saved = 0
           ELSE /\ local[w].saved < last_header_position
                /\ IsHeader(Cells, local[w].saved)
                /\ End(Cells, local[w].saved) = last_header_position
  BY Zenon, <1>2 DEF Undoable
<1>6. CASE /\ local[w].i < local[w].fds
           /\ Enqueue(<<Cell("fd", local[w].i + 1, 0)>>, TRUE)
           /\ Goto(w, "send_fd", [local[w] EXCEPT !.i = @ + 1])
  <2>1. PICK h \in Nat : h = IF JoinsControl THEN 0 ELSE 1
    BY Zenon
  <2>2. h = 0
    BY <1>5, <2>1, LastHeader DEF JoinsControl
  <2>3. PICK a \in Nat, kind \in {"cmsg", "fd"} : a = local[w].i + 1 /\ kind = "fd"
    BY <1>2
  <2>4. PICK cells : cells = <<Cell(kind, a, 0)>>
    BY Zenon
  <2>5. Enqueue(cells, TRUE)
    BY Zenon, <1>6, <2>3, <2>4
  <2>6. buffer_used + 1 + h <= buffer_size
    BY SMTT(30), <1>2, <1>3, <1>4, <1>6, <2>2
  <2>7. /\ RingOK' /\ read_cond' \subseteq read_cond /\ write_cond' \subseteq write_cond
        /\ read_poll' \in BOOLEAN /\ write_poll' \in BOOLEAN
        /\ buffer_size' = buffer_size /\ buffer_used' = buffer_used + 1
        /\ last_header_position' = last_header_position
        /\ \A q \in 0..buffer_used - 1 :
             q # last_header_position => Cells'[q] = Cells[q]
        /\ Cells'[last_header_position].b = 0
        /\ Cells'[last_header_position].a = Cells[last_header_position].a + 1
    <3>1. /\ RingOK' /\ read_cond' \subseteq read_cond /\ write_cond' \subseteq write_cond
          /\ read_poll' \in BOOLEAN /\ write_poll' \in BOOLEAN
          /\ buffer_size' = buffer_size /\ buffer_used' = buffer_used + 1 + h
          /\ last_header_position' = IF h = 0 THEN last_header_position ELSE buffer_used
          /\ \A q \in 0..buffer_used - 1 :
               q # last_header_position' => Cells'[q] = Cells[q]
          /\ Cells'[last_header_position'].b = 0
          /\ Cells'[last_header_position'].a =
               IF h = 0 THEN Cells[last_header_position].a + 1 ELSE 1
      BY Zenon, <1>1, <2>1, <2>4, <2>5, <2>6, EnqueueControl
    <3> QED
      BY <1>3, <2>2, <3>1
  <2>8. PICK l : l = [local[w] EXCEPT !.i = a]
    BY Zenon
  <2>9. /\ l \in LocalType /\ l.i = a /\ l.fds = local[w].fds
        /\ l.so_far = local[w].so_far /\ l.saved = local[w].saved
        /\ l.need_header = local[w].need_header
    BY <1>1, <2>8, AssignI
  <2>10. PICK step \in Steps : step = "send_fd"
    BY Zenon DEF Steps
  <2>11. Reserved(step, l)'
    <3>1. l.fds - l.i + 1 <= buffer_size' - buffer_used' /\ l.i <= l.fds
      BY <1>2, <1>3, <1>4, <1>6, <2>3, <2>7, <2>9
    <3> QED
      BY Zenon, <1>4, <2>9, <2>10, <3>1 DEF Reserved, SendPledged
  <2>12. Undoable(step, l)'
    <3>1. /\ buffer_used' > 0 /\ Cells'[last_header_position'].b = 0
          /\ l.i + 1 <= Cells'[last_header_position'].a
      BY <1>2, <1>3, <1>5, <2>3, <2>7, <2>9, LastHeader
    <3>2. CASE Cells'[last_header_position'].a = l.i + 1
      <4>1. Cells[last_header_position].a = local[w].i + 1
        BY <1>2, <1>5, <2>3, <2>7, <2>9, <3>2, LastHeader
      <4>2. CASE last_header_position = 0
        BY Zenon, <1>5, <2>7, <2>9, <3>1, <4>1, <4>2 DEF Undoable
      <4>3. CASE last_header_position # 0
        <5>1. /\ l.saved < last_header_position /\ IsHeader(Cells, l.saved)
              /\ End(Cells, l.saved) = last_header_position
              /\ l.saved \in 0..buffer_used - 1 /\ l.saved # last_header_position
          BY <1>2, <1>3, <1>5, <2>9, <4>1, <4>3, LastHeader
        <5>2. Cells'[l.saved] = Cells[l.saved]
          BY Zenon, <2>7, <5>1
        <5>3. IsHeader(Cells', l.saved) /\ End(Cells', l.saved) = last_header_position'
          BY Zenon, <2>7, <5>1, <5>2 DEF IsHeader, End
        <5> QED
          BY Zenon, <2>7, <3>1, <4>3, <5>1, <5>3 DEF Undoable
      <4> QED
        BY Zenon, <4>2, <4>3
    <3>3. CASE Cells'[last_header_position'].a # l.i + 1
      BY Zenon, <3>1, <3>3 DEF Undoable
    <3> QED
      BY Zenon, <3>2, <3>3
  <2>13. CountsOn(step, l)'
    BY Zenon, <2>10, <2>11, <2>12 DEF CountsOn, Receiving
  <2>14. /\ step \notin RecvPledged \cup SendPledged /\ step # "send_room_wait"
         /\ pipe_lock' = w /\ pc' = [pc EXCEPT ![w] = step]
         /\ local' = [local EXCEPT ![w] = l]
    BY Zenon, <1>2, <1>6, <2>3, <2>8, <2>10 DEF Goto, RecvPledged, SendPledged
  <2> QED
    BY Zenon, <1>1, <1>2, <2>7, <2>9, <2>13, <2>14, PlainStep
<1>7. CASE /\ local[w].i < local[w].fds /\ Goto(w, "send_undo", local[w])
           /\ UNCHANGED <<ring, conds>>
  <2>1. PICK step \in Steps, l \in LocalType : step = "send_undo" /\ l = local[w]
    BY Zenon, <1>1 DEF Steps
  <2>2. /\ Cells' = Cells /\ buffer_used' = buffer_used /\ buffer_size' = buffer_size
        /\ last_header_position' = last_header_position
    BY Zenon, <1>7, QuietRing DEF ring
  <2>3. Reserved(step, l)'
    BY Zenon, <1>4, <2>1, <2>2 DEF Reserved, SendPledged
  <2>4. Undoable(step, l)'
    BY Zenon, <1>5, <2>1, <2>2 DEF Undoable
  <2>5. CountsOn(step, l)'
    BY Zenon, <2>1, <2>3, <2>4 DEF CountsOn, Receiving
  <2>6. /\ step \notin RecvPledged \cup SendPledged /\ step # "send_room_wait"
        /\ pipe_lock' = w /\ pc' = [pc EXCEPT ![w] = step]
        /\ local' = [local EXCEPT ![w] = l]
    BY Zenon, <1>2, <1>7, <2>1 DEF Goto, RecvPledged, SendPledged
  <2> QED
    BY Zenon, <1>1, <1>2, <1>7, <2>5, <2>6, QuietStep
<1>8. CASE /\ local[w].i = local[w].fds /\ Goto(w, "send_normal", local[w])
           /\ UNCHANGED <<ring, conds>>
  <2>1. PICK step \in Steps, l \in LocalType : step = "send_normal" /\ l = local[w]
    BY Zenon, <1>1 DEF Steps
  <2>2. /\ buffer_used' = buffer_used /\ buffer_size' = buffer_size
    BY Zenon, <1>8 DEF ring
  <2>3. buffer_size - buffer_used > 0
    BY <1>2, <1>3, <1>4, <1>8
  <2>4. Reserved(step, l)'
    BY <1>4, <1>5, <2>1, <2>2, <2>3 DEF Reserved, SendPledged
  <2>5. CountsOn(step, l)'
    BY Zenon, <2>1, <2>4 DEF CountsOn, Receiving, Undoable
  <2>6. /\ step \notin RecvPledged \cup SendPledged /\ step # "send_room_wait"
        /\ pipe_lock' = w /\ pc' = [pc EXCEPT ![w] = step]
        /\ local' = [local EXCEPT ![w] = l]
    BY Zenon, <1>2, <1>8, <2>1 DEF Goto, RecvPledged, SendPledged
  <2> QED
    BY Zenon, <1>1, <1>2, <1>8, <2>5, <2>6, QuietStep
<1> QED
  BY Zenon, <1>6, <1>7, <1>8 DEF SendFd

LEMMA SendUndoKeeps ==
  ASSUME PipeInv, NEW w \in Writers, SendUndo(w)
  PROVE  PipeInv'
<1>1. /\ w \in Threads /\ pc[w] = "send_undo" /\ pc[w] \notin Unlocked
      /\ pc[w] \notin RecvPledged \cup SendPledged /\ pc[w] \notin Waits
      /\ local[w] \in LocalType /\ UNCHANGED <<ends, pledges>>
      /\ Unenqueue(local[w].saved)
  BY
    DEF SendUndo, Threads, Unlocked, RecvPledged, SendPledged, Waits, PipeInv, Types
<1>2. /\ pipe_lock = w /\ w \notin read_cond /\ w \notin write_cond
      /\ local[w].fds \in Nat /\ local[w].i \in Nat /\ local[w].saved \in Nat
      /\ Reserved("send_undo", local[w]) /\ Undoable("send_undo", local[w])
  BY Zenon, <1>1, AwakeAt, LocalFields DEF PipeInv, Locked, CountsOn
<1>3. /\ buffer_used \in Nat /\ last_header_position \in Nat /\ buffer_size \in Nat
      /\ buffer_used <= buffer_size
  BY Zenon, LastHeader
<1>4. /\ local[w].so_far = 0 /\ local[w].i <= local[w].fds /\ ~local[w].need_header
      /\ local[w].fds - local[w].i + 1 <= buffer_size - buffer_used
  BY Zenon, <1>2 DEF Reserved
<1>5. /\ buffer_used > 0 /\ Cells[last_header_position].b = 0
      /\ local[w].i + 1 <= Cells[last_header_position].a
      /\ Cells[last_header_position].a \in Nat
      /\ Cells[last_header_position].a = local[w].i + 1 =>
           IF last_header_position = 0 THEN local[w].saved = 0
           ELSE /\ local[w].saved < last_header_position
                /\ IsHeader(Cells, local[w].saved)
                /\ End(Cells, local[w].saved) = last_header_position
  BY Zenon, <1>2, LastHeader DEF Undoable
<1>6. /\ buffer' \in [0..buffer_size - 1 -> CellType]
      /\ IF Cells[last_header_position].a > 1
         THEN /\ buffer_used' = buffer_used - 1
              /\ last_header_position' = last_header_position
              /\ last_header_position < buffer_used - 1
              /\ Cells'[last_header_position] =
                   Header(Cells[last_header_position].a - 1, 0)
         ELSE /\ buffer_used' = buffer_used - 2
              /\ last_header_position' = local[w].saved
              /\ last_header_position = buffer_used - 2
      /\ buffer_used' \in Nat
      /\ Parsed(Cells', buffer_used', last_header_position')
      /\ \A q \in 0..buffer_used' - 1 :
           q # last_header_position => Cells'[q] = Cells[q]
  <2>1. Types /\ Parsed(Cells, buffer_used, last_header_position)
    BY Zenon DEF PipeInv
  <2>2. PICK saved \in Nat : saved = local[w].saved
    BY Zenon, <1>2
  <2>3. /\ Cells[last_header_position].a > 0
        /\ Cells[last_header_position].a = 1 =>
             IF last_header_position = 0 THEN saved = 0
             ELSE /\ saved < last_header_position /\ IsHeader(Cells, saved)
                  /\ End(Cells, saved) = last_header_position
    BY <1>2, <1>5, <2>2
  <2>4. Unenqueue(saved)
    BY Zenon, <1>1, <2>2
  <2> QED
    BY Zenon, <1>5, <2>1, <2>2, <2>3, <2>4, UnenqueueRow
<1>7. /\ buffer_size' = buffer_size /\ buffer_offset' = buffer_offset
      /\ read_cond' = read_cond /\ write_cond' = {} /\ sent' = sent
      /\ read_poll' \in BOOLEAN /\ write_poll' \in BOOLEAN
  BY Zenon, <1>1 DEF Unenqueue, SignalPolls
<1>8. RingOK'
  <2>1. /\ buffer_size >= 2 /\ buffer_offset \in 0..buffer_size - 1 /\ sent \in Nat
    BY Zenon DEF PipeInv, Types
  <2>2. buffer_used' \in 0..buffer_size
    BY <1>3, <1>6
  <2> QED
    BY Zenon, <1>3, <1>6, <1>7, <2>1, <2>2 DEF RingOK
<1>9. /\ read_cond' \subseteq read_cond /\ write_cond' \subseteq write_cond
  BY Zenon, <1>7
<1>10. CASE /\ local[w].i > 0 /\ Goto(w, "send_undo", [local[w] EXCEPT !.i = @ - 1])
  <2>1. PICK a \in Nat : a = local[w].i - 1
    BY <1>2, <1>10
  <2>2. PICK l : l = [local[w] EXCEPT !.i = a]
    BY Zenon
  <2>3. /\ l \in LocalType /\ l.i = a /\ l.fds = local[w].fds
        /\ l.so_far = local[w].so_far /\ l.saved = local[w].saved
        /\ l.need_header = local[w].need_header
    BY <1>1, <2>2, AssignI
  <2>4. PICK step \in Steps : step = "send_undo"
    BY Zenon DEF Steps
  <2>5. PICK n \in Nat : n = Cells[last_header_position].a
    BY Zenon, <1>5
  <2>6. n > 1
    BY <1>2, <1>5, <1>10, <2>5
  <2>7. PICK m \in Nat : m = n - 1
    BY <2>6
  <2>8. /\ buffer_used' = buffer_used - 1 /\ last_header_position' = last_header_position
        /\ last_header_position < buffer_used - 1
        /\ Cells'[last_header_position] = Header(m, 0)
    BY Zenon, <1>6, <2>5, <2>6, <2>7
  <2>9. Cells'[last_header_position].a = m /\ Cells'[last_header_position].b = 0
    BY <2>8, HeaderFields
  <2>10. Reserved(step, l)'
    <3>1. l.fds - l.i + 1 <= buffer_size' - buffer_used' /\ l.i <= l.fds
      BY <1>2, <1>3, <1>4, <1>7, <2>1, <2>3, <2>8
    <3> QED
      BY Zenon, <1>4, <2>3, <2>4, <3>1 DEF Reserved, SendPledged
  <2>11. Undoable(step, l)'
    <3>1. /\ buffer_used' > 0 /\ Cells'[last_header_position'].b = 0
          /\ l.i + 1 <= Cells'[last_header_position'].a
      BY <1>2, <1>3, <1>5, <2>1, <2>3, <2>5, <2>7, <2>8, <2>9
    <3>2. CASE Cells'[last_header_position'].a = l.i + 1
      <4>1. Cells[last_header_position].a = local[w].i + 1
        BY <1>2, <2>1, <2>3, <2>5, <2>7, <2>8, <2>9, <3>2
      <4>2. CASE last_header_position = 0
        BY Zenon, <1>5, <2>3, <2>8, <3>1, <4>1, <4>2 DEF Undoable
      <4>3. CASE last_header_position # 0
        <5>1. /\ l.saved < last_header_position /\ IsHeader(Cells, l.saved)
              /\ End(Cells, l.saved) = last_header_position
              /\ l.saved \in 0..buffer_used' - 1 /\ l.saved # last_header_position
          BY <1>2, <1>3, <1>5, <2>3, <2>8, <4>1, <4>3
        <5>2. Cells'[l.saved] = Cells[l.saved]
          BY Zenon, <1>6, <5>1
        <5>3. IsHeader(Cells', l.saved) /\ End(Cells', l.saved) = last_header_position'
          BY Zenon, <2>8, <5>1, <5>2 DEF IsHeader, End
        <5> QED
          BY Zenon, <2>8, <3>1, <4>3, <5>1, <5>3 DEF Undoable
      <4> QED
        BY Zenon, <4>2, <4>3
    <3>3. CASE Cells'[last_header_position'].a # l.i + 1
      BY Zenon, <3>1, <3>3 DEF Undoable
    <3> QED
      BY Zenon, <3>2, <3>3
  <2>12. CountsOn(step, l)'
    BY Zenon, <2>4, <2>10, <2>11 DEF CountsOn, Receiving
  <2>13. /\ step \notin RecvPledged \cup SendPledged /\ step # "send_room_wait"
         /\ pipe_lock' = w /\ pc' = [pc EXCEPT ![w] = step]
         /\ local' = [local EXCEPT ![w] = l]
    BY Zenon, <1>2, <1>10, <2>1, <2>2, <2>4 DEF Goto, RecvPledged, SendPledged
  <2> QED
    BY Zenon, <1>1, <1>2, <1>7, <1>8, <1>9, <2>3, <2>12, <2>13, PlainStep
<1>11. CASE Return(w)
  <2>1. PICK step \in Steps, l \in LocalType : step = "idle" /\ l = NoCall
    BY Zenon, NoCallType DEF Steps
  <2>2. /\ step \notin RecvPledged \cup SendPledged /\ step # "send_room_wait"
        /\ pipe_lock' = NULL /\ pc' = [pc EXCEPT ![w] = step]
        /\ local' = [local EXCEPT ![w] = l]
        /\ CountsOn(step, l)'
    BY Zenon, <1>11, <2>1, CountsOnNothing
      DEF Return, Release, RecvPledged, SendPledged
  <2> QED
    BY Zenon, <1>1, <1>2, <1>7, <1>8, <1>9, <2>1, <2>2, PlainStep
<1> QED
  BY Zenon, <1>10, <1>11 DEF SendUndo

LEMMA SendNormalResumeKeeps ==
  ASSUME PipeInv, NEW w \in Writers, SendNormalResume(w)
  PROVE  PipeInv'
<1>1. /\ w \in Threads /\ Reenter(w, SendPledged) /\ local[w] \in LocalType
      /\ pc[w] \in SendPledged /\ pc[w] \notin RecvPledged
      /\ local \in [Threads -> LocalType]
  BY Zenon
    DEF SendNormalResume, Reenter, Threads, RecvPledged, SendPledged, PipeInv, Types
<1>2. pledged_read \in Nat /\ pledged_write \in Nat
  BY Zenon DEF PipeInv, Locked, Counted
<1>3. /\ pledged_read' = pledged_read - Pledge(pc[w], RecvPledged)
      /\ pledged_write' = pledged_write - Pledge(pc[w], SendPledged)
      /\ UNCHANGED <<ring, ends, conds>>
  BY <1>1, <1>2 DEF SendNormalResume, Pledge
<1>4. CASE Return(w)
  <2>1. PICK l \in LocalType, step \in {"idle"} :
          /\ pc' = [pc EXCEPT ![w] = step] /\ local' = [local EXCEPT ![w] = l]
          /\ pipe_lock' \in {w, NULL}
    BY Zenon, <1>4, NoCallType DEF Return, Release
  <2>2. /\ step \in Steps /\ step \notin RecvPledged \cup SendPledged
        /\ step # "send_room_wait" /\ CountsOn(step, l)'
    BY Zenon, CountsOnNothing DEF Steps, RecvPledged, SendPledged
  <2> QED
    BY Zenon, <1>1, <1>3, <2>1, <2>2, ResumeKeeps
<1>5. CASE /\ pipe_lock' = w /\ pc' = [pc EXCEPT ![w] = "send_normal"]
           /\ local' = [local EXCEPT ![w].need_header =
                          (last_header_position = buffer_used)]
  <2>1. PICK h \in BOOLEAN : h = (last_header_position = buffer_used)
    BY Zenon
  <2>2. PICK l : l = [local[w] EXCEPT !.need_header = h]
    BY Zenon
  <2>3. l \in LocalType /\ l.need_header = h /\ l.so_far = local[w].so_far
    BY <1>1, <2>2, AssignNeed
  <2>4. local[w].so_far > 0 /\ local[w].so_far \in Nat
    BY Zenon, <1>1, LocalFields DEF PipeInv, CountsOn, Reserved, SendPledged
  <2>5. buffer_used = 0 => h
    BY Zenon, <2>1, LastHeader
  <2>6. PICK step \in Steps : step = "send_normal"
    BY Zenon DEF Steps
  <2>7. buffer_used' = buffer_used
    BY Zenon, <1>3 DEF ring
  <2>8. Reserved(step, l)'
    BY <2>3, <2>4, <2>5, <2>6, <2>7 DEF Reserved, SendPledged
  <2>9. CountsOn(step, l)'
    BY Zenon, <2>6, <2>8 DEF CountsOn, Receiving, Undoable
  <2>10. /\ step \notin RecvPledged \cup SendPledged /\ step # "send_room_wait"
         /\ pipe_lock' = w /\ pc' = [pc EXCEPT ![w] = step]
    BY Zenon, <1>5, <2>6 DEF RecvPledged, SendPledged
  <2>11. local' = [local EXCEPT ![w] = l]
    BY Zenon, <1>1, <1>5, <2>1, <2>2
  <2> QED
    BY Zenon, <1>1, <1>3, <2>3, <2>9, <2>10, <2>11, ResumeKeeps
<1> QED
  BY Zenon, <1>4, <1>5 DEF SendNormalResume

\* Enqueue of bytes.
LEMMA EnqueueBytes ==
  ASSUME PipeInv, NEW n \in Nat \ {0}, NEW h \in Nat, h = IF buffer_used > 0 THEN 0 ELSE 1,
         buffer_used + n + h <= buffer_size,
         NEW cells, cells = [i \in 1..n |-> Byte(sent + i)],
         Enqueue(cells, FALSE), sent' \in Nat
  PROVE  /\ RingOK' /\ read_cond' \subseteq read_cond /\ write_cond' \subseteq write_cond
         /\ read_poll' \in BOOLEAN /\ write_poll' \in BOOLEAN
         /\ buffer_size' = buffer_size /\ buffer_used' = buffer_used + n + h
         /\ last_header_position' = IF h = 0 THEN last_header_position ELSE buffer_used
         /\ \A q \in 0..buffer_used - 1 :
              q # last_header_position' => Cells'[q] = Cells[q]
         /\ \A q \in buffer_used + h..buffer_used' - 1 : Cells'[q].kind = "byte"
<1>1. PICK is_ancillary \in BOOLEAN : is_ancillary = FALSE
  BY Zenon
<1>2. Enqueue(cells, is_ancillary)
  BY Zenon, <1>1
<1>3. Joins(is_ancillary) = (buffer_used > 0)
  BY <1>1 DEF Joins
<1>4. sent \in Nat /\ Types /\ Parsed(Cells, buffer_used, last_header_position)
  BY Zenon DEF PipeInv, Types
<1>5. \A i \in 1..n : Byte(sent + i) \in CellType /\ Byte(sent + i).kind = "byte"
  BY <1>4 DEF Byte, Cell, CellType
<1>6. cells \in Seq(CellType) /\ Len(cells) = n /\ \A i \in 1..n : cells[i].kind = "byte"
  BY <1>5
<1>7. /\ \A k \in 1..Len(cells) : IF is_ancillary THEN IsControl(cells, k)
                                  ELSE cells[k].kind = "byte"
      /\ Len(cells) > 0
  BY <1>1, <1>6
<1>8. buffer_used + Len(cells) + (IF Joins(is_ancillary) THEN 0 ELSE 1) <= buffer_size
  BY Zenon, <1>3, <1>6
<1>9. /\ RingOK' /\ read_cond' \subseteq read_cond /\ write_cond' \subseteq write_cond
      /\ read_poll' \in BOOLEAN /\ write_poll' \in BOOLEAN
      /\ buffer_size' = buffer_size
  BY Zenon, <1>2, <1>6, <1>7, <1>8, EnqueueRing
<1>10. /\ buffer_used' = buffer_used + Len(cells)
                           + (IF Joins(is_ancillary) THEN 0 ELSE 1)
       /\ last_header_position' = IF Joins(is_ancillary) THEN last_header_position
                                  ELSE buffer_used
  BY Zenon, <1>2, <1>4, <1>6, <1>7, <1>8, EnqueueRow
<1>11. /\ \A q \in 0..buffer_used - 1 :
            q # last_header_position' => Cells'[q] = Cells[q]
       /\ \A k \in 1..Len(cells) : Cells'[buffer_used' - Len(cells) + k - 1] = cells[k]
  BY Zenon, <1>2, <1>4, <1>6, <1>7, <1>8, EnqueueRow
<1>12. buffer_used \in Nat
  BY Zenon, LastHeader
<1>13. /\ buffer_used' = buffer_used + n + h
       /\ last_header_position' = IF h = 0 THEN last_header_position ELSE buffer_used
  <2>1. Len(cells) = n
    BY Zenon, <1>6
  <2>2. CASE Joins(is_ancillary)
    <3>1. h = 0
      BY Zenon, <1>3, <2>2
    <3> QED
      BY Zenon, <1>10, <1>12, <2>1, <2>2, <3>1
  <2>3. CASE ~Joins(is_ancillary)
    <3>1. h = 1
      BY Zenon, <1>3, <2>3
    <3> QED
      BY <1>10, <1>12, <2>1, <2>3, <3>1
  <2> QED
    BY Zenon, <2>2, <2>3
<1>14. ASSUME NEW q \in buffer_used + h..buffer_used' - 1
       PROVE  Cells'[q].kind = "byte"
  <2>0. /\ buffer_used' = buffer_used + n + h /\ q \in Int
        /\ buffer_used + h <= q /\ q <= buffer_used' - 1
    BY <1>12, <1>13
  <2>1. PICK k : k = q - buffer_used - h + 1
    BY Zenon
  <2>5. k \in 1..n
    BY <1>12, <2>0, <2>1
  <2>2. buffer_used' - n + k - 1 = q
    BY <1>12, <2>0, <2>1
  <2>3. k \in 1..Len(cells) /\ buffer_used' - Len(cells) + k - 1 = q
    BY Zenon, <1>6, <2>2, <2>5
  <2>4. Cells'[q] = cells[k]
    BY Zenon, <1>11, <2>3
  <2> QED
    BY Zenon, <1>6, <2>4, <2>5
<1> QED
  BY Zenon, <1>9, <1>11, <1>13, <1>14

LEMMA SendNormalKeeps ==
  ASSUME PipeInv, NEW w \in Writers, SendNormal(w)
  PROVE  PipeInv'
<1>1. /\ w \in Threads /\ pc[w] = "send_normal" /\ pc[w] \notin Unlocked
      /\ pc[w] \notin RecvPledged /\ pc[w] \notin SendPledged /\ pc[w] \notin Waits
      /\ local[w] \in LocalType /\ UNCHANGED ends
  BY Zenon
    DEF SendNormal, Threads, Unlocked, RecvPledged, SendPledged, Waits, PipeInv, Types
<1>2. /\ pipe_lock = w /\ w \notin read_cond /\ w \notin write_cond
      /\ local[w].count \in Nat /\ local[w].so_far \in Nat
      /\ Reserved("send_normal", local[w])
  BY Zenon, <1>1, AwakeAt, LocalFields DEF PipeInv, Locked, CountsOn
<1>3. /\ buffer_used \in Nat /\ last_header_position \in Nat /\ buffer_size \in Nat
      /\ buffer_used <= buffer_size /\ sent \in Nat
  BY Zenon, LastHeader DEF PipeInv, Types
<1>4. PICK o \in {0, 1} : o = Overhead(w)
  BY Zenon DEF Overhead
<1>5. /\ buffer_used = 0 => o = 1
      /\ local[w].so_far = 0 /\ local[w].count > 0 => buffer_size - buffer_used > o
  BY Zenon, <1>2, <1>4 DEF Reserved, Overhead
<1>6. CASE Return(w) /\ UNCHANGED <<ring, pledges, conds>>
  BY Zenon, <1>1, <1>6, QuietReturn
<1> DEFINE amount == Smaller(local[w].count, buffer_size - buffer_used - Overhead(w))
<1>7. CASE /\ local[w].count > 0 /\ ~(buffer_size - buffer_used <= Overhead(w))
           /\ Enqueue([i \in 1..amount |-> Byte(sent + i)], FALSE)
           /\ sent' = sent + amount
           /\ Goto(w, "send_normal", [local[w] EXCEPT !.so_far = @ + amount,
                                                      !.count = @ - amount])
           /\ UNCHANGED pledges
  <2>1. PICK n \in Nat \ {0} : n = amount /\ n <= local[w].count
                               /\ n <= buffer_size - buffer_used - o
    BY <1>2, <1>3, <1>4, <1>7 DEF Smaller
  <2>2. PICK h \in Nat : h = IF buffer_used > 0 THEN 0 ELSE 1
    BY Zenon
  <2>3. buffer_used + n + h <= buffer_size
    BY <1>3, <1>4, <1>5, <2>1, <2>2
  <2>4. PICK cells : cells = [i \in 1..n |-> Byte(sent + i)]
    BY Zenon
  <2>5. Enqueue(cells, FALSE)
    BY Zenon, <1>7, <2>1, <2>4
  <2>6. sent' \in Nat
    BY <1>3, <1>7, <2>1
  <2>7. /\ RingOK' /\ read_cond' \subseteq read_cond /\ write_cond' \subseteq write_cond
        /\ read_poll' \in BOOLEAN /\ write_poll' \in BOOLEAN
        /\ buffer_used' = buffer_used + n + h
    BY Zenon, <2>2, <2>3, <2>4, <2>5, <2>6, EnqueueBytes
  <2>8. PICK a \in Nat, c \in Nat : a = local[w].so_far + n /\ c = local[w].count - n
    BY <1>2, <2>1
  <2>9. PICK l : l = [local[w] EXCEPT !.so_far = a, !.count = c]
    BY Zenon
  <2>10. l \in LocalType /\ l.so_far = a
    BY Zenon, <1>1, <2>9 DEF LocalType
  <2>11. PICK step \in Steps : step = "send_normal"
    BY Zenon DEF Steps
  <2>12. buffer_used' > 0 /\ a > 0
    BY <1>2, <1>3, <2>7, <2>8
  <2>13. Reserved(step, l)'
    BY <2>10, <2>11, <2>12 DEF Reserved, SendPledged
  <2>14. CountsOn(step, l)'
    BY Zenon, <2>11, <2>13 DEF CountsOn, Receiving, Undoable
  <2>15. /\ step \notin RecvPledged \cup SendPledged /\ step # "send_room_wait"
         /\ pipe_lock' = w /\ pc' = [pc EXCEPT ![w] = step]
         /\ local' = [local EXCEPT ![w] = l]
    BY Zenon, <1>2, <1>7, <2>1, <2>8, <2>9, <2>11
       DEF Goto, RecvPledged, SendPledged
  <2>16. pc[w] \notin RecvPledged \cup SendPledged
    BY Zenon, <1>1
  <2> QED
    BY Zenon, <1>1, <1>2, <1>7, <2>7, <2>10, <2>14, <2>15, <2>16, PlainStep
<1>8. CASE /\ local[w].count > 0 /\ buffer_size - buffer_used <= Overhead(w)
           /\ pledged_read > 0 \/ (local[w].so_far = 0 /\ ~local[w].nonblock)
           /\ pledged_write' = pledged_write + 1
           /\ IF pledged_read > 0
              THEN /\ Release(w, "send_normal_yield", local[w])
                   /\ UNCHANGED conds
              ELSE /\ Release(w, "send_normal_wait", local[w])
                   /\ write_cond' = write_cond \cup {w}
                   /\ UNCHANGED <<read_cond, read_poll, write_poll>>
           /\ UNCHANGED <<ring, pledged_read>>
  <2>1. local[w].so_far > 0 /\ pledged_read > 0
    BY <1>2, <1>3, <1>4, <1>5, <1>8
  <2>2. PICK l \in LocalType, step \in Steps : l = local[w] /\ step = "send_normal_yield"
    BY Zenon, <1>1 DEF Steps
  <2>3. step \in Unlocked /\ step \in SendPledged /\ step \notin RecvPledged
    BY Zenon, <2>2 DEF Unlocked, RecvPledged, SendPledged
  <2>4. /\ pc' = [pc EXCEPT ![w] = step] /\ local' = [local EXCEPT ![w] = l]
        /\ pipe_lock' = NULL
        /\ UNCHANGED <<read_cond, write_cond, read_poll, write_poll>>
    BY Zenon, <1>8, <2>1, <2>2 DEF Release, conds
  <2>6. CountsOn(step, l)'
    BY Zenon, <2>1, <2>2 DEF CountsOn, Receiving, Reserved, Undoable
  <2>7. /\ \A s \in read_cond' :
              IF s = w THEN w \in Readers /\ step \in {"recv_first_wait", "recv_normal_wait"}
              ELSE s \in read_cond
        /\ \A s \in write_cond' :
              IF s = w THEN w \in Writers /\ step \in {"send_room_wait", "send_normal_wait"}
              ELSE s \in write_cond
    BY Zenon, <1>2, <2>4
  <2>8. pledged_read \in Nat /\ pledged_write \in Nat
    BY Zenon DEF PipeInv, Locked, Counted
  <2>9. /\ pledged_read' = pledged_read + Pledge(step, RecvPledged)
                             - Pledge(pc[w], RecvPledged)
        /\ pledged_write' = pledged_write + Pledge(step, SendPledged)
                              - Pledge(pc[w], SendPledged)
    BY <1>1, <1>8, <2>3, <2>8 DEF Pledge
  <2>10. RingOK' /\ read_poll' \in BOOLEAN /\ write_poll' \in BOOLEAN
    BY Zenon, <1>8, <2>4, QuietRing DEF PipeInv, Types
  <2> QED
    BY Zenon, <1>1, <2>3, <2>4, <2>6, <2>7, <2>9, <2>10, ThreadStep
<1> QED
  BY Zenon, <1>6, <1>7, <1>8 DEF SendNormal

-----------------------------------------------------------------------------
(* The other steps.                                                        *)

\* A thread without the lock counts on nothing that the ring holds.
LEMMA UnlockedKeeps ==
  ASSUME PipeInv, NEW s \in Threads, pc[s] \in Unlocked, pc'[s] = pc[s],
         local'[s].i = local[s].i, local'[s].so_far = local[s].so_far
  PROVE  CountsOn(pc[s], local[s])'
<1>1. /\ pc[s] = "send_normal_yield" => local[s].so_far > 0
      /\ pc[s] # "send_normal_wait"
      /\ pc[s] = "send_room_wait" => local[s].i = 0 /\ local[s].so_far = 0
  BY Zenon DEF PipeInv, CountsOn, Reserved
<1>2. Receiving(pc[s], local[s])' /\ Undoable(pc[s], local[s])'
  BY Zenon DEF Receiving, Undoable, Unlocked, RecvPledged, SendPledged
<1>3. Reserved(pc[s], local[s])'
  BY Zenon, <1>1 DEF Reserved, Unlocked, RecvPledged, SendPledged
<1> QED
  BY Zenon, <1>2, <1>3 DEF CountsOn

LEMMA InterruptKeeps ==
  ASSUME PipeInv, NEW t \in Threads, Interrupt(t)
  PROVE  PipeInv'
<1>1. /\ pc[t] \in Waits /\ local' = [local EXCEPT ![t].interrupted = TRUE]
      /\ read_cond' \subseteq read_cond /\ write_cond' \subseteq write_cond
      /\ UNCHANGED <<ring, ends, pledges, read_poll, write_poll, pipe_lock, pc>>
      /\ pc[t] \in Unlocked
  BY Zenon DEF Interrupt, Waits, Unlocked, RecvPledged, SendPledged
<1>2. /\ Types /\ Locked /\ local \in [Threads -> LocalType] /\ local[t] \in LocalType
  BY Zenon DEF PipeInv, Types
<1>3. PICK l : l = [local[t] EXCEPT !.interrupted = TRUE]
  BY Zenon
<1>4. l \in LocalType /\ l.i = local[t].i /\ l.so_far = local[t].so_far
  BY Zenon, <1>2, <1>3 DEF LocalType
<1>5. /\ local' \in [Threads -> LocalType] /\ local'[t] = l
      /\ \A s \in Threads \ {t} : local'[s] = local[s]
  BY Zenon, <1>1, <1>2, <1>3, <1>4
<1>6. RingOK' /\ Cells' = Cells
  BY Zenon, <1>1, QuietRing
<1>7. Types'
  BY Zenon, <1>1, <1>2, <1>5, <1>6 DEF Types, RingOK, ends
<1>8. Locked'
  BY Zenon, <1>1, <1>2 DEF Locked, pledges, At
<1>9. ASSUME NEW s \in Threads
      PROVE  CountsOn(pc[s], local[s])'
  <2>1. CASE s = t
    BY Zenon, <1>1, <1>4, <1>5, <2>1, UnlockedKeeps
  <2>2. CASE s # t
    <3>1. /\ pc'[s] = pc[s] /\ local'[s] = local[s] /\ Cells' = Cells
          /\ buffer_used' = buffer_used /\ buffer_size' = buffer_size
          /\ last_header_position' = last_header_position
          /\ buffer' = buffer /\ buffer_offset' = buffer_offset
          /\ CountsOn(pc[s], local[s])
      BY Zenon, <1>1, <1>5, <1>6, <2>2 DEF ring, PipeInv
    <3> QED
      BY Zenon, <3>1
        DEF CountsOn, Receiving, Reserved, Undoable, NeedsHeader, ReadBuffer
  <2> QED
    BY Zenon, <2>1, <2>2
<1> QED
  BY Zenon, <1>6, <1>7, <1>8, <1>9 DEF PipeInv, RingOK

\* What changes no thread, while nobody has the lock.
LEMMA OutsideKeeps ==
  ASSUME PipeInv, pipe_lock = NULL, UNCHANGED <<pledges, threads>>, RingOK',
         any_reading' \in BOOLEAN, any_writing' \in BOOLEAN,
         read_cond' \subseteq read_cond, write_cond' \subseteq write_cond,
         read_poll' \in BOOLEAN, write_poll' \in BOOLEAN
  PROVE  PipeInv'
<1>1. Types /\ Locked /\ UNCHANGED <<pledged_read, pledged_write, pipe_lock, pc, local>>
  BY Zenon DEF PipeInv, pledges, threads
<1>2. Types'
  BY Zenon, <1>1 DEF Types, RingOK
<1>3. Locked'
  BY Zenon, <1>1 DEF Locked, At
<1>4. ASSUME NEW s \in Threads
      PROVE  CountsOn(pc[s], local[s])'
  <2>1. pc[s] \in Unlocked
    BY Zenon, <1>1, PipeAssumption DEF Locked, Threads
  <2> QED
    BY Zenon, <1>1, <2>1, UnlockedKeeps
<1> QED
  BY Zenon, <1>2, <1>3, <1>4 DEF PipeInv, RingOK

LEMMA CloseReadingKeeps ==
  ASSUME PipeInv, CloseReading
  PROVE  PipeInv'
<1>1. /\ pipe_lock = NULL /\ UNCHANGED <<ring, pledges, threads>>
      /\ any_reading' \in BOOLEAN /\ any_writing' \in BOOLEAN
      /\ read_cond' \subseteq read_cond /\ write_cond' \subseteq write_cond
      /\ read_poll' \in BOOLEAN /\ write_poll' \in BOOLEAN
  BY Zenon DEF CloseReading, PipeInv, Types
<1> QED
  BY Zenon, <1>1, QuietRing, OutsideKeeps

LEMMA CloseWritingKeeps ==
  ASSUME PipeInv, CloseWriting
  PROVE  PipeInv'
<1>1. /\ pipe_lock = NULL /\ UNCHANGED <<ring, pledges, threads>>
      /\ any_reading' \in BOOLEAN /\ any_writing' \in BOOLEAN
      /\ read_cond' \subseteq read_cond /\ write_cond' \subseteq write_cond
      /\ read_poll' \in BOOLEAN /\ write_poll' \in BOOLEAN
  BY Zenon DEF CloseWriting, PipeInv, Types
<1> QED
  BY Zenon, <1>1, QuietRing, OutsideKeeps

LEMMA PollKeeps ==
  ASSUME PipeInv, ReadPoll \/ WritePoll
  PROVE  PipeInv'
<1>1. /\ pipe_lock = NULL /\ UNCHANGED <<ring, pledges, threads>>
      /\ any_reading' \in BOOLEAN /\ any_writing' \in BOOLEAN
      /\ read_cond' \subseteq read_cond /\ write_cond' \subseteq write_cond
      /\ read_poll' \in BOOLEAN /\ write_poll' \in BOOLEAN
  BY Zenon DEF ReadPoll, WritePoll, PipeInv, Types, ends
<1> QED
  BY Zenon, <1>1, QuietRing, OutsideKeeps

\* WriteResize moves the cells, and changes none of those in use.
LEMMA ResizeRow ==
  ASSUME PipeInv, NEW new_size \in Nat, WriteResize(new_size)
  PROVE  RingOK' /\ Cells' = Cells
<1>1. /\ buffer_used \in Nat /\ buffer_used \in 0..buffer_size /\ sent \in Nat
      /\ buffer_size \in Nat
      /\ \A q \in 0..buffer_size - 1 : ReadBuffer(q) \in CellType
      /\ Parsed(Cells, buffer_used, last_header_position)
  BY Zenon, RingCells DEF PipeInv, Types
<1>2. PICK size \in Nat : size = Larger(Larger(new_size, 2), buffer_used)
  BY Zenon, <1>1 DEF Larger
<1>3. size >= 2 /\ size >= buffer_used
  BY <1>1, <1>2 DEF Larger
<1>4. /\ buffer_size' = size /\ buffer_offset' = 0
      /\ buffer' = [i \in 0..size - 1 |->
                     IF i < buffer_used THEN ReadBuffer(i) ELSE Free]
      /\ buffer_used' = buffer_used /\ last_header_position' = last_header_position
      /\ sent' = sent
  BY Zenon, <1>2 DEF WriteResize
<1>5. buffer' \in [0..size - 1 -> CellType]
  <2>1. Free \in CellType
    BY Zenon DEF Free, Cell, CellType
  <2>2. ASSUME NEW i \in 0..size - 1
        PROVE  (IF i < buffer_used THEN ReadBuffer(i) ELSE Free) \in CellType
    BY <1>1, <2>1
  <2> QED
    BY Zenon, <1>4, <2>2
<1>6. ASSUME NEW p \in 0..buffer_used - 1
      PROVE  ReadBuffer(p)' = ReadBuffer(p)
  <2>1. p \in 0..size - 1 /\ p < buffer_used /\ p \in Nat /\ p < size
    BY <1>1, <1>3
  <2>2. (0 + p) % size = p
    BY <1>3, <2>1
  <2>3. buffer'[p] = ReadBuffer(p)
    BY Zenon, <1>4, <2>1
  <2> QED
    BY Zenon, <1>4, <2>2, <2>3 DEF ReadBuffer
<1>7. Cells' = Cells
  BY Zenon, <1>4, <1>6 DEF Cells
<1>8. 0 \in 0..size - 1 /\ buffer_used \in 0..size
  BY <1>1, <1>3
<1> QED
  BY Zenon, <1>1, <1>3, <1>4, <1>5, <1>7, <1>8 DEF RingOK

LEMMA WriteResizeKeeps ==
  ASSUME PipeInv, NEW new_size \in Nat, WriteResize(new_size)
  PROVE  PipeInv'
<1>1. /\ pipe_lock = NULL /\ UNCHANGED <<pledges, threads>>
      /\ any_reading' \in BOOLEAN /\ any_writing' \in BOOLEAN
      /\ read_cond' \subseteq read_cond /\ write_cond' \subseteq write_cond
      /\ read_poll' \in BOOLEAN /\ write_poll' \in BOOLEAN
  BY Zenon DEF WriteResize, PipeInv, Types, ends, conds
<1> QED
  BY Zenon, <1>1, ResizeRow, OutsideKeeps

LEMMA InitHolds ==
  ASSUME Init
  PROVE  PipeInv
<1>1. Free \in CellType /\ BufferSize \in Nat /\ BufferSize >= 2
  BY Zenon, PipeAssumption DEF Free, Cell, CellType
<1>2. 0 \in 0..BufferSize - 1 /\ 0 \in 0..BufferSize /\ 0 \in Nat
  BY <1>1
<1>3. Types
  BY Zenon, <1>1, <1>2, NoCallType DEF Init, Types, Steps
<1>4. Locked
  <2>1. At(RecvPledged) = {} /\ At(SendPledged) = {}
    BY Zenon DEF Init, At, RecvPledged, SendPledged
  <2> QED
    BY Zenon, <2>1, CountedNone DEF Init, Locked, Unlocked
<1>5. Parsed(Cells, buffer_used, last_header_position)
  <2>1. 0..0 - 1 = {}
    OBVIOUS
  <2>2. IsRow(Cells, 0)
    BY Zenon, <2>1 DEF IsRow, Cells, Init
  <2> QED
    BY Zenon, <2>1, <2>2 DEF Parsed, Init
<1>6. ASSUME NEW t \in Threads
      PROVE  CountsOn(pc[t], local[t])
  <2>1. pc[t] = "idle"
    BY Zenon DEF Init
  <2> QED
    BY Zenon, <2>1 DEF CountsOn, Receiving, Reserved, Undoable, SendPledged
<1> QED
  BY Zenon, <1>3, <1>4, <1>5, <1>6 DEF PipeInv

LEMMA StutterKeeps ==
  ASSUME PipeInv, UNCHANGED vars
  PROVE  PipeInv'
<1>1. /\ UNCHANGED <<buffer, buffer_offset, buffer_used, buffer_size, sent,
                     last_header_position, pledged_read, pledged_write, any_reading,
                     any_writing, read_cond, write_cond, read_poll, write_poll>>
      /\ UNCHANGED <<pipe_lock, pc, local>>
  BY Zenon DEF vars, ring, ends, pledges, conds, threads
<1>2. Cells' = Cells
  BY Zenon, <1>1 DEF Cells, ReadBuffer
<1>3. Types' /\ Locked'
  BY Zenon, <1>1 DEF PipeInv, Types, Locked, At
<1>4. ASSUME NEW s \in Threads
      PROVE  CountsOn(pc[s], local[s])'
  <2>1. CountsOn(pc[s], local[s])
    BY Zenon DEF PipeInv
  <2> QED
    BY Zenon, <1>1, <1>2, <2>1
    DEF CountsOn, Receiving, Reserved, Undoable, NeedsHeader, ReadBuffer
<1> QED
  BY Zenon, <1>1, <1>2, <1>3, <1>4 DEF PipeInv

LEMMA NextKeeps ==
  ASSUME PipeInv, [Next]_vars
  PROVE  PipeInv'
<1>1. ASSUME NEW r \in Readers, NEW n \in 1..MaxCount, NEW waitall \in BOOLEAN,
             NEW nonblock \in Nonblocking, NEW peek \in Peeking,
             Recv(r, n, waitall, nonblock, peek)
      PROVE  PipeInv'
  <2>1. n \in Nat /\ nonblock \in BOOLEAN /\ peek \in BOOLEAN
    BY PipeAssumption
  <2> QED
    BY Zenon, <1>1, <2>1, RecvKeeps
<1>2. ASSUME NEW r \in Readers, RecvStep(r)
      PROVE  PipeInv'
  BY Zenon, <1>2, RecvFirstKeeps, RecvFirstResumeKeeps, RecvAncillaryKeeps,
     RecvNormalKeeps,
     RecvNormalResumeKeeps DEF RecvStep
<1>3. ASSUME NEW w \in Writers, NEW n \in 0..MaxCount, NEW fds \in 0..MaxFds,
             NEW nonblock \in Nonblocking, Send(w, n, fds, nonblock)
      PROVE  PipeInv'
  <2>1. n \in Nat /\ fds \in Nat /\ nonblock \in BOOLEAN
    BY PipeAssumption
  <2> QED
    BY Zenon, <1>3, <2>1, SendKeeps
<1>4. ASSUME NEW w \in Writers, SendStep(w)
      PROVE  PipeInv'
  BY Zenon, <1>4, SendRoomKeeps, SendRoomResumeKeeps, SendCmsgKeeps,
     SendFdKeeps, SendUndoKeeps,
     SendNormalKeeps, SendNormalResumeKeeps DEF SendStep
<1>5. ASSUME NEW size \in Sizes, WriteResize(size)
      PROVE  PipeInv'
  <2>1. size \in Nat
    BY Zenon, PipeAssumption
  <2> QED
    BY Zenon, <1>5, <2>1, WriteResizeKeeps
<1> QED
  BY Zenon, <1>1, <1>2, <1>3, <1>4, <1>5, InterruptKeeps, CloseReadingKeeps,
     CloseWritingKeeps,
     PollKeeps, StutterKeeps DEF Next

LEMMA Invariance == Spec => []PipeInv
<1>1. Init => PipeInv
  BY Zenon, InitHolds
<1>2. PipeInv /\ [Next]_vars => PipeInv'
  BY Zenon, NextKeeps
<1> QED
  BY <1>1, <1>2, PTL DEF Spec

\* The ring buffer always parses: from the first header on, each header leads to
\* the next one and the last one to the end, control data comes before bytes in
\* a segment, no segment is empty, and last_header_position is the last header
\* (Enqueue, Unenqueue, Dequeue and WriteResize in pipe.cpp).
THEOREM RingParses == Spec => []Parsed(Cells, buffer_used, last_header_position)
<1>1. PipeInv => Parsed(Cells, buffer_used, last_header_position)
  BY Zenon DEF PipeInv
<1> QED
  BY <1>1, Invariance, PTL

\* What was counted on as room is there: a poll that reports POLLOUT finds room
\* for a byte, sendmsg never has to wait between its control data and its first
\* byte, as its comment says, and the ring's indices stay within the ring however
\* WriteResize is called.
THEOREM RoomStaysExact == Spec => []RoomExact
<1>1. ASSUME PipeInv
      PROVE  RoomExact
  <2>1. TypeOK
    <3>1. pledged_read \in Nat /\ pledged_write \in Nat
      BY Zenon, <1>1 DEF PipeInv, Locked, Counted
    <3>2. last_header_position \in 0..buffer_used /\ buffer_size \in Nat \ {0}
      BY <1>1, LastHeader DEF PipeInv, Types
    <3> QED
      BY Zenon, <1>1, <3>1, <3>2 DEF PipeInv, Types, TypeOK, CellType
  <2>2. PollTellsTruth
    <3>1. /\ buffer_size >= 2 /\ buffer_size \in Nat /\ buffer_used \in Nat
          /\ last_header_position \in Nat /\ buffer_used <= buffer_size
          /\ (last_header_position < buffer_used <=> buffer_used > 0)
          /\ (buffer_used = 0 => last_header_position = 0)
      BY Zenon, <1>1, LastHeader DEF PipeInv, Types
    <3> QED
      BY <3>1
        DEF PollTellsTruth, WritePollEventStatus, HasRoom, Required, NeedsHeader
  <2>3. FirstByteFits
    BY Zenon, <1>1
       DEF PipeInv, CountsOn, Reserved, FirstByteFits, Overhead, Threads
  <2> QED
    BY Zenon, <2>1, <2>2, <2>3 DEF RoomExact
<1> QED
  BY <1>1, Invariance, PTL

\* The copy of the segment header that recvmsg_internal keeps is right whenever
\* it takes bytes, whatever other threads did while it yielded or waited.
THEOREM HeaderStaysFresh == Spec => []HeaderFresh
<1>1. ASSUME PipeInv, NEW r \in Readers, pc[r] = "recv_normal", local[r].normal > 0
      PROVE  buffer_used > 0 /\ ReadBuffer(0) = Header(0, local[r].normal)
  <2>1. buffer_used > 0 /\ Cells[0] = Header(0, local[r].normal)
    BY Zenon, <1>1 DEF PipeInv, CountsOn, Receiving, Threads
  <2> QED
    BY Zenon, <1>1, <2>1, FirstHeader
<1>2. PipeInv => HeaderFresh
  BY Zenon, <1>1 DEF HeaderFresh
<1> QED
  BY <1>2, Invariance, PTL

-----------------------------------------------------------------------------
(* Nobody sleeps who could go on.                                          *)

\* A broadcast and the polls after a change of the ring.  last is what the
\* operation takes for the last header.
LEMMA PollsSignalled ==
  ASSUME NEW last, SignalPolls(buffer_used', last), buffer_size' = buffer_size,
         UNCHANGED ends,
         write_poll /\ WritePollEventStatus(buffer_used', buffer_size,
                                            last_header_position', any_reading)
           => WritePollEventStatus(buffer_used', buffer_size, last, any_reading)
  PROVE  PollsAwake'
BY Zenon
  DEF SignalPolls, PollsAwake, ends, ReadPollEventStatus, WritePollEventStatus

\* A step that changes neither the ring nor the ends.
LEMMA QuietAwake ==
  ASSUME ThreadsAwake, UNCHANGED <<ring, ends, read_poll, write_poll>>,
         read_cond' = {} \/ read_cond' \subseteq read_cond \/ (buffer_used = 0 /\ any_writing),
         \A w \in write_cond' :
            \/ w \in write_cond /\ local'[w].fds = local[w].fds
            \/ any_reading /\ ~HasRoom(local'[w].fds)
  PROVE  ThreadsAwake'
<1>1. /\ buffer_used' = buffer_used /\ buffer_size' = buffer_size
      /\ last_header_position' = last_header_position
      /\ buffer' = buffer /\ buffer_offset' = buffer_offset
      /\ any_reading' = any_reading /\ any_writing' = any_writing
      /\ read_poll' = read_poll /\ write_poll' = write_poll
  BY Zenon DEF ring, ends
<1>2. ReadersAwake'
  BY Zenon, <1>1 DEF ThreadsAwake, ReadersAwake
<1>3. WritersAwake'
  <2>1. ASSUME NEW w \in write_cond'
        PROVE  any_reading /\ ~HasRoom(local'[w].fds)
    BY Zenon DEF ThreadsAwake, WritersAwake
  <2>2. ASSUME NEW fds
        PROVE  HasRoom(fds)' = HasRoom(fds)
    BY Zenon, <1>1 DEF HasRoom, NeedsHeader, ReadBuffer
  <2> QED
    BY Zenon, <1>1, <2>1, <2>2
       DEF WritersAwake, HasRoom, NeedsHeader, ReadBuffer
<1>4. PollsAwake'
  BY <1>1 DEF ThreadsAwake, PollsAwake
<1> QED
  BY Zenon, <1>2, <1>3, <1>4 DEF ThreadsAwake

\* Dequeue and Unenqueue wake every writer, and no reader sleeps while there is
\* something to remove.
LEMMA RemovalAwake ==
  ASSUME ThreadsAwake, buffer_used > 0, read_cond' = read_cond, write_cond' = {}, PollsAwake'
  PROVE  ThreadsAwake'
BY DEF ThreadsAwake, ReadersAwake, WritersAwake

\* Enqueue wakes every reader, and a writer for which there was no room has no
\* more of it: what is added takes the room of the header it brings.
LEMMA AdditionAwake ==
  ASSUME ThreadsAwake, PipeInv, buffer_used' \in Nat, buffer_used < buffer_used',
         buffer_size' = buffer_size, UNCHANGED ends, read_cond' = {},
         \A w \in write_cond' : w \in write_cond /\ local'[w].fds = local[w].fds,
         \A w \in write_cond : local[w].fds \in Nat,
         PollsAwake'
  PROVE  ThreadsAwake'
<1>1. buffer_used \in Nat /\ buffer_size \in Nat
  BY Zenon, LastHeader
<1>2. ASSUME NEW w \in write_cond'
      PROVE  (any_reading /\ ~HasRoom(local[w].fds))'
  <2>1. PICK fds \in Nat : fds = local[w].fds /\ fds = local'[w].fds
    BY Zenon
  <2>2. any_reading /\ ~HasRoom(fds)
    BY Zenon, <2>1 DEF ThreadsAwake, WritersAwake
  <2>3. PICK n \in 0..1, m \in 0..1, k \in Nat :
          /\ n = (IF NeedsHeader(fds) THEN 1 ELSE 0)
          /\ m = (IF NeedsHeader(fds)' THEN 1 ELSE 0)
          /\ k = Required(fds)
    BY DEF Required
  <2>4. ~(k + n <= buffer_size - buffer_used)
    BY Zenon, <2>2, <2>3 DEF HasRoom
  <2>5. ~(k + m <= buffer_size' - buffer_used')
    <3>1. n \in Nat /\ n <= 1 /\ m \in Nat
      OBVIOUS
    <3>2. PICK s \in Nat, u \in Nat, v \in Nat :
            s = buffer_size /\ u = buffer_used /\ v = buffer_used'
      BY Zenon, <1>1
    <3>3. ~(k + n <= s - u) /\ u < v
      BY Zenon, <2>4, <3>2
    <3>4. ~(k + m <= s - v)
      BY <3>1, <3>3
    <3> QED
      BY Zenon, <3>2, <3>4
  <2>6. ~HasRoom(fds)'
    BY Zenon, <2>3, <2>5 DEF HasRoom, Required
  <2> QED
    BY Zenon, <2>1, <2>2, <2>6 DEF ends, HasRoom, Required, NeedsHeader
<1> QED
  BY Zenon, <1>2 DEF ThreadsAwake, ReadersAwake, WritersAwake

\* A thread that does not sleep changes its own locals, and nothing else that the
\* sleepers depend on.
LEMMA OwnAwake ==
  ASSUME PipeInv, ThreadsAwake, NEW t \in Threads, t \notin write_cond,
         \A s \in Threads \ {t} : local'[s] = local[s],
         UNCHANGED <<ring, ends, conds>>
  PROVE  ThreadsAwake'
<1>1. \A w \in write_cond' : w \in write_cond /\ local'[w].fds = local[w].fds
  BY Zenon DEF conds, PipeInv, Types, Threads
<1>2. /\ UNCHANGED <<ring, ends, read_poll, write_poll>> /\ read_cond' \subseteq read_cond
  BY Zenon DEF conds
<1> QED
  BY Zenon, <1>1, <1>2, QuietAwake

\* A reader goes to sleep, or a writer.
LEMMA ReadSleepAwake ==
  ASSUME PipeInv, ThreadsAwake, NEW r \in Threads, r \notin write_cond,
         \A s \in Threads \ {r} : local'[s] = local[s],
         NEW step, WaitRead(r, step), buffer_used = 0, any_writing
  PROVE  ThreadsAwake'
<1>1. \A w \in write_cond' : w \in write_cond /\ local'[w].fds = local[w].fds
  BY Zenon DEF WaitRead, PipeInv, Types, Threads
<1>2. UNCHANGED <<ring, ends, read_poll, write_poll>>
  BY Zenon DEF WaitRead
<1> QED
  BY Zenon, <1>1, <1>2, QuietAwake

LEMMA WriteSleepAwake ==
  ASSUME PipeInv, ThreadsAwake, NEW w \in Threads,
         \A s \in Threads \ {w} : local'[s] = local[s],
         UNCHANGED <<ring, ends, read_cond, read_poll, write_poll>>,
         write_cond' = write_cond \cup {w}, any_reading, ~HasRoom(local'[w].fds)
  PROVE  ThreadsAwake'
<1>1. ASSUME NEW v \in write_cond'
      PROVE  \/ v \in write_cond /\ local'[v].fds = local[v].fds
             \/ any_reading /\ ~HasRoom(local'[v].fds)
  <2>1. CASE v = w
    BY Zenon, <2>1
  <2>2. CASE v # w
    BY Zenon, <2>2 DEF PipeInv, Types, Threads
  <2> QED
    BY Zenon, <2>1, <2>2
<1> QED
  BY Zenon, <1>1, QuietAwake

LEMMA DequeueAwake ==
  ASSUME PipeInv, ThreadsAwake, buffer_used > 0, NEW n \in Nat \ {0},
         n <= IF Cells[0].a > 0 THEN Cells[0].a ELSE Cells[0].b,
         Dequeue(n), UNCHANGED ends
  PROVE  ThreadsAwake'
<1>1. buffer_used' \in Nat /\ buffer_size' = buffer_size /\ buffer_size >= 2
      /\ buffer_size \in Nat
  BY Zenon, DequeueRing DEF Dequeue, PipeInv, Types, RingOK, Parsed
<1>2. PICK last : /\ SignalPolls(buffer_used', last)
                  /\ last_header_position' = IF buffer_used' = 0 THEN 0 ELSE last
  BY Zenon DEF Dequeue
<1>3. WritePollEventStatus(buffer_used', buffer_size, last_header_position', any_reading)
        => WritePollEventStatus(buffer_used', buffer_size, last, any_reading)
  <2>1. CASE buffer_used' = 0
    BY <1>1, <2>1 DEF WritePollEventStatus
  <2>2. CASE buffer_used' # 0
    BY Zenon, <1>2, <2>2
  <2> QED
    BY Zenon, <2>1, <2>2
<1>4. PollsAwake'
  BY Zenon, <1>1, <1>2, <1>3, PollsSignalled
<1>5. read_cond' = read_cond /\ write_cond' = {}
  BY Zenon DEF Dequeue
<1> QED
  BY Zenon, <1>4, <1>5, RemovalAwake

LEMMA EnqueueAwake ==
  ASSUME PipeInv, ThreadsAwake, NEW t \in Threads, t \notin write_cond,
         \A s \in Threads \ {t} : local'[s] = local[s],
         NEW cells, NEW is_ancillary, Enqueue(cells, is_ancillary), UNCHANGED ends,
         buffer_used' \in Nat, buffer_used < buffer_used'
  PROVE  ThreadsAwake'
<1>1. /\ SignalPolls(buffer_used', last_header_position') /\ buffer_size' = buffer_size
      /\ read_cond' = {} /\ write_cond' = write_cond
  BY Zenon DEF Enqueue
<1>2. PollsAwake'
  BY Zenon, <1>1, PollsSignalled
<1>3. \A w \in write_cond' : w \in write_cond /\ local'[w].fds = local[w].fds
  BY Zenon, <1>1 DEF PipeInv, Types, Threads
<1>4. \A w \in write_cond : local[w].fds \in Nat
  BY Zenon, LocalFields DEF PipeInv, Types, Threads
<1> QED
  BY Zenon, <1>1, <1>2, <1>3, <1>4, AdditionAwake

LEMMA UnenqueueAwake ==
  ASSUME PipeInv, ThreadsAwake, buffer_used > 0, NEW saved, Unenqueue(saved), UNCHANGED ends
  PROVE  ThreadsAwake'
<1>1. /\ SignalPolls(buffer_used', last_header_position') /\ buffer_size' = buffer_size
      /\ read_cond' = read_cond /\ write_cond' = {}
  BY Zenon DEF Unenqueue
<1>2. PollsAwake'
  BY Zenon, <1>1, PollsSignalled
<1> QED
  BY Zenon, <1>1, <1>2, RemovalAwake

LEMMA RecvStepAwake ==
  ASSUME PipeInv, ThreadsAwake, NEW r \in Readers, RecvStep(r)
  PROVE  ThreadsAwake'
<1>1. /\ r \in Threads /\ local \in [Threads -> LocalType] /\ local[r] \in LocalType
      /\ r \notin write_cond
  BY Zenon, PipeAssumption DEF PipeInv, Types, Threads
<1>2. \A s \in Threads \ {r} : local'[s] = local[s]
  BY Zenon, <1>1
    DEF RecvStep, RecvFirst, RecvFirstResume, RecvAncillary, RecvNormal,
    RecvNormalResume, Return, Release, Goto, YieldRead, WaitRead
<1>3. CASE RecvFirst(r)
  <2>1. CASE UNCHANGED <<ring, ends, conds>>
    BY Zenon, <1>1, <1>2, <2>1, OwnAwake
  <2>2. CASE buffer_used = 0 /\ any_writing /\ WaitRead(r, "recv_first_wait")
    BY Zenon, <1>1, <1>2, <2>2, ReadSleepAwake
  <2> QED
    BY Zenon, <1>3, <2>1, <2>2 DEF RecvFirst, YieldRead
<1>4. CASE RecvFirstResume(r) \/ RecvNormalResume(r)
  BY Zenon, <1>1, <1>2, <1>4, OwnAwake DEF RecvFirstResume, RecvNormalResume
<1>5. CASE RecvAncillary(r)
  <2>1. CASE UNCHANGED <<ring, ends, conds>>
    BY Zenon, <1>1, <1>2, <2>1, OwnAwake
  <2>2. CASE local[r].i > 0 /\ Dequeue(1)
    <3>1. /\ local[r].i \in Nat /\ local[r].normal \in Nat /\ pc[r] = "recv_ancillary"
          /\ UNCHANGED ends
      BY Zenon, <1>1, <1>5, LocalFields DEF RecvAncillary
    <3>2. buffer_used > 0 /\ Cells[0] = Header(local[r].i, local[r].normal)
      BY SMTT(30), <1>1, <2>2, <3>1 DEF PipeInv, CountsOn, Receiving
    <3>3. /\ 1 \in Nat \ {0} /\ 1 <= IF Cells[0].a > 0 THEN Cells[0].a ELSE Cells[0].b
      BY <2>2, <3>1, <3>2, HeaderFields
    <3> QED
      BY Zenon, <2>2, <3>1, <3>2, <3>3, DequeueAwake
  <2> QED
    BY Zenon, <1>5, <2>1, <2>2 DEF RecvAncillary
<1>6. CASE RecvNormal(r)
  <2>1. CASE UNCHANGED <<ring, ends, conds>>
    BY Zenon, <1>1, <1>2, <2>1, OwnAwake
  <2>2. CASE buffer_used = 0 /\ any_writing /\ WaitRead(r, "recv_normal_wait")
    BY Zenon, <1>1, <1>2, <2>2, ReadSleepAwake
  <2>3. CASE /\ local[r].count > 0 /\ local[r].normal > 0 /\ UNCHANGED ends
             /\ Dequeue(Smaller(local[r].count, local[r].normal))
    <3>1. /\ local[r].count \in Nat /\ local[r].normal \in Nat /\ pc[r] = "recv_normal"
      BY Zenon, <1>1, <1>6, LocalFields DEF RecvNormal
    <3>2. buffer_used > 0 /\ Cells[0] = Header(0, local[r].normal)
      BY Zenon, <1>1, <2>3, <3>1 DEF PipeInv, CountsOn, Receiving
    <3>3. PICK n \in Nat \ {0} : n = Smaller(local[r].count, local[r].normal)
      BY <2>3, <3>1 DEF Smaller
    <3>4. n <= IF Cells[0].a > 0 THEN Cells[0].a ELSE Cells[0].b
      BY <2>3, <3>1, <3>2, <3>3, HeaderFields DEF Smaller
    <3> QED
      BY Zenon, <2>3, <3>2, <3>3, <3>4, DequeueAwake
  <2> QED
    BY Zenon, <1>6, <2>1, <2>2, <2>3 DEF RecvNormal, YieldRead
<1> QED
  BY Zenon, <1>3, <1>4, <1>5, <1>6 DEF RecvStep

LEMMA SendStepAwake ==
  ASSUME PipeInv, ThreadsAwake, NEW w \in Writers, SendStep(w)
  PROVE  ThreadsAwake'
<1>1. /\ w \in Threads /\ local \in [Threads -> LocalType] /\ local[w] \in LocalType
      /\ buffer_used \in Nat
  BY Zenon, LastHeader DEF PipeInv, Types, Threads
<1>2. \A s \in Threads \ {w} : local'[s] = local[s]
  BY Zenon, <1>1
    DEF SendStep, SendRoom, SendRoomResume, SendCmsg, SendFd, SendUndo, SendNormal,
    SendNormalResume, Return, Release, Goto
<1>3. w \notin write_cond
  BY Zenon, AwakeAt
    DEF SendStep, SendRoom, SendRoomResume, SendCmsg, SendFd, SendUndo, SendNormal,
    SendNormalResume, Reenter, Waits
<1>4. CASE UNCHANGED <<ring, ends, conds>>
  BY Zenon, <1>1, <1>2, <1>3, <1>4, OwnAwake
<1>5. CASE SendRoom(w)
  <2>1. CASE /\ any_reading /\ ~HasRoom(local[w].fds)
             /\ Release(w, "send_room_wait", local[w])
             /\ write_cond' = write_cond \cup {w}
             /\ UNCHANGED <<ring, ends, read_cond, read_poll, write_poll>>
    <3>1. local'[w] = local[w]
      BY Zenon, <1>1, <2>1 DEF Release
    <3> QED
      BY Zenon, <1>1, <1>2, <2>1, <3>1, WriteSleepAwake
  <2> QED
    BY Zenon, <1>4, <1>5, <2>1 DEF SendRoom
<1>6. ASSUME NEW cells, NEW is_ancillary \in BOOLEAN, Enqueue(cells, is_ancillary),
             Len(cells) \in Nat \ {0}, UNCHANGED ends
      PROVE  ThreadsAwake'
  <2>1. PICK h \in Nat : buffer_used' = buffer_used + h + Len(cells)
    BY Zenon, <1>1, <1>6 DEF Enqueue
  <2>2. buffer_used' \in Nat /\ buffer_used < buffer_used'
    BY <1>1, <1>6, <2>1
  <2> QED
    BY Zenon, <1>1, <1>2, <1>3, <1>6, <2>2, EnqueueAwake
<1>7. CASE SendCmsg(w)
  <2>1. PICK cells : cells = <<Cell("cmsg", local[w].fds, 0)>>
    BY Zenon
  <2>2. PICK is_ancillary \in BOOLEAN : is_ancillary = TRUE
    BY Zenon
  <2>3. Len(cells) \in Nat \ {0}
    BY <2>1
  <2>4. Enqueue(cells, is_ancillary)
    BY Zenon, <1>7, <2>1, <2>2 DEF SendCmsg
  <2> QED
    BY Zenon, <1>6, <1>7, <2>3, <2>4 DEF SendCmsg
<1>8. CASE SendFd(w)
  <2>1. CASE Enqueue(<<Cell("fd", local[w].i + 1, 0)>>, TRUE)
    <3>1. PICK cells : cells = <<Cell("fd", local[w].i + 1, 0)>>
      BY Zenon
    <3>2. PICK is_ancillary \in BOOLEAN : is_ancillary = TRUE
      BY Zenon
    <3>3. Len(cells) \in Nat \ {0}
      BY <3>1
    <3>4. Enqueue(cells, is_ancillary)
      BY Zenon, <2>1, <3>1, <3>2
    <3>5. UNCHANGED ends
      BY Zenon, <1>8 DEF SendFd
    <3> QED
      BY Zenon, <1>6, <3>3, <3>4, <3>5
  <2> QED
    BY Zenon, <1>4, <1>8, <2>1 DEF SendFd
<1>9. CASE SendUndo(w)
  <2>1. buffer_used > 0 /\ Unenqueue(local[w].saved) /\ UNCHANGED ends
    BY Zenon, <1>1, <1>9 DEF SendUndo, PipeInv, CountsOn, Undoable
  <2> QED
    BY Zenon, <2>1, UnenqueueAwake
<1>10. CASE SendNormal(w)
  <2> DEFINE amount == Smaller(local[w].count, buffer_size - buffer_used - Overhead(w))
  <2>1. CASE /\ local[w].count > 0 /\ ~(buffer_size - buffer_used <= Overhead(w))
             /\ Enqueue([i \in 1..amount |-> Byte(sent + i)], FALSE)
    <3>1. /\ local[w].count \in Nat /\ Overhead(w) \in 0..1 /\ buffer_size \in Nat
      BY <1>1, LocalFields, LastHeader DEF Overhead
    <3>2. amount \in Nat \ {0}
      BY <1>1, <2>1, <3>1 DEF Smaller
    <3>3. PICK cells : cells = [i \in 1..amount |-> Byte(sent + i)]
      BY Zenon
    <3>4. PICK is_ancillary \in BOOLEAN : is_ancillary = FALSE
      BY Zenon
    <3>5. Len(cells) \in Nat \ {0}
      BY <3>2, <3>3
    <3>6. Enqueue(cells, is_ancillary)
      BY Zenon, <2>1, <3>3, <3>4
    <3>7. UNCHANGED ends
      BY Zenon, <1>10 DEF SendNormal
    <3> QED
      BY Zenon, <1>6, <3>5, <3>6, <3>7
  <2>2. CASE /\ local[w].count > 0 /\ buffer_size - buffer_used <= Overhead(w)
             /\ pledged_read > 0 \/ (local[w].so_far = 0 /\ ~local[w].nonblock)
             /\ IF pledged_read > 0 THEN UNCHANGED conds ELSE TRUE
             /\ UNCHANGED <<ring, ends>>
    <3>1. ~(local[w].so_far = 0)
      <4>1. pc[w] = "send_normal" /\ Reserved(pc[w], local[w]) /\ buffer_size \in Nat
        BY Zenon, <1>1, <1>10, LastHeader DEF SendNormal, PipeInv, CountsOn
      <4> QED
        BY <1>1, <2>2, <4>1 DEF Reserved, Overhead
    <3> QED
      BY Zenon, <1>4, <2>2, <3>1
  <2> QED
    BY Zenon, <1>4, <1>10, <2>1, <2>2 DEF SendNormal
<1>11. CASE SendRoomResume(w) \/ SendNormalResume(w)
  BY Zenon, <1>4, <1>11 DEF SendRoomResume, SendNormalResume
<1> QED
  BY Zenon, <1>5, <1>7, <1>8, <1>9, <1>10, <1>11 DEF SendStep

\* Nobody sleeps who could go on, while nothing is resized: no reader with data
\* or without a writer, no writer with room or without a reader, and no poll with
\* something to report.  Every broadcast of read_cond and write_cond and every
\* signal of the poll channels that this takes is in recvmsg_internal,
\* sendmsg_internal, CloseReading and CloseWriting.
THEOREM ThreadsStayAwake ==
  ASSUME Sizes = {}
  PROVE  Spec => []ThreadsAwake
<1>1. ASSUME Init
      PROVE  ThreadsAwake
  BY Zenon, <1>1 DEF Init, ThreadsAwake, ReadersAwake, WritersAwake, PollsAwake
<1>2. ASSUME PipeInv, ThreadsAwake, [Next]_vars
      PROVE  ThreadsAwake'
  <2>1. ASSUME NEW t \in Threads, NEW step, NEW l, Enter(t, step, l)
        PROVE  ThreadsAwake'
    <3>1. t \notin write_cond /\ UNCHANGED <<ring, ends, conds>>
      BY Zenon, <1>2, <2>1, AwakeAt DEF Enter, Waits
    <3>2. \A s \in Threads \ {t} : local'[s] = local[s]
      BY Zenon, <1>2, <2>1 DEF Enter, PipeInv, Types
    <3> QED
      BY Zenon, <1>2, <3>1, <3>2, OwnAwake
  <2>2. ASSUME NEW r \in Readers, NEW n, NEW waitall, NEW nonblock, NEW peek,
               Recv(r, n, waitall, nonblock, peek)
        PROVE  ThreadsAwake'
    BY Zenon, <2>1, <2>2 DEF Recv, Threads
  <2>3. ASSUME NEW w \in Writers, NEW n, NEW fds, NEW nonblock, Send(w, n, fds, nonblock)
        PROVE  ThreadsAwake'
    BY Zenon, <2>1, <2>3 DEF Send, Threads
  <2>4. ASSUME NEW t \in Threads, Interrupt(t)
        PROVE  ThreadsAwake'
    <3>1. /\ local \in [Threads -> LocalType] /\ write_cond \subseteq Threads
          /\ local' = [local EXCEPT ![t].interrupted = TRUE]
          /\ read_cond' \subseteq read_cond /\ write_cond' \subseteq write_cond \ {t}
          /\ UNCHANGED <<ring, ends, read_poll, write_poll>>
      BY Zenon, <1>2, <2>4 DEF Interrupt, PipeInv, Types, Threads
    <3>2. \A w \in write_cond' : w \in write_cond /\ local'[w].fds = local[w].fds
      BY Zenon, <3>1
    <3> QED
      BY Zenon, <1>2, <3>1, <3>2, QuietAwake
  <2>5. CASE CloseReading
    <3>1. /\ any_reading' = FALSE /\ write_cond' = {} /\ write_poll' = FALSE
          /\ buffer_used' = buffer_used /\ any_writing' = any_writing
          /\ read_cond' = read_cond
          /\ read_poll' = (read_poll /\ ~ReadPollEventStatus(buffer_used, any_writing))
      BY Zenon, <2>5 DEF CloseReading, ring
    <3> QED
      BY Zenon, <1>2, <3>1
         DEF ThreadsAwake, ReadersAwake, WritersAwake, PollsAwake
  <2>6. CASE CloseWriting
    <3>1. /\ any_writing' = FALSE /\ read_cond' = {} /\ read_poll' = FALSE
          /\ any_reading' = any_reading /\ write_cond' = write_cond /\ local' = local
          /\ buffer' = buffer /\ buffer_offset' = buffer_offset
          /\ buffer_used' = buffer_used /\ buffer_size' = buffer_size
          /\ last_header_position' = last_header_position
          /\ write_poll' = (write_poll /\ ~WritePollEventStatus(buffer_used, buffer_size,
                                             last_header_position, any_reading))
      BY Zenon, <2>6 DEF CloseWriting, ring, threads
    <3>2. WritersAwake'
      BY Zenon, <1>2, <3>1
        DEF ThreadsAwake, WritersAwake, HasRoom, NeedsHeader, ReadBuffer
    <3> QED
      BY Zenon, <3>1, <3>2 DEF ThreadsAwake, ReadersAwake, PollsAwake
  <2>7. CASE ReadPoll \/ WritePoll
    <3>1. /\ UNCHANGED <<buffer, buffer_offset, buffer_used, buffer_size,
                         last_header_position, any_reading, any_writing, local>>
          /\ UNCHANGED <<read_cond, write_cond>>
      BY Zenon, <2>7 DEF ReadPoll, WritePoll, ring, ends, threads
    <3>2. ReadersAwake' /\ WritersAwake'
      BY Zenon, <1>2, <3>1
      DEF ThreadsAwake, ReadersAwake, WritersAwake, HasRoom, NeedsHeader, ReadBuffer
    <3>3. PollsAwake'
      BY <1>2, <2>7, <3>1 DEF ReadPoll, WritePoll, ThreadsAwake, PollsAwake
    <3> QED
      BY Zenon, <3>2, <3>3 DEF ThreadsAwake
  <2>8. CASE UNCHANGED vars
    <3>1. UNCHANGED <<ring, ends, conds, local>>
      BY Zenon, <2>8 DEF vars, threads
    <3>2. /\ UNCHANGED <<ring, ends, read_poll, write_poll>>
          /\ read_cond' \subseteq read_cond
          /\ \A w \in write_cond' : w \in write_cond /\ local'[w].fds = local[w].fds
      BY Zenon, <3>1 DEF conds
    <3> QED
      BY Zenon, <1>2, <3>2, QuietAwake
  <2> QED
    BY Zenon, <1>2, <2>2, <2>3, <2>4, <2>5, <2>6, <2>7, <2>8, RecvStepAwake,
       SendStepAwake
      DEF Next
<1> QED
  BY <1>1, <1>2, Invariance, PTL DEF Spec

=============================================================================
